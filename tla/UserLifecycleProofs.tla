------------------------ MODULE UserLifecycleProofs ------------------------
(***************************************************************************)
(* Proofs about UserLifecycle, for any number of users, replicas,          *)
(* exchanges, codes, disablings and faults and batches of any size: no     *)
(* refresh token that reached a client outlives its owner's access.        *)
(*                                                                         *)
(* The argument.  Let e be the last time u was disabled.  A replica that   *)
(* has e in its batch claimed it after e was recorded, so its listing of   *)
(* the grants is newer than e.  A grant created after e, while u stays     *)
(* disabled, is revoked by the exchange that created it, because that      *)
(* reads u again after it stored the grant: it never reaches a client.     *)
(* So what is stored, u's, and not in the listing is harmless, what is in  *)
(* the listing is deleted, or else e is not marked as delivered.           *)
(***************************************************************************)
EXTENDS UserLifecycle, SequenceTheorems, WellFoundedInduction, TLAPS

EventType == [user : Users, type : {"disabled", "reconcile"}, removed : BOOLEAN,
              version : Nat, delivered : BOOLEAN, claimed : BOOLEAN]
GrantType == [owner : Users, code : Codes, since : Nat]
Pcs == {"idle", "claim", "next", "status", "list", "delete", "roles", "groups"}
IssuerPcs == {"idle", "code", "user", "create", "owner", "revoke", "write"}

UserTypes ==
    /\ status \in [Users -> {"active", "disabled"}]
    /\ authToken \in [Users -> BOOLEAN]
    /\ session \in [Users -> Nat]
    /\ version \in [Users -> Nat]
    /\ events \in Seq(EventType)
    /\ \A u \in Users : session[u] <= Len(events) + 1

GrantTypes ==
    /\ grants \in Seq(GrantType)
    /\ stored \subseteq DOMAIN grants /\ handed \subseteq DOMAIN grants
    /\ code \in [Codes -> {"none", "stored", "gone"}]
    /\ faults \in 0 .. MaxFaults

LoopTypes ==
    /\ pc \in [Replicas -> Pcs]
    /\ batch \in [Replicas -> SUBSET Nat]
    /\ todo \in [Replicas -> SUBSET Nat]
    /\ cur \in [Replicas -> SUBSET Nat]
    /\ done \in [Replicas -> SUBSET Nat]
    /\ listed \in [Replicas -> {"no", "yes", "failed"}]
    /\ tokens \in [Replicas -> SUBSET Nat]
    /\ del \in [Replicas -> SUBSET Nat]
    /\ ok \in [Replicas -> BOOLEAN]

\* An exchange that has created its grant knows which it is.
IssuerTypes ==
    /\ ipc \in [Issuers -> IssuerPcs]
    /\ icode \in [Issuers -> SUBSET Codes]
    /\ igrant \in [Issuers -> Nat]
    /\ \A i \in Issuers :
          /\ ipc[i] = "idle" <=> icode[i] = {}
          /\ ipc[i] \in {"owner", "revoke", "write"} => igrant[i] \in DOMAIN grants

Types == UserTypes /\ GrantTypes /\ LoopTypes /\ IssuerTypes

\* e is the last event that disabled u.
IsLast(e, u) ==
    /\ e \in DOMAIN events /\ events[e].type = "disabled" /\ events[e].user = u
    /\ \A f \in DOMAIN events : events[f].type = "disabled" /\ events[f].user = u => f <= e

LastInv == \A u \in Users : status[u] = "disabled" => \E e \in DOMAIN events : IsLast(e, u)

\* The token of grant g is in a client's hands, or about to be written there.
Out(g) == g \in handed \/ \E i \in Issuers : ipc[i] = "write" /\ igrant[i] = g

\* Nothing of u's in storage but S is out.
CleanBut(u, S) == \A g \in stored \ S : grants[g].owner = u => ~ Out(g)

\* No session of u's is left that began before event e.
Ended(u, e) == session[u] = 0 \/ session[u] > e

\* What a replica's batch holds.
LocalInv(r) ==
    /\ batch[r] \subseteq DOMAIN events /\ todo[r] \subseteq DOMAIN events
    /\ done[r] \subseteq DOMAIN events
    /\ cur[r] \subseteq todo[r] /\ done[r] \cap todo[r] = {}
    /\ tokens[r] \subseteq DOMAIN grants /\ del[r] \subseteq tokens[r]
    /\ pc[r] \in {"idle", "claim"} => listed[r] = "no" /\ done[r] = {}

\* The events of one delivery are of one user and of one type.
CurInv(r) ==
    /\ pc[r] \in {"idle", "claim", "next"} => cur[r] = {}
    /\ pc[r] \in {"status", "list", "delete", "roles", "groups"} => cur[r] # {}
    /\ pc[r] \in {"status", "list", "delete"} =>
          \A e \in cur[r] : events[e].type = "disabled" /\ events[e].user = CurUser(r)
    /\ pc[r] \in {"roles", "groups"} => \A e \in cur[r] : events[e].type = "reconcile"

\* The listing of a batch misses no grant that is out of a user whose last
\* disabling is in the batch.
ListInv(r) ==
    \A e \in todo[r], u \in Users :
        listed[r] = "yes" /\ IsLast(e, u) /\ status[u] = "disabled" => CleanBut(u, tokens[r])

\* A delivery without a failure has deleted what it went over.
DelInv(r) ==
    pc[r] = "delete" /\ ok[r] =>
        /\ listed[r] = "yes"
        /\ \A g \in tokens[r] \ del[r] : grants[g].owner = CurUser(r) => g \notin stored

\* A delivery that worked left nothing.
DoneInv(r) ==
    \A e \in done[r], u \in Users :
        IsLast(e, u) /\ status[u] = "disabled" => CleanBut(u, {}) /\ Ended(u, e)

ReplicaInv(r) == LocalInv(r) /\ CurInv(r) /\ ListInv(r) /\ DelInv(r) /\ DoneInv(r)

DeliveredInv ==
    \A e \in DOMAIN events, u \in Users :
        events[e].delivered /\ IsLast(e, u) /\ status[u] = "disabled" =>
            CleanBut(u, {}) /\ Ended(u, e)

Inv == Types /\ LastInv /\ DeliveredInv /\ \A r \in Replicas : ReplicaInv(r)

-----------------------------------------------------------------------------
(* Facts about the operators and data the model is built from. *)

LEMMA MinIn ==
    ASSUME NEW T, T \subseteq Nat, T # {}
    PROVE  Min(T) \in T
<1> DEFINE R == OpToRel(<, Nat)
<1>1. PICK x \in T : \A y \in T : ~ (<<y, x>> \in R)
  BY NatLessThanWellFounded, WFMin
<1>2. ASSUME NEW y \in T, y < x
      PROVE  FALSE
  <2>1. R = {ss \in Nat \X Nat : ss[1] < ss[2]}
    BY Zenon DEF OpToRel
  <2>2. <<y, x>> \in {ss \in Nat \X Nat : ss[1] < ss[2]}
    BY <1>2
  <2>3. QED
    BY <1>1, <2>1, <2>2, Zenon
<1>3. \A y \in T : x <= y
  BY <1>2
<1>4. QED
  BY <1>3 DEF Min

\* A function on the indices of a sequence is a sequence as long.
LEMMA FunctionIsSeq ==
    ASSUME NEW S, NEW s \in Seq(S), NEW f \in [DOMAIN s -> S]
    PROVE  f \in Seq(S) /\ Len(f) = Len(s) /\ DOMAIN f = DOMAIN s
<1>1. DOMAIN s = 1 .. Len(s) /\ Len(s) \in Nat
  OBVIOUS
<1>2. f \in Seq(S)
  BY <1>1
<1>3. QED
  BY <1>1, <1>2

LEMMA AppendFacts ==
    ASSUME NEW S, NEW s \in Seq(S), NEW x \in S
    PROVE  /\ Append(s, x) \in Seq(S)
           /\ Len(s) \in Nat /\ Len(Append(s, x)) = Len(s) + 1
           /\ DOMAIN s = 1 .. Len(s) /\ DOMAIN Append(s, x) = 1 .. Len(s) + 1
           /\ \A i \in DOMAIN s : Append(s, x)[i] = s[i]
           /\ Append(s, x)[Len(s) + 1] = x
OBVIOUS

-----------------------------------------------------------------------------
(* What a step may do without disturbing what the replicas know. *)

\* Events are only added, and one that is now the last disabling of a
\* disabled user was so before; grants are only added, and a stored grant
\* whose owner is disabled does not get out; and a session that begins does
\* so after every event.
Benign ==
    /\ DOMAIN events \subseteq DOMAIN events'
    /\ \A e \in DOMAIN events : events'[e].user = events[e].user
                                /\ events'[e].type = events[e].type
    /\ \A u \in Users, e \in DOMAIN events :
          status'[u] = "disabled" /\ IsLast(e, u)' => status[u] = "disabled" /\ IsLast(e, u)
    /\ DOMAIN grants \subseteq DOMAIN grants'
    /\ \A g \in DOMAIN grants : grants'[g].owner = grants[g].owner
    /\ \A g \in stored' :
          \/ g \in stored /\ (Out(g)' => Out(g) \/ status'[grants[g].owner] = "active")
          \/ g \notin DOMAIN grants /\ ~ Out(g)'
    /\ \A u \in Users, e \in DOMAIN events : Ended(u, e) => Ended(u, e)'

SameLoop(s) ==
    UNCHANGED <<pc[s], batch[s], todo[s], cur[s], listed[s], tokens[s], del[s], ok[s], done[s]>>

LEMMA CleanKept ==
    ASSUME Types, Benign, NEW u \in Users, status'[u] = "disabled"
    PROVE  \A S : CleanBut(u, S) =>
               \A g \in stored' \ S : grants'[g].owner = u => ~ Out(g)'
<1>1. SUFFICES ASSUME NEW S, CleanBut(u, S), NEW g \in stored' \ S,
                      grants'[g].owner = u, Out(g)'
               PROVE  FALSE
  OBVIOUS
<1>2. g \in stored /\ (Out(g) \/ status'[grants[g].owner] = "active")
  BY <1>1 DEF Benign
<1>3. grants'[g].owner = grants[g].owner
  BY <1>2 DEF Benign, Types, GrantTypes
<1>4. ~ Out(g)
  BY <1>1, <1>2, <1>3 DEF CleanBut
<1>5. QED
  BY <1>1, <1>2, <1>3, <1>4

LEMMA CurUserKept ==
    ASSUME Types, Benign, NEW s \in Replicas, LocalInv(s), cur[s] # {}, UNCHANGED cur[s]
    PROVE  CurUser(s)' = CurUser(s)
<1>1. cur[s] \subseteq Nat /\ cur[s] \subseteq DOMAIN events
  BY DEF Types, LoopTypes, LocalInv
<1>2. Min(cur[s]) \in DOMAIN events
  BY <1>1, MinIn
<1>3. QED
  BY <1>2 DEF CurUser, Benign

LEMMA OtherReplica ==
    ASSUME Types, Benign, NEW s \in Replicas, ReplicaInv(s), SameLoop(s)
    PROVE  ReplicaInv(s)'
<1>0. LocalInv(s) /\ CurInv(s) /\ ListInv(s) /\ DelInv(s) /\ DoneInv(s)
  BY DEF ReplicaInv
<1>1. LocalInv(s)'
  BY <1>0 DEF LocalInv, SameLoop, Benign
<1>2. cur[s] # {} => CurUser(s)' = CurUser(s)
  BY <1>0, CurUserKept DEF SameLoop
<1>3. CurInv(s)'
  <2>1. \A e \in cur[s] : e \in DOMAIN events /\ events'[e].user = events[e].user
                          /\ events'[e].type = events[e].type
    BY <1>0 DEF LocalInv, Benign
  <2>2. QED
    BY <1>0, <1>2, <2>1 DEF CurInv, SameLoop
<1>4. ListInv(s)'
  <2>1. SUFFICES ASSUME NEW e \in todo'[s], NEW u \in Users,
                        listed'[s] = "yes", IsLast(e, u)', status'[u] = "disabled"
                 PROVE  CleanBut(u, tokens[s])'
    BY DEF ListInv
  <2>2. e \in todo[s] /\ e \in DOMAIN events /\ listed[s] = "yes"
    BY <1>0, <2>1 DEF LocalInv, SameLoop
  <2>3. status[u] = "disabled" /\ IsLast(e, u)
    BY <2>1, <2>2 DEF Benign
  <2>4. CleanBut(u, tokens[s])
    BY <1>0, <2>2, <2>3 DEF ListInv
  <2>5. \A g \in stored' \ tokens[s] : grants'[g].owner = u => ~ Out(g)'
    BY <2>1, <2>4, CleanKept
  <2>6. QED
    BY <2>5 DEF CleanBut, SameLoop
<1>5. DelInv(s)'
  <2>1. SUFFICES ASSUME pc'[s] = "delete", ok'[s]
                 PROVE  /\ listed'[s] = "yes"
                        /\ \A g \in tokens'[s] \ del'[s] :
                              grants'[g].owner = CurUser(s)' => g \notin stored'
    BY DEF DelInv
  <2>2. /\ listed[s] = "yes" /\ pc[s] = "delete"
        /\ \A g \in tokens[s] \ del[s] : grants[g].owner = CurUser(s) => g \notin stored
    BY <1>0, <2>1 DEF DelInv, SameLoop
  <2>3. CurUser(s)' = CurUser(s)
    BY <1>0, <1>2, <2>2 DEF CurInv
  <2>4. \A g \in tokens[s] : /\ grants'[g].owner = grants[g].owner
                             /\ g \notin stored => g \notin stored'
    BY <1>0 DEF LocalInv, Benign
  <2>5. QED
    BY <2>2, <2>3, <2>4 DEF SameLoop
<1>6. DoneInv(s)'
  <2>1. SUFFICES ASSUME NEW e \in done'[s], NEW u \in Users,
                        IsLast(e, u)', status'[u] = "disabled"
                 PROVE  CleanBut(u, {})' /\ Ended(u, e)'
    BY DEF DoneInv
  <2>2. e \in done[s] /\ e \in DOMAIN events
    BY <1>0, <2>1 DEF LocalInv, SameLoop
  <2>3. status[u] = "disabled" /\ IsLast(e, u)
    BY <2>1, <2>2 DEF Benign
  <2>4. CleanBut(u, {}) /\ Ended(u, e)
    BY <1>0, <2>2, <2>3 DEF DoneInv
  <2>5. Ended(u, e)'
    BY <2>2, <2>4 DEF Benign
  <2>6. QED
    BY <2>1, <2>4, <2>5, CleanKept DEF CleanBut
<1>7. QED
  BY <1>1, <1>3, <1>4, <1>5, <1>6 DEF ReplicaInv

\* An event was marked as delivered before, or by a replica that has done it.
LEMMA DeliveredKept ==
    ASSUME Inv, Benign,
           \A e \in DOMAIN events' : events'[e].delivered =>
              /\ e \in DOMAIN events
              /\ events[e].delivered \/ \E r \in Replicas : e \in done[r]
    PROVE  DeliveredInv'
<1>0. Types /\ DeliveredInv /\ \A r \in Replicas : DoneInv(r)
  BY DEF Inv, ReplicaInv
<1>1. SUFFICES ASSUME NEW e \in DOMAIN events', NEW u \in Users,
                      events'[e].delivered, IsLast(e, u)', status'[u] = "disabled"
               PROVE  CleanBut(u, {})' /\ Ended(u, e)'
  BY DEF DeliveredInv
<1>2. e \in DOMAIN events /\ (events[e].delivered \/ \E r \in Replicas : e \in done[r])
  BY <1>1
<1>3. status[u] = "disabled" /\ IsLast(e, u)
  BY <1>1, <1>2 DEF Benign
<1>4. CleanBut(u, {}) /\ Ended(u, e)
  BY <1>0, <1>2, <1>3 DEF DeliveredInv, DoneInv
<1>5. Ended(u, e)'
  BY <1>2, <1>4 DEF Benign
<1>6. QED
  BY <1>0, <1>1, <1>4, <1>5, CleanKept DEF CleanBut

\* The users' status and what the events say are as before.
Calm ==
    /\ UNCHANGED status /\ DOMAIN events' = DOMAIN events
    /\ \A e \in DOMAIN events : events'[e].user = events[e].user
                                /\ events'[e].type = events[e].type

LEMMA CalmLast ==
    ASSUME Calm
    PROVE  /\ \A e, u : IsLast(e, u)' <=> IsLast(e, u)
           /\ LastInv => LastInv'
<1>1. ASSUME NEW e, NEW u PROVE IsLast(e, u)' <=> IsLast(e, u)
  BY DEF Calm, IsLast
<1>2. QED
  BY <1>1 DEF Calm, LastInv

LEMMA CalmIsBenign ==
    ASSUME Types, Calm, DOMAIN grants \subseteq DOMAIN grants',
           \A g \in DOMAIN grants : grants'[g].owner = grants[g].owner,
           \A g \in stored' :
              \/ g \in stored /\ (Out(g)' => Out(g) \/ status'[grants[g].owner] = "active")
              \/ g \notin DOMAIN grants /\ ~ Out(g)',
           \A u \in Users, e \in DOMAIN events : Ended(u, e) => Ended(u, e)'
    PROVE  Benign
BY CalmLast DEF Benign, Calm

\* What a step has to show.
LEMMA StepInv ==
    ASSUME Inv, Types', LastInv', Benign,
           \A e \in DOMAIN events' : events'[e].delivered =>
              /\ e \in DOMAIN events
              /\ events[e].delivered \/ \E r \in Replicas : e \in done[r],
           \A s \in Replicas : SameLoop(s) \/ ReplicaInv(s)'
    PROVE  Inv'
<1>1. Types /\ \A s \in Replicas : ReplicaInv(s)
  BY DEF Inv
<1>2. DeliveredInv'
  BY DeliveredKept
<1>3. \A s \in Replicas : ReplicaInv(s)'
  BY <1>1, OtherReplica
<1>4. QED
  BY <1>2, <1>3 DEF Inv

LEMMA InitInv == Init => Inv
<1> SUFFICES ASSUME Init PROVE Inv
  OBVIOUS
<1>1. UserTypes
  BY DEF Init, UserTypes
<1>2. GrantTypes
  BY BoundsAssumption DEF Init, GrantTypes
<1>3. LoopTypes
  BY DEF Init, LoopTypes, Pcs
<1>4. IssuerTypes
  BY DEF Init, IssuerTypes, IssuerPcs
<1>5. LastInv /\ DeliveredInv
  BY DEF Init, LastInv, DeliveredInv
<1>6. ASSUME NEW r \in Replicas
      PROVE  ReplicaInv(r)
  BY DEF Init, ReplicaInv, LocalInv, CurInv, ListInv, DelInv, DoneInv
<1>7. QED
  BY <1>1, <1>2, <1>3, <1>4, <1>5, <1>6 DEF Inv, Types

-----------------------------------------------------------------------------
(* The users. *)

LEMMA EventIsTyped ==
    ASSUME Types, NEW u \in Users, NEW type \in {"disabled", "reconcile"},
           NEW removed \in BOOLEAN
    PROVE  /\ Event(u, type, removed) \in EventType
           /\ Event(u, type, removed).user = u /\ Event(u, type, removed).type = type
           /\ Event(u, type, removed).delivered = FALSE
<1>1. version[u] \in Nat
  BY DEF Types, UserTypes
<1>2. QED
  BY <1>1 DEF Event, EventType

\* An event is appended; if it disables a user, that user is disabled now.
LEMMA AppendInv ==
    ASSUME Inv, NEW u \in Users, NEW x \in EventType, events' = Append(events, x),
           x.user = u, x.delivered = FALSE, UserTypes',
           \/ x.type = "disabled" /\ status' = [status EXCEPT ![u] = "disabled"]
           \/ x.type = "reconcile" /\ UNCHANGED status,
           UNCHANGED <<session, grantVars, faults, loop, issuing>>
    PROVE  Inv'
<1>0. Types /\ LastInv
  BY DEF Inv
<1>1. /\ events \in Seq(EventType) /\ Len(events) \in Nat
      /\ DOMAIN events = 1 .. Len(events) /\ DOMAIN events' = 1 .. Len(events) + 1
      /\ \A e \in DOMAIN events : events'[e] = events[e]
      /\ events'[Len(events) + 1] = x
  <2>1. events \in Seq(EventType)
    BY <1>0 DEF Types, UserTypes
  <2>2. QED
    BY <2>1, AppendFacts
<1>2. Types'
  <2>1. GrantTypes'
    BY <1>0 DEF Types, GrantTypes, grantVars
  <2>2. LoopTypes'
    BY <1>0 DEF Types, LoopTypes, loop
  <2>3. IssuerTypes'
    BY <1>0 DEF Types, IssuerTypes, issuing, grantVars
  <2>4. QED
    BY <2>1, <2>2, <2>3 DEF Types
<1>3. ASSUME NEW v \in Users, NEW e \in DOMAIN events, status'[v] = "disabled", IsLast(e, v)'
      PROVE  status[v] = "disabled" /\ IsLast(e, v)
  <2>1. Len(events) + 1 \in DOMAIN events' /\ ~ (Len(events) + 1 <= e)
    BY <1>1
  <2>2. ~ (x.type = "disabled" /\ v = u)
    BY <1>1, <1>3, <2>1 DEF IsLast
  <2>3. status[v] = "disabled"
    BY <1>0, <1>3, <2>2 DEF Types, UserTypes
  <2>4. IsLast(e, v)
    BY <1>1, <1>3 DEF IsLast
  <2>5. QED
    BY <2>3, <2>4
<1>4. Benign
  <2>1. \A g \in stored' : g \in stored /\ (Out(g)' => Out(g))
    BY DEF Out, grantVars, issuing
  <2>2. QED
    BY <1>1, <1>3, <2>1 DEF Benign, Ended, grantVars
<1>5. LastInv'
  <2>1. SUFFICES ASSUME NEW v \in Users, status'[v] = "disabled"
                 PROVE  \E e \in DOMAIN events' : IsLast(e, v)'
    BY DEF LastInv
  <2>2. CASE x.type = "disabled" /\ v = u
    <3>1. PICK n : n = Len(events) + 1
      OBVIOUS
    <3>2. \A f \in DOMAIN events' : f <= n
      BY <1>1, <3>1
    <3>3. n \in DOMAIN events' /\ events'[n] = x
      BY <1>1, <3>1
    <3>4. IsLast(n, v)'
      BY <2>2, <3>2, <3>3 DEF IsLast
    <3>5. QED
      BY <3>3, <3>4
  <2>3. CASE ~ (x.type = "disabled" /\ v = u)
    <3>1. status[v] = "disabled"
      BY <1>0, <2>1, <2>3 DEF Types, UserTypes
    <3>2. PICK e \in DOMAIN events : IsLast(e, v)
      BY <1>0, <3>1 DEF LastInv
    <3>3. IsLast(e, v)'
      BY <1>1, <2>3, <3>2 DEF IsLast
    <3>4. QED
      BY <1>1, <3>3
  <2>4. QED
    BY <2>2, <2>3
<1>6. \A e \in DOMAIN events' : events'[e].delivered => e \in DOMAIN events /\ events[e].delivered
  BY <1>1
<1>7. \A s \in Replicas : SameLoop(s)
  BY DEF SameLoop, loop
<1>8. QED
  BY <1>2, <1>4, <1>5, <1>6, <1>7, StepInv

LEMMA DisableInv ==
    ASSUME Inv, NEW u \in Users, DisableUser(u)
    PROVE  Inv'
<1> DEFINE x == Event(u, "disabled", FALSE)
<1>0. Types
  BY DEF Inv
<1>1. x \in EventType /\ x.user = u /\ x.type = "disabled" /\ x.delivered = FALSE
  BY <1>0, EventIsTyped
<1>2. events' = Append(events, x) /\ status' = [status EXCEPT ![u] = "disabled"]
  BY DEF DisableUser
<1> HIDE DEF x
<1>3. events' \in Seq(EventType) /\ Len(events) \in Nat /\ Len(events') = Len(events) + 1
  BY <1>0, <1>1, <1>2, AppendFacts DEF Types, UserTypes
<1>4. UserTypes'
  <2>1. \A v \in Users : session'[v] <= Len(events') + 1
    BY <1>0, <1>3 DEF Types, UserTypes, DisableUser
  <2>2. /\ status' \in [Users -> {"active", "disabled"}]
        /\ authToken' \in [Users -> BOOLEAN]
        /\ session' \in [Users -> Nat] /\ version' \in [Users -> Nat]
    BY <1>0, <1>2 DEF Types, UserTypes, DisableUser
  <2>3. QED
    BY <1>3, <2>1, <2>2 DEF UserTypes
<1>5. UNCHANGED <<session, grantVars, faults, loop, issuing>>
  BY DEF DisableUser
<1>6. QED
  BY <1>1, <1>2, <1>4, <1>5, AppendInv

LEMMA RecordInv ==
    ASSUME Inv, NEW u \in Users, NEW b \in BOOLEAN, recordUserReconcileEvent(u, b)
    PROVE  Inv'
<1> DEFINE x == Event(u, "reconcile", b)
<1>0. Types
  BY DEF Inv
<1>1. x \in EventType /\ x.user = u /\ x.type = "reconcile" /\ x.delivered = FALSE
  BY <1>0, EventIsTyped
<1>2. events' = Append(events, x) /\ UNCHANGED status
  BY DEF recordUserReconcileEvent
<1> HIDE DEF x
<1>3. events' \in Seq(EventType) /\ Len(events) \in Nat /\ Len(events') = Len(events) + 1
  BY <1>0, <1>1, <1>2, AppendFacts DEF Types, UserTypes
<1>4. UserTypes'
  BY <1>0, <1>2, <1>3 DEF Types, UserTypes, recordUserReconcileEvent
<1>5. UNCHANGED <<session, grantVars, faults, loop, issuing>>
  BY DEF recordUserReconcileEvent
<1>6. QED
  BY <1>1, <1>2, <1>4, <1>5, AppendInv

\* Reactivation only removes an obligation.
LEMMA EnableInv ==
    ASSUME Inv, NEW u \in Users, EnableUser(u)
    PROVE  Inv'
<1>0. Types /\ LastInv
  BY DEF Inv
<1>1. /\ status' = [status EXCEPT ![u] = "active"]
      /\ UNCHANGED <<authToken, session, version, events, grantVars, faults, loop, issuing>>
  BY DEF EnableUser
<1>2. Types'
  BY <1>0, <1>1 DEF Types, UserTypes, GrantTypes, LoopTypes, IssuerTypes, grantVars, loop, issuing
<1>3. /\ \A v \in Users : status'[v] = "disabled" => status[v] = "disabled"
      /\ \A v \in Users, e \in DOMAIN events : IsLast(e, v)' <=> IsLast(e, v)
  <2>1. \A v \in Users : status'[v] = "disabled" => status[v] = "disabled"
    BY <1>0, <1>1 DEF Types, UserTypes
  <2>2. QED
    BY <1>1, <2>1 DEF IsLast
<1>4. Benign
  <2>1. \A g \in stored' : g \in stored /\ (Out(g)' => Out(g))
    BY <1>1 DEF Out, grantVars, issuing
  <2>2. QED
    BY <1>1, <1>3, <2>1 DEF Benign, Ended, grantVars
<1>5. LastInv'
  BY <1>0, <1>1, <1>3 DEF LastInv
<1>6. \A s \in Replicas : SameLoop(s)
  BY <1>1 DEF SameLoop, loop
<1>7. QED
  BY <1>1, <1>2, <1>4, <1>5, <1>6, StepInv

\* A step that touches neither the outbox, nor the grants, nor a batch, nor
\* the user's status: a session, an approval, a controller's handler.
Aside == UNCHANGED <<status, events, grants, stored, handed, loop, ipc, igrant>>

LEMMA AsideInv ==
    ASSUME Inv, Types', Aside,
           \A u \in Users, e \in DOMAIN events : Ended(u, e) => Ended(u, e)'
    PROVE  Inv'
<1>0. Types /\ LastInv
  BY DEF Inv
<1>1. Calm
  BY DEF Calm, Aside
<1>2. Benign
  <2>1. \A g \in stored' : g \in stored /\ (Out(g)' => Out(g))
    BY DEF Out, Aside
  <2>2. QED
    BY <1>0, <1>1, <2>1, CalmIsBenign DEF Aside
<1>3. \A s \in Replicas : SameLoop(s)
  BY DEF SameLoop, loop, Aside
<1>4. QED
  BY <1>0, <1>1, <1>2, <1>3, CalmLast, StepInv DEF Aside

LEMMA AsideStep ==
    ASSUME Inv,
           \/ \E u \in Users : SignIn(u) \/ SignOut(u)
           \/ \E c \in Codes : Approve(c)
           \/ \E o \in objs : HandleChange(o) \/ FinishChange(o) \/ RetryChange(o)
    PROVE  Inv'
<1>0. Types
  BY DEF Inv
<1>1. ASSUME NEW u \in Users, SignIn(u) \/ SignOut(u)
      PROVE  Inv'
  <2>1. Len(events) \in Nat
    BY <1>0 DEF Types, UserTypes
  <2>2. UserTypes'
    <3>1. session' \in [Users -> Nat] /\ \A v \in Users : session'[v] <= Len(events) + 1
      <4>1. session \in [Users -> Nat] /\ \A v \in Users : session[v] <= Len(events) + 1
        BY <1>0 DEF Types, UserTypes
      <4>2. PICK n \in {0, Len(events) + 1} : session' = [session EXCEPT ![u] = n]
        BY <1>1 DEF SignIn, SignOut
      <4>3. n \in Nat /\ n <= Len(events) + 1
        BY <2>1, <4>2
      <4>4. \A v \in Users : session'[v] = n \/ session'[v] = session[v]
        BY <4>1, <4>2
      <4>5. QED
        BY <4>1, <4>2, <4>3, <4>4
    <3>2. UNCHANGED <<status, authToken, version, events>>
      BY <1>1 DEF SignIn, SignOut
    <3>3. QED
      BY <1>0, <3>1, <3>2 DEF Types, UserTypes
  <2>3. GrantTypes' /\ LoopTypes' /\ IssuerTypes' /\ Aside
    BY <1>0, <1>1 DEF Types, GrantTypes, LoopTypes, IssuerTypes, Aside, SignIn, SignOut,
       grantVars, loop, issuing
  <2>4. \A v \in Users, e \in DOMAIN events : Ended(v, e) => Ended(v, e)'
    <3>1. session \in [Users -> Nat] /\ DOMAIN events = 1 .. Len(events)
      BY <1>0 DEF Types, UserTypes
    <3>2. \A v \in Users :
            session'[v] = session[v] \/ session'[v] = 0 \/ session'[v] = Len(events) + 1
      BY <1>1, <3>1 DEF SignIn, SignOut
    <3>3. QED
      BY <2>1, <3>1, <3>2 DEF Ended
  <2>5. QED
    BY <2>2, <2>3, <2>4, AsideInv DEF Types
<1>2. ASSUME NEW c \in Codes, Approve(c)
      PROVE  Inv'
  <2>1. GrantTypes'
    BY <1>0, <1>2 DEF Types, GrantTypes, Approve
  <2>2. UserTypes' /\ LoopTypes' /\ IssuerTypes' /\ Aside
    BY <1>0, <1>2 DEF Types, UserTypes, LoopTypes, IssuerTypes, Aside, Approve, users, loop, issuing
  <2>3. QED
    BY <1>2, <2>1, <2>2, AsideInv DEF Types, Ended, Approve, users
<1>3. ASSUME NEW o \in objs, HandleChange(o) \/ FinishChange(o) \/ RetryChange(o)
      PROVE  Inv'
  <2>1. faults' \in 0 .. MaxFaults
    BY <1>0, <1>3, BoundsAssumption
       DEF Types, GrantTypes, HandleChange, FinishChange, RetryChange, Fault
  <2>2. UNCHANGED <<users, events, grantVars, loop, issuing>>
    BY <1>3 DEF HandleChange, FinishChange, RetryChange
  <2>3. GrantTypes'
    BY <1>0, <2>1, <2>2 DEF Types, GrantTypes, grantVars
  <2>4. UserTypes' /\ LoopTypes' /\ IssuerTypes' /\ Aside
    BY <1>0, <2>2 DEF Types, UserTypes, LoopTypes, IssuerTypes, Aside, users, grantVars, loop,
       issuing
  <2>5. QED
    BY <2>2, <2>3, <2>4, AsideInv DEF Types, Ended, users
<1>4. QED
  BY <1>1, <1>2, <1>3

-----------------------------------------------------------------------------
(* The exchange. *)

LEMMA ExchangeInv ==
    ASSUME Inv, UNCHANGED <<users, events, faults, loop>>, GrantTypes', IssuerTypes',
           DOMAIN grants \subseteq DOMAIN grants',
           \A g \in DOMAIN grants : grants'[g].owner = grants[g].owner,
           \A g \in stored' :
              \/ g \in stored /\ (Out(g)' => Out(g) \/ status'[grants[g].owner] = "active")
              \/ g \notin DOMAIN grants /\ ~ Out(g)'
    PROVE  Inv'
<1>0. Types /\ LastInv
  BY DEF Inv
<1>1. Calm
  BY DEF Calm, users
<1>2. Benign
  BY <1>0, <1>1, CalmIsBenign DEF Ended, users
<1>3. Types'
  <2>1. UserTypes'
    BY <1>0 DEF Types, UserTypes, users
  <2>2. LoopTypes'
    BY <1>0 DEF Types, LoopTypes, loop
  <2>3. QED
    BY <2>1, <2>2 DEF Types
<1>4. \A s \in Replicas : SameLoop(s)
  BY DEF SameLoop, loop
<1>5. QED
  BY <1>0, <1>1, <1>2, <1>3, <1>4, CalmLast, StepInv

\* Before the grant exists, and when the owner is read again.
LEMMA ExchangeMoves ==
    ASSUME Inv, NEW i \in Issuers,
           \/ \E c \in Codes : ListCode(i, c)
           \/ DeleteCode(i) \/ CheckUser(i) \/ revokeIfUserDenied(i)
    PROVE  Inv'
<1>0. Types
  BY DEF Inv
<1>1. /\ UNCHANGED <<users, events, faults, loop, grants, stored, handed, igrant>>
      /\ \A j \in Issuers : j # i => ipc'[j] = ipc[j]
      /\ ipc'[i] = "write" => ipc[i] = "owner" /\ status[grants[igrant[i]].owner] = "active"
  <2>1. ipc \in [Issuers -> IssuerPcs]
    BY <1>0 DEF Types, IssuerTypes
  <2>2. QED
    BY <2>1 DEF ListCode, DeleteCode, CheckUser, revokeIfUserDenied, grantVars
<1>2. GrantTypes'
  <2>1. code' \in [Codes -> {"none", "stored", "gone"}]
    BY <1>0 DEF Types, GrantTypes, ListCode, DeleteCode, CheckUser, revokeIfUserDenied, grantVars
  <2>2. QED
    BY <1>0, <1>1, <2>1 DEF Types, GrantTypes
<1>3. IssuerTypes'
  BY <1>0, <1>1 DEF Types, IssuerTypes, IssuerPcs, ListCode, DeleteCode, CheckUser,
     revokeIfUserDenied
<1>4. ASSUME NEW g \in stored', Out(g)'
      PROVE  Out(g) \/ status'[grants[g].owner] = "active"
  BY <1>1, <1>4 DEF Out, users
<1>5. QED
  BY <1>1, <1>2, <1>3, <1>4, ExchangeInv

LEMMA CreateGrantInv ==
    ASSUME Inv, NEW i \in Issuers, CreateGrant(i)
    PROVE  Inv'
<1>0. Types
  BY DEF Inv
<1>1. PICK c \in icode[i] :
          grants' = Append(grants, [owner |-> CodeOwner[c], code |-> c, since |-> Len(events)])
  BY DEF CreateGrant
<1>2. [owner |-> CodeOwner[c], code |-> c, since |-> Len(events)] \in GrantType
  <2>1. c \in Codes /\ CodeOwner[c] \in Users
    BY <1>0, <1>1, UsersAssumption DEF Types, IssuerTypes
  <2>2. Len(events) \in Nat
    BY <1>0 DEF Types, UserTypes
  <2>3. QED
    BY <2>1, <2>2 DEF GrantType
<1>3. /\ grants' \in Seq(GrantType) /\ Len(grants) \in Nat
      /\ DOMAIN grants = 1 .. Len(grants) /\ DOMAIN grants' = 1 .. Len(grants) + 1
      /\ \A g \in DOMAIN grants : grants'[g] = grants[g]
  BY <1>0, <1>1, <1>2, AppendFacts DEF Types, GrantTypes
<1>4. GrantTypes'
  BY <1>0, <1>3 DEF Types, GrantTypes, CreateGrant
<1>5. IssuerTypes'
  BY <1>0, <1>3 DEF Types, IssuerTypes, IssuerPcs, CreateGrant
<1>6. ASSUME NEW g \in stored'
      PROVE  \/ g \in stored /\ (Out(g)' => Out(g))
             \/ g \notin DOMAIN grants /\ ~ Out(g)'
  <2>1. ASSUME NEW j \in Issuers, ipc'[j] = "write"
        PROVE  ipc[j] = "write" /\ igrant'[j] = igrant[j] /\ igrant[j] \in DOMAIN grants
    <3>1. j # i
      BY <1>0, <2>1 DEF Types, IssuerTypes, CreateGrant
    <3>2. QED
      BY <1>0, <2>1, <3>1 DEF Types, IssuerTypes, CreateGrant
  <2>2. Out(g)' => Out(g) /\ g \in DOMAIN grants
    BY <1>0, <2>1 DEF Out, CreateGrant, Types, GrantTypes
  <2>3. g \in stored \/ g = Len(grants) + 1
    BY DEF CreateGrant
  <2>4. QED
    BY <1>3, <2>2, <2>3
<1>7. UNCHANGED <<users, events, faults, loop>>
  BY DEF CreateGrant
<1>8. QED
  BY <1>3, <1>4, <1>5, <1>6, <1>7, ExchangeInv

LEMMA ExchangeEnds ==
    ASSUME Inv, NEW i \in Issuers, RevokeGrant(i) \/ WriteAnswer(i) \/ AbortExchange(i)
    PROVE  Inv'
<1>0. Types
  BY DEF Inv
<1>1. UNCHANGED <<users, events, faults, loop, grants, code>> /\ stored' \subseteq stored
  BY DEF RevokeGrant, WriteAnswer, AbortExchange, grantVars
<1>2. EndExchange(i)
  BY DEF RevokeGrant, WriteAnswer, AbortExchange
<1>3. handed' = handed \/ (ipc[i] = "write" /\ handed' = handed \cup {igrant[i]})
  BY DEF RevokeGrant, WriteAnswer, AbortExchange, grantVars
<1>4. GrantTypes'
  <2>1. handed' \subseteq DOMAIN grants
    BY <1>0, <1>3 DEF Types, GrantTypes, IssuerTypes
  <2>2. QED
    BY <1>0, <1>1, <2>1 DEF Types, GrantTypes
<1>5. IssuerTypes'
  BY <1>0, <1>1, <1>2 DEF Types, IssuerTypes, IssuerPcs, EndExchange
<1>6. ASSUME NEW g \in stored', Out(g)'
      PROVE  Out(g)
  <2>1. \A j \in Issuers : ipc'[j] = "write" => ipc[j] = "write" /\ igrant'[j] = igrant[j]
    BY <1>0, <1>2 DEF Types, IssuerTypes, EndExchange
  <2>2. QED
    BY <1>3, <1>6, <2>1 DEF Out
<1>7. QED
  BY <1>1, <1>4, <1>5, <1>6, ExchangeInv

-----------------------------------------------------------------------------
(* The delivery loop. *)

\* Every step of a delivery but the claim and the marking leaves the outbox,
\* the users' status and the exchanges alone, and stores no grant.
Delivering(r) ==
    /\ UNCHANGED <<status, events, grants, handed, ipc, igrant>>
    /\ stored' \subseteq stored
    /\ \A u \in Users : session'[u] \in {0, session[u]}
    /\ \A s \in Replicas : s # r => SameLoop(s)

LEMMA DeliveringIsBenign ==
    ASSUME Types, NEW r \in Replicas, Delivering(r)
    PROVE  Calm /\ Benign
<1>1. Calm
  BY DEF Calm, Delivering
<1>2. \A g \in stored' : g \in stored /\ (Out(g)' => Out(g))
  BY DEF Out, Delivering
<1>3. QED
  BY <1>1, <1>2, CalmIsBenign DEF Delivering, Ended

LEMMA DeliveringInv ==
    ASSUME Inv, NEW r \in Replicas, Delivering(r), Types', ReplicaInv(r)'
    PROVE  Inv'
<1>0. Types /\ LastInv
  BY DEF Inv
<1>1. Calm /\ Benign
  BY <1>0, DeliveringIsBenign
<1>2. LastInv'
  BY <1>0, <1>1, CalmLast
<1>3. \A s \in Replicas : SameLoop(s) \/ ReplicaInv(s)'
  BY DEF Delivering
<1>4. \A e \in DOMAIN events' : events'[e].delivered => e \in DOMAIN events /\ events[e].delivered
  BY DEF Delivering
<1>5. QED
  BY <1>1, <1>2, <1>3, <1>4, StepInv

\* What the batch knows of the grants stays true.
LEMMA KnowledgeKept ==
    ASSUME Types, NEW r \in Replicas, Delivering(r)
    PROVE  /\ \A e, u : IsLast(e, u)' <=> IsLast(e, u)
           /\ \A u \in Users : \A S : CleanBut(u, S) =>
                 \A g \in stored' \ S : grants'[g].owner = u => ~ Out(g)'
           /\ \A u \in Users : \A e : Ended(u, e) => Ended(u, e)'
<1>1. Calm
  BY DeliveringIsBenign
<1>2. \A g : Out(g)' <=> Out(g)
  BY DEF Out, Delivering
<1>3. QED
  BY <1>1, <1>2, CalmLast DEF CleanBut, Ended, Delivering

LEMMA FaultTyped ==
    ASSUME GrantTypes, UNCHANGED faults \/ Fault
    PROVE  faults' \in 0 .. MaxFaults
<1>1. faults \in 0 .. MaxFaults
  BY DEF GrantTypes
<1>2. QED
  BY <1>1, BoundsAssumption DEF Fault

\* The rest of the state in the steps that only a batch takes.
LEMMA OthersTyped ==
    ASSUME Types, UNCHANGED <<authToken, version, issuing>>,
           UNCHANGED <<status, events, grants, handed, code>>, stored' \subseteq stored,
           session' \in [Users -> Nat], \A u \in Users : session'[u] <= Len(events) + 1,
           faults' \in 0 .. MaxFaults
    PROVE  UserTypes' /\ GrantTypes' /\ IssuerTypes'
<1>1. UserTypes'
  BY DEF Types, UserTypes
<1>2. GrantTypes'
  BY DEF Types, GrantTypes
<1>3. IssuerTypes'
  BY DEF Types, IssuerTypes, issuing
<1>4. QED
  BY <1>1, <1>2, <1>3

\* A delivery that says it worked has left nothing of its user's out.
LEMMA EndDeliveryInv ==
    ASSUME Inv, NEW r \in Replicas, NEW w \in BOOLEAN, EndDelivery(r, w),
           UNCHANGED <<batch, listed, tokens, del, ok, status, events, grants, stored,
                       handed, ipc, igrant>>,
           UserTypes', GrantTypes', IssuerTypes', pc[r] \notin {"idle", "claim"},
           w => \A e \in cur[r], u \in Users :
                   IsLast(e, u) /\ status[u] = "disabled" => CleanBut(u, {}) /\ Ended(u, e)',
           \A u \in Users : session'[u] \in {0, session[u]}
    PROVE  Inv'
<1>0. Types /\ LocalInv(r) /\ CurInv(r) /\ ListInv(r) /\ DelInv(r) /\ DoneInv(r)
  BY DEF Inv, ReplicaInv
<1>1. LoopTypes'
  BY <1>0 DEF Types, LoopTypes, Pcs, EndDelivery
<1>2. Delivering(r)
  BY <1>0 DEF Types, LoopTypes, EndDelivery, Delivering, SameLoop
<1>3. /\ done'[r] = (IF w THEN done[r] \cup cur[r] ELSE done[r])
      /\ todo'[r] = todo[r] \ cur[r] /\ cur'[r] = {} /\ pc'[r] = "next"
  BY <1>0 DEF Types, LoopTypes, EndDelivery
<1>4. LocalInv(r)' /\ CurInv(r)' /\ DelInv(r)'
  BY <1>0, <1>3 DEF LocalInv, CurInv, DelInv
<1>5. ListInv(r)'
  BY <1>0, <1>2, <1>3, KnowledgeKept DEF ListInv, CleanBut
<1>6. DoneInv(r)'
  <2>1. SUFFICES ASSUME NEW e \in done'[r], NEW u \in Users, IsLast(e, u)', status'[u] = "disabled"
                 PROVE  CleanBut(u, {})' /\ Ended(u, e)'
    BY DEF DoneInv
  <2>2. IsLast(e, u) /\ status[u] = "disabled" /\ (e \in done[r] \/ (w /\ e \in cur[r]))
    BY <1>0, <1>2, <1>3, <2>1, KnowledgeKept
  <2>3. CleanBut(u, {}) /\ (Ended(u, e) \/ Ended(u, e)')
    BY <1>0, <2>2 DEF DoneInv
  <2>4. QED
    BY <1>0, <1>2, <2>3, KnowledgeKept DEF CleanBut
<1>7. QED
  BY <1>1, <1>2, <1>4, <1>5, <1>6, DeliveringInv DEF Types, ReplicaInv

LEMMA ListEventsInv ==
    ASSUME Inv, NEW r \in Replicas, ListEvents(r)
    PROVE  Inv'
<1>0. Types /\ LocalInv(r) /\ CurInv(r) /\ ListInv(r) /\ DelInv(r) /\ DoneInv(r)
  BY DEF Inv, ReplicaInv
<1>1. PICK B : B \subseteq DOMAIN events /\ batch' = [batch EXCEPT ![r] = B]
  BY DEF ListEvents
<1>2. /\ pc[r] = "idle" /\ pc' = [pc EXCEPT ![r] = "claim"]
      /\ UNCHANGED <<users, events, grantVars, faults, todo, cur, listed, tokens, del, ok, done,
                     issuing>>
  BY DEF ListEvents
<1>3. DOMAIN events \subseteq Nat
  BY <1>0 DEF Types, UserTypes
<1>4. LoopTypes'
  BY <1>0, <1>1, <1>2, <1>3 DEF Types, LoopTypes, Pcs
<1>5. UserTypes' /\ GrantTypes' /\ IssuerTypes'
  BY <1>0, <1>2, OthersTyped DEF users, grantVars, issuing, Types, UserTypes, GrantTypes
<1>6. Delivering(r)
  BY <1>0, <1>1, <1>2 DEF Types, LoopTypes, Delivering, SameLoop, users, grantVars, issuing
<1>7. batch'[r] = B /\ pc'[r] = "claim"
  BY <1>0, <1>1, <1>2 DEF Types, LoopTypes
<1>8. LocalInv(r)' /\ CurInv(r)' /\ DelInv(r)'
  BY <1>0, <1>1, <1>2, <1>7 DEF LocalInv, CurInv, DelInv, grantVars
<1>9. ListInv(r)' /\ DoneInv(r)'
  BY <1>0, <1>2 DEF LocalInv, ListInv, DoneInv
<1>10. QED
  BY <1>4, <1>5, <1>6, <1>8, <1>9, DeliveringInv DEF Types, ReplicaInv

LEMMA CoalesceInv ==
    ASSUME Inv, NEW r \in Replicas, coalesceUserLifecycleEvents(r)
    PROVE  Inv'
<1>0. Types /\ LocalInv(r) /\ CurInv(r) /\ ListInv(r) /\ DelInv(r) /\ DoneInv(r)
  BY DEF Inv, ReplicaInv
<1> DEFINE first == Min(todo[r])
           C == {e \in todo[r] : SameDelivery(e, first)}
<1>1. todo[r] \subseteq Nat /\ todo[r] # {} /\ todo[r] \subseteq DOMAIN events
  BY <1>0 DEF Types, LoopTypes, LocalInv, coalesceUserLifecycleEvents
<1>2. first \in todo[r] /\ first \in C
  BY <1>1, MinIn DEF SameDelivery
<1>3. /\ pc[r] = "next" /\ ok' = [ok EXCEPT ![r] = TRUE] /\ cur' = [cur EXCEPT ![r] = C]
      /\ pc' = [pc EXCEPT ![r] = IF events[first].type = "disabled" THEN "status" ELSE "roles"]
      /\ UNCHANGED <<users, events, grantVars, faults, batch, todo, listed, tokens, del, done,
                     issuing>>
  BY DEF coalesceUserLifecycleEvents
<1>4. /\ C \subseteq todo[r]
      /\ \A e \in C : events[e].user = events[first].user /\ events[e].type = events[first].type
  BY DEF SameDelivery
<1>5. events[first].type \in {"disabled", "reconcile"}
  <2>1. events \in Seq(EventType) /\ first \in DOMAIN events
    BY <1>0, <1>1, <1>2 DEF Types, UserTypes
  <2> HIDE DEF first
  <2>2. events[first] \in EventType
    BY <2>1
  <2>3. QED
    BY <2>2 DEF EventType
<1> HIDE DEF C, first
<1>6. LoopTypes'
  BY <1>0, <1>1, <1>3, <1>4 DEF Types, LoopTypes, Pcs
<1>7. UserTypes' /\ GrantTypes' /\ IssuerTypes'
  BY <1>0, <1>3, OthersTyped DEF users, grantVars, issuing, Types, UserTypes, GrantTypes
<1>8. Delivering(r)
  BY <1>0, <1>3 DEF Types, LoopTypes, Delivering, SameLoop, users, grantVars, issuing
<1>9. /\ cur'[r] = C /\ pc'[r] \in {"status", "roles"}
      /\ pc'[r] = "status" <=> events[first].type = "disabled"
  BY <1>0, <1>3 DEF Types, LoopTypes
<1>10. CurUser(r)' = events[first].user
  <2>1. Min(C) \in C
    BY <1>1, <1>2, <1>4, MinIn
  <2>2. QED
    BY <1>3, <1>4, <1>9, <2>1 DEF CurUser
<1>11. CurInv(r)'
  <2>1. \A e \in cur'[r] : events'[e].user = CurUser(r)' /\ events'[e].type = events[first].type
    BY <1>3, <1>4, <1>9, <1>10
  <2>2. cur'[r] # {}
    BY <1>2, <1>9
  <2>3. QED
    BY <1>5, <1>9, <2>1, <2>2 DEF CurInv
<1>12. LocalInv(r)' /\ DelInv(r)'
  BY <1>0, <1>3, <1>4, <1>9 DEF LocalInv, DelInv, grantVars
<1>13. ListInv(r)'
  BY <1>0, <1>3, <1>8, KnowledgeKept DEF ListInv, CleanBut, users
<1>14. DoneInv(r)'
  BY <1>0, <1>3, <1>8, KnowledgeKept DEF DoneInv, CleanBut, users
<1>15. QED
  BY <1>6, <1>7, <1>8, <1>11, <1>12, <1>13, <1>14, DeliveringInv DEF Types, ReplicaInv

LEMMA SeeDisabledInv ==
    ASSUME Inv, NEW r \in Replicas, SeeDisabled(r)
    PROVE  Inv'
<1>0. Types /\ LocalInv(r) /\ CurInv(r) /\ ListInv(r) /\ DelInv(r) /\ DoneInv(r)
  BY DEF Inv, ReplicaInv
<1>1. /\ pc[r] = "status" /\ pc' = [pc EXCEPT ![r] = "list"]
      /\ UNCHANGED <<users, events, grantVars, faults, batch, todo, cur, listed, tokens, del, ok,
                     done, issuing>>
  BY DEF SeeDisabled
<1>2. LoopTypes' /\ pc'[r] = "list"
  BY <1>0, <1>1 DEF Types, LoopTypes, Pcs
<1>3. UserTypes' /\ GrantTypes' /\ IssuerTypes'
  BY <1>0, <1>1, OthersTyped DEF users, grantVars, issuing, Types, UserTypes, GrantTypes
<1>4. Delivering(r)
  BY <1>0, <1>1 DEF Types, LoopTypes, Delivering, SameLoop, users, grantVars, issuing
<1>5. CurUser(r)' = CurUser(r)
  BY <1>1 DEF CurUser
<1>6. LocalInv(r)' /\ CurInv(r)' /\ DelInv(r)'
  BY <1>0, <1>1, <1>2, <1>5 DEF LocalInv, CurInv, DelInv, grantVars
<1>7. ListInv(r)'
  BY <1>0, <1>1, <1>4, KnowledgeKept DEF ListInv, CleanBut, users
<1>8. DoneInv(r)'
  BY <1>0, <1>1, <1>4, KnowledgeKept DEF DoneInv, CleanBut, users
<1>9. QED
  BY <1>2, <1>3, <1>4, <1>6, <1>7, <1>8, DeliveringInv DEF Types, ReplicaInv

\* The listing is all that is stored, or an earlier one, or none and the
\* delivery has failed.
LEMMA ListTokensInv ==
    ASSUME Inv, NEW r \in Replicas, ListTokens(r)
    PROVE  Inv'
<1>0. Types /\ LocalInv(r) /\ CurInv(r) /\ ListInv(r) /\ DelInv(r) /\ DoneInv(r)
  BY DEF Inv, ReplicaInv
<1>1. /\ pc[r] = "list" /\ pc' = [pc EXCEPT ![r] = "delete"]
      /\ del' = [del EXCEPT ![r] = {g \in tokens'[r] : grants[g].owner = CurUser(r)}]
      /\ UNCHANGED <<users, events, grantVars, batch, todo, cur, done, issuing>>
  BY DEF ListTokens
<1>2. \/ /\ listed' = [listed EXCEPT ![r] = "yes"] /\ tokens' = [tokens EXCEPT ![r] = stored]
         /\ UNCHANGED <<ok, faults>>
      \/ /\ Fault /\ listed' = [listed EXCEPT ![r] = "failed"]
         /\ ok' = [ok EXCEPT ![r] = FALSE] /\ UNCHANGED tokens
      \/ /\ ok' = [ok EXCEPT ![r] = listed[r] = "yes"] /\ UNCHANGED <<listed, tokens, faults>>
  BY DEF ListTokens
<1>3. /\ pc'[r] = "delete"
      /\ \/ listed'[r] = "yes" /\ tokens'[r] = stored
         \/ listed'[r] = "failed" /\ ~ ok'[r] /\ tokens'[r] = tokens[r]
         \/ listed'[r] = listed[r] /\ tokens'[r] = tokens[r] /\ (ok'[r] => listed[r] = "yes")
  <2>1. /\ pc \in [Replicas -> Pcs] /\ listed \in [Replicas -> {"no", "yes", "failed"}]
        /\ tokens \in [Replicas -> SUBSET Nat] /\ ok \in [Replicas -> BOOLEAN]
    BY <1>0 DEF Types, LoopTypes
  <2>2. QED
    BY <1>1, <1>2, <2>1
<1>4. /\ stored \subseteq DOMAIN grants /\ tokens'[r] \subseteq DOMAIN grants
      /\ DOMAIN grants \subseteq Nat
  BY <1>0, <1>3 DEF Types, GrantTypes, LocalInv
<1>5. del'[r] = {g \in tokens'[r] : grants[g].owner = CurUser(r)}
  BY <1>0, <1>1 DEF Types, LoopTypes
<1>6. LoopTypes'
  <2>1. listed' \in [Replicas -> {"no", "yes", "failed"}] /\ ok' \in [Replicas -> BOOLEAN]
    BY <1>0, <1>2 DEF Types, LoopTypes
  <2>2. tokens' \in [Replicas -> SUBSET Nat]
    BY <1>0, <1>2, <1>4 DEF Types, LoopTypes
  <2>3. del' \in [Replicas -> SUBSET Nat]
    BY <1>0, <1>1, <1>4 DEF Types, LoopTypes
  <2>4. QED
    BY <1>0, <1>1, <2>1, <2>2, <2>3 DEF Types, LoopTypes, Pcs
<1>7. UserTypes' /\ GrantTypes' /\ IssuerTypes'
  <2>1. faults' \in 0 .. MaxFaults
    BY <1>0, <1>2, BoundsAssumption DEF Types, GrantTypes, Fault
  <2>2. QED
    BY <1>0, <1>1, <2>1, OthersTyped DEF users, grantVars, issuing, Types, UserTypes
<1>8. Delivering(r)
  <2>1. \A s \in Replicas : s # r => SameLoop(s)
    BY <1>0, <1>1, <1>2 DEF Types, LoopTypes, SameLoop
  <2>2. QED
    BY <1>1, <2>1 DEF Delivering, users, grantVars, issuing
<1>9. CurUser(r)' = CurUser(r)
  BY <1>1 DEF CurUser
<1>10. LocalInv(r)' /\ CurInv(r)'
  BY <1>0, <1>1, <1>3, <1>4, <1>5, <1>9 DEF LocalInv, CurInv, grantVars
<1>11. DelInv(r)'
  BY <1>0, <1>1, <1>3, <1>5, <1>9 DEF DelInv, grantVars
<1>12. ListInv(r)'
  <2>1. CASE tokens'[r] = stored
    BY <1>1, <2>1 DEF ListInv, CleanBut, grantVars
  <2>2. CASE listed'[r] = "yes" => listed[r] = "yes" /\ tokens'[r] = tokens[r]
    BY <1>0, <1>1, <1>8, <2>2, KnowledgeKept DEF ListInv, CleanBut, users
  <2>3. QED
    BY <1>3, <2>1, <2>2
<1>13. DoneInv(r)'
  BY <1>0, <1>1, <1>8, KnowledgeKept DEF DoneInv, CleanBut, users
<1>14. QED
  BY <1>6, <1>7, <1>8, <1>10, <1>11, <1>12, <1>13, DeliveringInv DEF Types, ReplicaInv

LEMMA DeleteInv ==
    ASSUME Inv, NEW r \in Replicas, NEW h \in del[r], deleteUserOAuthTokens(r, h)
    PROVE  Inv'
<1>0. Types /\ LocalInv(r) /\ CurInv(r) /\ ListInv(r) /\ DelInv(r) /\ DoneInv(r)
  BY DEF Inv, ReplicaInv
<1>1. /\ pc[r] = "delete" /\ del' = [del EXCEPT ![r] = @ \ {h}]
      /\ UNCHANGED <<users, events, grants, handed, code, pc, batch, todo, cur, listed, tokens,
                     done, issuing>>
  BY DEF deleteUserOAuthTokens
<1>2. \/ stored' = stored \ {h} /\ UNCHANGED <<ok, faults>>
      \/ Fault /\ ok' = [ok EXCEPT ![r] = FALSE] /\ UNCHANGED stored
  BY DEF deleteUserOAuthTokens
<1>3. stored' \subseteq stored /\ (ok'[r] => h \notin stored' /\ ok[r])
  BY <1>0, <1>2 DEF Types, LoopTypes
<1>4. LoopTypes' /\ del'[r] = del[r] \ {h}
  BY <1>0, <1>1, <1>2 DEF Types, LoopTypes
<1>5. UserTypes' /\ GrantTypes' /\ IssuerTypes'
  <2>1. faults' \in 0 .. MaxFaults
    BY <1>0, <1>2, BoundsAssumption DEF Types, GrantTypes, Fault
  <2>2. QED
    BY <1>0, <1>1, <1>3, <2>1, OthersTyped DEF users, issuing, Types, UserTypes
<1>6. Delivering(r)
  <2>1. \A s \in Replicas : s # r => SameLoop(s)
    BY <1>0, <1>1, <1>2 DEF Types, LoopTypes, SameLoop
  <2>2. QED
    BY <1>1, <1>3, <2>1 DEF Delivering, users, issuing
<1>7. CurUser(r)' = CurUser(r)
  BY <1>1 DEF CurUser
<1>8. LocalInv(r)' /\ CurInv(r)'
  BY <1>0, <1>1, <1>4, <1>7 DEF LocalInv, CurInv
<1>9. DelInv(r)'
  BY <1>0, <1>1, <1>3, <1>4, <1>7 DEF DelInv
<1>10. ListInv(r)'
  BY <1>0, <1>1, <1>6, KnowledgeKept DEF ListInv, CleanBut, users
<1>11. DoneInv(r)'
  BY <1>0, <1>1, <1>6, KnowledgeKept DEF DoneInv, CleanBut, users
<1>12. QED
  BY <1>4, <1>5, <1>6, <1>8, <1>9, <1>10, <1>11, DeliveringInv DEF Types, ReplicaInv

\* A step that ends a delivery and is not its last: nothing of a user who is
\* active again is to be revoked, and a reconcile event revokes nothing.
LEMMA EndingSteps ==
    ASSUME Inv, NEW r \in Replicas,
           SkipActive(r) \/ CreateGroupChange(r) \/ DeliveryFails(r)
    PROVE  Inv'
<1>0. Types /\ LocalInv(r) /\ CurInv(r)
  BY DEF Inv, ReplicaInv
<1>1. /\ pc[r] \in {"status", "roles", "groups"}
      /\ UNCHANGED <<users, events, grantVars, batch, listed, tokens, del, ok, issuing>>
  BY DEF SkipActive, CreateGroupChange, DeliveryFails
<1>2. faults' \in 0 .. MaxFaults
  <2>1. UNCHANGED faults \/ Fault
    BY DEF SkipActive, CreateGroupChange, DeliveryFails
  <2>2. QED
    BY <1>0, <2>1, FaultTyped DEF Types
<1>3. UserTypes' /\ GrantTypes' /\ IssuerTypes'
  BY <1>0, <1>1, <1>2, OthersTyped DEF users, grantVars, issuing, Types, UserTypes
<1>4. CASE SkipActive(r)
  <2>1. EndDelivery(r, TRUE) /\ status[CurUser(r)] = "active" /\ pc[r] = "status"
    BY <1>4 DEF SkipActive
  <2>2. \A e \in cur[r], u \in Users : IsLast(e, u) => status[u] = "active"
    BY <1>0, <2>1 DEF CurInv, IsLast
  <2>3. QED
    BY <1>1, <1>3, <2>1, <2>2, EndDeliveryInv DEF users, grantVars, issuing
<1>5. CASE CreateGroupChange(r)
  <2>1. EndDelivery(r, TRUE) /\ pc[r] = "groups"
    BY <1>5 DEF CreateGroupChange
  <2>2. \A e \in cur[r], u \in Users : ~ IsLast(e, u)
    BY <1>0, <2>1 DEF CurInv, IsLast
  <2>3. QED
    BY <1>1, <1>3, <2>1, <2>2, EndDeliveryInv DEF users, grantVars, issuing
<1>6. CASE DeliveryFails(r)
  <2>1. EndDelivery(r, FALSE)
    BY <1>6 DEF DeliveryFails
  <2>2. QED
    BY <1>1, <1>3, <2>1, EndDeliveryInv DEF users, grantVars, issuing
<1>7. QED
  BY <1>4, <1>5, <1>6

LEMMA RoleChangeInv ==
    ASSUME Inv, NEW r \in Replicas, CreateRoleChange(r)
    PROVE  Inv'
<1>0. Types /\ LocalInv(r) /\ CurInv(r) /\ ListInv(r) /\ DelInv(r) /\ DoneInv(r)
  BY DEF Inv, ReplicaInv
<1>1. /\ pc[r] = "roles"
      /\ UNCHANGED <<users, events, grantVars, faults, batch, listed, tokens, del, ok, issuing>>
  BY DEF CreateRoleChange
<1>2. UserTypes' /\ GrantTypes' /\ IssuerTypes'
  BY <1>0, <1>1, OthersTyped DEF users, grantVars, issuing, Types, UserTypes, GrantTypes
<1>3. CASE EndDelivery(r, TRUE)
  <2>1. \A e \in cur[r], u \in Users : ~ IsLast(e, u)
    BY <1>0, <1>1 DEF CurInv, IsLast
  <2>2. QED
    BY <1>1, <1>2, <1>3, <2>1, EndDeliveryInv DEF users, grantVars, issuing
<1>4. CASE pc' = [pc EXCEPT ![r] = "groups"] /\ UNCHANGED <<todo, cur, done>>
  <2>1. LoopTypes' /\ pc'[r] = "groups"
    BY <1>0, <1>1, <1>4 DEF Types, LoopTypes, Pcs
  <2>2. Delivering(r)
    BY <1>0, <1>1, <1>4 DEF Types, LoopTypes, Delivering, SameLoop, users, grantVars, issuing
  <2>3. LocalInv(r)' /\ CurInv(r)' /\ DelInv(r)'
    BY <1>0, <1>1, <1>4, <2>1 DEF LocalInv, CurInv, DelInv, grantVars
  <2>4. ListInv(r)'
    BY <1>0, <1>1, <1>4, <2>2, KnowledgeKept DEF ListInv, CleanBut, users
  <2>5. DoneInv(r)'
    BY <1>0, <1>1, <1>4, <2>2, KnowledgeKept DEF DoneInv, CleanBut, users
  <2>6. QED
    BY <1>2, <2>1, <2>2, <2>3, <2>4, <2>5, DeliveringInv DEF Types, ReplicaInv
<1>5. QED
  BY <1>3, <1>4 DEF CreateRoleChange

\* The last step of a revocation: all that was listed has been deleted.
LEMMA EndSessionsInv ==
    ASSUME Inv, NEW r \in Replicas, endUserSessions(r)
    PROVE  Inv'
<1>0. Types /\ LocalInv(r) /\ CurInv(r) /\ ListInv(r) /\ DelInv(r)
  BY DEF Inv, ReplicaInv
<1>1. /\ pc[r] = "delete" /\ del[r] = {}
      /\ UNCHANGED <<status, authToken, version, events, grantVars, batch, listed, tokens, del,
                     ok, issuing>>
  BY DEF endUserSessions
<1>2. PICK w \in BOOLEAN :
          /\ w => ok[r] /\ session' = [session EXCEPT ![CurUser(r)] = 0]
          /\ EndDelivery(r, w)
  <2>1. ok[r] \in BOOLEAN
    BY <1>0 DEF Types, LoopTypes
  <2>2. QED
    BY <2>1 DEF endUserSessions
<1>3. UserTypes' /\ GrantTypes' /\ IssuerTypes'
  <2>1. faults' \in 0 .. MaxFaults
    <3>1. UNCHANGED faults \/ Fault
      BY DEF endUserSessions
    <3>2. QED
      BY <1>0, <3>1, FaultTyped DEF Types
  <2>2. /\ Len(events) \in Nat /\ session \in [Users -> Nat]
        /\ \A v \in Users : session[v] <= Len(events) + 1
    BY <1>0 DEF Types, UserTypes
  <2>3. session' = session \/ session' = [session EXCEPT ![CurUser(r)] = 0]
    BY DEF endUserSessions
  <2>4. session' \in [Users -> Nat] /\ \A v \in Users : session'[v] = 0 \/ session'[v] = session[v]
    BY <2>2, <2>3
  <2>5. \A v \in Users : session'[v] <= Len(events) + 1
    BY <2>2, <2>4
  <2>6. QED
    BY <1>0, <1>1, <2>1, <2>4, <2>5, OthersTyped DEF grantVars
<1>4. ASSUME w, NEW e \in cur[r], NEW u \in Users, IsLast(e, u), status[u] = "disabled"
      PROVE  CleanBut(u, {}) /\ Ended(u, e)'
  <2>1. listed[r] = "yes" /\ \A g \in tokens[r] : grants[g].owner = CurUser(r) => g \notin stored
    BY <1>0, <1>1, <1>2, <1>4 DEF DelInv
  <2>2. u = CurUser(r) /\ e \in todo[r]
    BY <1>0, <1>1, <1>4 DEF CurInv, IsLast, LocalInv
  <2>3. CleanBut(u, tokens[r])
    BY <1>0, <1>4, <2>1, <2>2 DEF ListInv
  <2>4. session'[u] = 0
    BY <1>0, <1>2, <1>4, <2>2 DEF Types, UserTypes
  <2>5. QED
    BY <2>1, <2>2, <2>3, <2>4 DEF CleanBut, Ended
<1>5. \A u \in Users : session'[u] \in {0, session[u]}
  BY <1>0 DEF Types, UserTypes, endUserSessions
<1>6. QED
  BY <1>1, <1>2, <1>3, <1>4, <1>5, EndDeliveryInv DEF grantVars, issuing

\* Only what nobody has claimed since the listing is claimed, and nothing of
\* a batch is known yet.
LEMMA ClaimInv ==
    ASSUME Inv, NEW r \in Replicas, claimUserLifecycleEvents(r)
    PROVE  Inv'
<1>0. Types /\ LastInv /\ LocalInv(r) /\ CurInv(r)
  BY DEF Inv, ReplicaInv
<1> DEFINE mine == {e \in batch[r] : Claimable(e)}
<1>1. /\ pc[r] = "claim" /\ pc' = [pc EXCEPT ![r] = "next"]
      /\ todo' = [todo EXCEPT ![r] = mine] /\ batch' = [batch EXCEPT ![r] = {}]
      /\ UNCHANGED <<users, grantVars, faults, cur, listed, tokens, del, ok, done, issuing>>
  BY DEF claimUserLifecycleEvents
<1>2. events' = [e \in DOMAIN events |->
                   IF e \in mine THEN [events[e] EXCEPT !.claimed = TRUE] ELSE events[e]]
  BY DEF claimUserLifecycleEvents
<1>3. mine \subseteq DOMAIN events /\ mine \subseteq Nat
  BY <1>0 DEF LocalInv, Types, LoopTypes
<1> HIDE DEF mine
<1>4. /\ events' \in [DOMAIN events -> EventType]
      /\ \A e \in DOMAIN events : events'[e].user = events[e].user
            /\ events'[e].type = events[e].type /\ events'[e].delivered = events[e].delivered
  <2>1. \A e \in DOMAIN events : events[e] \in EventType
    BY <1>0 DEF Types, UserTypes
  <2>2. QED
    BY <1>2, <2>1 DEF EventType
<1>5. events' \in Seq(EventType) /\ Len(events') = Len(events) /\ DOMAIN events' = DOMAIN events
  BY <1>0, <1>4, FunctionIsSeq DEF Types, UserTypes
<1>6. Types'
  <2>1. UserTypes'
    BY <1>0, <1>1, <1>5 DEF Types, UserTypes, users
  <2>2. LoopTypes'
    BY <1>0, <1>1, <1>3 DEF Types, LoopTypes, Pcs
  <2>3. GrantTypes' /\ IssuerTypes'
    BY <1>0, <1>1 DEF Types, GrantTypes, IssuerTypes, grantVars, issuing
  <2>4. QED
    BY <2>1, <2>2, <2>3 DEF Types
<1>7. Calm
  BY <1>1, <1>4, <1>5 DEF Calm, users
<1>8. Benign
  <2>1. \A g \in stored' : g \in stored /\ (Out(g)' => Out(g))
    BY <1>1 DEF Out, grantVars, issuing
  <2>2. QED
    BY <1>0, <1>1, <1>7, <2>1, CalmIsBenign DEF Ended, users, grantVars
<1>9. pc'[r] = "next" /\ todo'[r] = mine /\ batch'[r] = {}
  BY <1>0, <1>1 DEF Types, LoopTypes
<1>10. LocalInv(r)' /\ CurInv(r)' /\ DelInv(r)'
  BY <1>0, <1>1, <1>3, <1>5, <1>9 DEF LocalInv, CurInv, DelInv, grantVars
<1>11. ListInv(r)' /\ DoneInv(r)'
  BY <1>0, <1>1 DEF LocalInv, ListInv, DoneInv
<1>12. \A s \in Replicas : SameLoop(s) \/ ReplicaInv(s)'
  <2>1. \A s \in Replicas : s # r => SameLoop(s)
    BY <1>0, <1>1 DEF Types, LoopTypes, SameLoop
  <2>2. QED
    BY <1>10, <1>11, <2>1 DEF ReplicaInv
<1>13. QED
  BY <1>0, <1>4, <1>5, <1>6, <1>7, <1>8, <1>12, CalmLast, StepInv

\* A batch is over: what it has done may be marked.
Marked(r) ==
    /\ events' \in [DOMAIN events -> EventType]
    /\ \A e \in DOMAIN events :
          /\ events'[e].user = events[e].user /\ events'[e].type = events[e].type
          /\ events'[e].delivered => events[e].delivered \/ e \in done[r]

LEMMA RestInv ==
    ASSUME Inv, NEW r \in Replicas, Rest(r), faults' \in 0 .. MaxFaults, Marked(r)
    PROVE  Inv'
<1>0. Types /\ LastInv
  BY DEF Inv
<1>1. events' \in Seq(EventType) /\ Len(events') = Len(events) /\ DOMAIN events' = DOMAIN events
  BY <1>0, FunctionIsSeq DEF Marked, Types, UserTypes
<1>2. Types'
  <2>1. UserTypes'
    BY <1>0, <1>1 DEF Types, UserTypes, users, Rest
  <2>2. LoopTypes'
    BY <1>0 DEF Types, LoopTypes, Pcs, Rest
  <2>3. GrantTypes' /\ IssuerTypes'
    BY <1>0 DEF Types, GrantTypes, IssuerTypes, grantVars, issuing, Rest
  <2>4. QED
    BY <2>1, <2>2, <2>3 DEF Types
<1>3. Calm
  BY <1>1 DEF Marked, Calm, users, Rest
<1>4. Benign
  <2>1. \A g \in stored' : g \in stored /\ (Out(g)' => Out(g))
    BY DEF Out, grantVars, issuing, Rest
  <2>2. QED
    BY <1>0, <1>3, <2>1, CalmIsBenign DEF Ended, users, grantVars, Rest
<1>5. /\ pc'[r] = "idle" /\ batch'[r] = {} /\ todo'[r] = {} /\ cur'[r] = {} /\ listed'[r] = "no"
      /\ tokens'[r] = {} /\ del'[r] = {} /\ done'[r] = {}
  BY <1>0 DEF Types, LoopTypes, Rest
<1>6. ReplicaInv(r)'
  BY <1>5 DEF ReplicaInv, LocalInv, CurInv, ListInv, DelInv, DoneInv
<1>7. \A s \in Replicas : s # r => SameLoop(s)
  BY <1>0 DEF Types, LoopTypes, SameLoop, Rest
<1>8. \A s \in Replicas : SameLoop(s) \/ ReplicaInv(s)'
  BY <1>6, <1>7
<1>9. \A e \in DOMAIN events' : events'[e].delivered =>
          e \in DOMAIN events /\ (events[e].delivered \/ \E s \in Replicas : e \in done[s])
  BY <1>1 DEF Marked
<1>10. QED
  BY <1>0, <1>2, <1>3, <1>4, <1>8, <1>9, CalmLast, StepInv

LEMMA MarkInv ==
    ASSUME Inv, NEW r \in Replicas, MarkDelivered(r)
    PROVE  Inv'
<1>0. Types
  BY DEF Inv
<1>1. \A e \in DOMAIN events : events[e] \in EventType
  BY <1>0 DEF Types, UserTypes
<1>2. events' = [e \in DOMAIN events |->
                   IF e \in done[r] THEN [events[e] EXCEPT !.delivered = TRUE] ELSE events[e]]
  BY DEF MarkDelivered
<1>3. Marked(r)
  BY <1>1, <1>2 DEF EventType, Marked
<1>4. Rest(r) /\ faults' \in 0 .. MaxFaults
  BY <1>0 DEF MarkDelivered, Types, GrantTypes
<1>5. QED
  BY <1>3, <1>4, RestInv

LEMMA CrashInv ==
    ASSUME Inv, NEW r \in Replicas, Crash(r)
    PROVE  Inv'
<1>0. Types
  BY DEF Inv
<1>1. \A e \in DOMAIN events : events[e] \in EventType
  BY <1>0 DEF Types, UserTypes
<1>2. events \in [DOMAIN events -> EventType] /\ UNCHANGED events
  BY <1>0, <1>1 DEF Types, UserTypes, Crash
<1>3. Rest(r) /\ Fault
  BY DEF Crash
<1>4. faults' \in 0 .. MaxFaults
  BY <1>0, <1>3, FaultTyped DEF Types
<1>5. Marked(r)
  BY <1>2 DEF Marked
<1>6. QED
  BY <1>3, <1>4, <1>5, RestInv

LEMMA ExpireInv ==
    ASSUME Inv, NEW x \in DOMAIN events, ExpireClaim(x)
    PROVE  Inv'
<1>0. Types /\ LastInv
  BY DEF Inv
<1>1. /\ events' = [events EXCEPT ![x].claimed = FALSE]
      /\ UNCHANGED <<users, grantVars, faults, loop, issuing>>
  BY DEF ExpireClaim
<1>2. /\ events' \in [DOMAIN events -> EventType]
      /\ \A e \in DOMAIN events : /\ events'[e].user = events[e].user
                                   /\ events'[e].type = events[e].type
                                   /\ events'[e].delivered = events[e].delivered
  <2>1. \A e \in DOMAIN events : events[e] \in EventType
    BY <1>0 DEF Types, UserTypes
  <2>2. events \in [DOMAIN events -> EventType]
    BY <1>0, <2>1 DEF Types, UserTypes
  <2>3. QED
    BY <1>1, <2>1, <2>2 DEF EventType
<1>3. events' \in Seq(EventType) /\ Len(events') = Len(events) /\ DOMAIN events' = DOMAIN events
  BY <1>0, <1>2, FunctionIsSeq DEF Types, UserTypes
<1>4. Types'
  <2>1. UserTypes'
    BY <1>0, <1>1, <1>3 DEF Types, UserTypes, users
  <2>2. LoopTypes' /\ GrantTypes' /\ IssuerTypes'
    BY <1>0, <1>1 DEF Types, LoopTypes, GrantTypes, IssuerTypes, grantVars, issuing, loop
  <2>3. QED
    BY <2>1, <2>2 DEF Types
<1>5. Calm
  BY <1>1, <1>2, <1>3 DEF Calm, users
<1>6. Benign
  <2>1. \A g \in stored' : g \in stored /\ (Out(g)' => Out(g))
    BY <1>1 DEF Out, grantVars, issuing
  <2>2. QED
    BY <1>0, <1>1, <1>5, <2>1, CalmIsBenign DEF Ended, users, grantVars
<1>7. \A s \in Replicas : SameLoop(s)
  BY <1>1 DEF SameLoop, loop
<1>8. QED
  BY <1>0, <1>2, <1>3, <1>4, <1>5, <1>6, <1>7, CalmLast, StepInv

-----------------------------------------------------------------------------
LEMMA NextInv == Inv /\ [Next]_vars => Inv'
<1> SUFFICES ASSUME Inv, [Next]_vars PROVE Inv'
  OBVIOUS
<1>1. CASE UNCHANGED vars
  <2>1. Types' /\ Aside
    BY <1>1 DEF vars, users, grantVars, loop, issuing, Inv, Types, UserTypes, GrantTypes, LoopTypes,
       IssuerTypes, Aside
  <2>2. QED
    BY <1>1, <2>1, AsideInv DEF Ended, vars, users
<1>2. ASSUME NEW u \in Users,
             \/ DisableUser(u) \/ EnableUser(u)
             \/ \E b \in BOOLEAN : recordUserReconcileEvent(u, b)
      PROVE  Inv'
  BY <1>2, DisableInv, EnableInv, RecordInv
<1>3. ASSUME NEW i \in Issuers,
             \/ \E c \in Codes : ListCode(i, c)
             \/ DeleteCode(i) \/ CheckUser(i) \/ CreateGrant(i) \/ revokeIfUserDenied(i)
             \/ RevokeGrant(i) \/ WriteAnswer(i) \/ AbortExchange(i)
      PROVE  Inv'
  BY <1>3, ExchangeMoves, CreateGrantInv, ExchangeEnds
<1>4. ASSUME NEW r \in Replicas, Deliver(r) \/ Crash(r)
      PROVE  Inv'
  BY <1>4, ListEventsInv, ClaimInv, CoalesceInv, EndingSteps, SeeDisabledInv, ListTokensInv,
     DeleteInv, EndSessionsInv, RoleChangeInv, MarkInv, CrashInv DEF Deliver
<1>5. ASSUME NEW e \in DOMAIN events, ExpireClaim(e)
      PROVE  Inv'
  BY <1>5, ExpireInv
<1>6. QED
  BY <1>1, <1>2, <1>3, <1>4, <1>5, AsideStep DEF Next

LEMMA SpecInv == Spec => []Inv
BY InitInv, NextInv, PTL DEF Spec

\* The outbox, the grants, every batch and every exchange keep their types:
\* what a replica holds was recorded and listed.
THEOREM TypeCorrect == Spec => []TypeOK
<1>1. Inv => TypeOK
  <2> SUFFICES ASSUME Inv PROVE TypeOK
    OBVIOUS
  <2>0. UserTypes /\ GrantTypes /\ LoopTypes /\ IssuerTypes /\ \A r \in Replicas : LocalInv(r)
    BY DEF Inv, Types, ReplicaInv
  <2>1. session \in [Users -> 0 .. Len(events) + 1]
    <3>1. Len(events) \in Nat /\ session \in [Users -> Nat]
          /\ \A u \in Users : session[u] <= Len(events) + 1
      BY <2>0 DEF UserTypes
    <3>2. QED
      BY <3>1
  <2>2. status \in [Users -> {"active", "disabled"}] /\ authToken \in [Users -> BOOLEAN]
    BY <2>0 DEF UserTypes
  <2>3. /\ stored \subseteq DOMAIN grants /\ handed \subseteq DOMAIN grants
        /\ code \in [Codes -> {"none", "stored", "gone"}] /\ faults \in 0 .. MaxFaults
    BY <2>0 DEF GrantTypes
  <2>4. \A i \in Issuers : ipc[i] = "idle" <=> icode[i] = {}
    BY <2>0 DEF IssuerTypes
  <2>5. QED
    BY <2>0, <2>1, <2>2, <2>3, <2>4 DEF TypeOK, LocalInv
<1>2. QED
  BY <1>1, SpecInv, PTL

\* A refresh token that reached a client does not outlive its owner's access,
\* whatever exchanges run while the owner is disabled, whichever replicas
\* deliver the event, together or one after another, and whatever fails.
THEOREM GrantsAreRevoked == Spec => []NoGrantOutlivesDenial
<1>1. Inv => NoGrantOutlivesDenial
  <2>1. SUFFICES ASSUME Inv, NEW g \in stored \cap handed,
                        status[grants[g].owner] = "disabled"
                 PROVE  RevocationPending(grants[g].owner)
    BY DEF NoGrantOutlivesDenial
  <2>2. grants[g].owner \in Users
    <3>1. grants \in Seq(GrantType) /\ g \in DOMAIN grants
      BY <2>1 DEF Inv, Types, GrantTypes
    <3>2. grants[g] \in GrantType
      BY <3>1
    <3>3. QED
      BY <3>2 DEF GrantType
  <2>3. PICK e \in DOMAIN events : IsLast(e, grants[g].owner)
    BY <2>1, <2>2 DEF Inv, LastInv
  <2>4. ~ events[e].delivered
    <3>1. SUFFICES ASSUME events[e].delivered PROVE FALSE
      OBVIOUS
    <3>2. CleanBut(grants[g].owner, {})
      BY <2>1, <2>2, <2>3, <3>1 DEF Inv, DeliveredInv
    <3>3. QED
      BY <2>1, <3>2 DEF CleanBut, Out
  <2>5. QED
    BY <2>3, <2>4 DEF RevocationPending, IsLast
<1>2. QED
  BY <1>1, SpecInv, PTL

\* The same for browser sessions: of those that were open when a disabled user
\* was last disabled, none is left once that disabling is delivered.
THEOREM SessionsAreEnded == Spec => []NoSessionOutlivesDenial
<1>1. Inv => NoSessionOutlivesDenial
  <2>1. SUFFICES ASSUME Inv, NEW u \in Users, NEW e \in DOMAIN events, status[u] = "disabled",
                        events[e].type = "disabled", events[e].user = u, session[u] \in 1 .. e
                 PROVE  RevocationPending(u)
    BY DEF NoSessionOutlivesDenial
  <2>2. PICK f \in DOMAIN events : IsLast(f, u)
    BY <2>1 DEF Inv, LastInv
  <2>3. e <= f /\ DOMAIN events \subseteq Nat
    BY <2>1, <2>2 DEF IsLast, Inv, Types, UserTypes
  <2>4. ~ Ended(u, f)
    BY <2>1, <2>3 DEF Ended
  <2>5. ~ events[f].delivered
    BY <2>1, <2>2, <2>4 DEF Inv, DeliveredInv
  <2>6. QED
    BY <2>2, <2>5 DEF RevocationPending, IsLast
<1>2. QED
  BY <1>1, SpecInv, PTL
=============================================================================
