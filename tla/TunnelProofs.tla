---------------------------- MODULE TunnelProofs ----------------------------
(***************************************************************************)
(* Proofs about Tunnel, for any number of replicas, connections,           *)
(* administrators, bridged requests and faults: a rotation or a deletion   *)
(* leaves no connection of its credential open at its replica.             *)
(***************************************************************************)
EXTENDS Tunnel, TLAPS

\* A call of ServeConnect that has not begun has nothing.
ConnInv ==
    \A c \in Conns :
        connect[c].pc = "new" =>
            connect[c].key = All /\ ~ connect[c].tracked /\ connect[c].conn = "none"

\* The credential an administrator's request noted is no longer valid.
Replaced(a) == ~ tunnel.live \/ admin[a].key < tunnel.credential

Disconnecting(a, pcs) == admin[a].pc \in pcs /\ admin[a].op \in {"rotate", "delete"}

\* What an administrator's request knows: connections are in its hands only
\* while it closes them; an update that the store would still take was made
\* with the stored credential; and one that disconnects has replaced its key.
AdminKnows(a) ==
    /\ admin[a].pc # "closing" => admin[a].local = {}
    /\ admin[a].op \in {"rotate", "delete", "update"} => admin[a].key # All
    /\ admin[a].pc \in {"local", "closing", "remote", "done"} =>
          admin[a].op \in {"rotate", "delete", "close"}
    /\ admin[a].pc = "read" => admin[a].version <= tunnel.version
    /\ admin[a].pc = "read" /\ admin[a].version = tunnel.version =>
          admin[a].key = tunnel.credential
    /\ Disconnecting(a, {"local", "closing", "remote", "done"}) => Replaced(a)

AdminInv == \A a \in Admins : AdminKnows(a)

\* The connections an administrator's request is closing are its replica's,
\* and of its key.
HandsInv ==
    \A a \in Admins : \A c \in admin[a].local :
        /\ connect[c].pc # "new" /\ home[c] = admin[a].at
        /\ admin[a].op = "close" \/ connect[c].key = admin[a].key

\* From the moment the local connections were taken off the map, none of the
\* key can be hijacked any more, and those that are open are being closed.
CutOff ==
    \A a \in Admins, c \in Conns :
        /\ Disconnecting(a, {"closing", "remote", "done"})
        /\ home[c] = admin[a].at /\ connect[c].key = admin[a].key
        => /\ connect[c].pc = "verified" => ~ connect[c].tracked
           /\ connect[c].conn = "open" => Closing(c)

Inv == TypeOK /\ ConnInv /\ AdminInv /\ HandsInv /\ OpenIsTracked /\ CutOff

ConnType == [pc : ConnectPcs, key : Nat, tracked : BOOLEAN, conn : {"none", "open", "closed"}]

-----------------------------------------------------------------------------
LEMMA InitInv ==
    ASSUME Init PROVE Inv
<1>1. TypeOK
  <2>1. MeshTypeOK
    BY DEF Init, MeshTypeOK, Conns
  <2>2. tunnel \in [live : BOOLEAN, credential : Nat \ {0}, version : Nat \ {0}]
    BY DEF Init
  <2>3. NewConnect \in ConnType
    BY DEF NewConnect, ConnectPcs, All, ConnType
  <2>4. NewAdmin \in [pc : AdminPcs, op : AdminOps, at : Replicas \union {Nowhere},
                      key : Nat, version : Nat, local : SUBSET Conns]
    BY DEF NewAdmin, AdminPcs, AdminOps, All
  <2>5. NewBridge \in [pc : {"new", "dial", "sent"}, at : Replicas \union {Nowhere},
                       key : Nat, over : SUBSET Conns]
    BY DEF NewBridge, All
  <2>6. QED
    BY <2>1, <2>2, <2>3, <2>4, <2>5 DEF Init, TypeOK, ConnType
<1>2. /\ \A c \in Conns : connect[c] = NewConnect
      /\ \A a \in Admins : admin[a] = NewAdmin
      /\ \A b \in Bridges : bridge[b] = NewBridge
  BY DEF Init
<1>3. ConnInv /\ OpenIsTracked
  BY <1>2 DEF ConnInv, OpenIsTracked, NewConnect
<1>4. AdminInv /\ HandsInv /\ CutOff
  BY <1>2 DEF AdminInv, AdminKnows, HandsInv, CutOff, Disconnecting, NewAdmin
<1>5. QED
  BY <1>1, <1>3, <1>4 DEF Inv

-----------------------------------------------------------------------------
(* The steps of one call of ServeConnect after it was authenticated. *)

\* What such a step does to the call's record: it is not tracked anew once it
\* was registered, a connection is opened only while it is tracked and taken
\* off the map only when it is closed, and it is verified with the stored
\* credential.
CallMoves(old, new) ==
    /\ new \in ConnType /\ new.key = old.key /\ new.pc # "new"
    /\ new.conn = "open" =>
          /\ old.conn = "open" \/ (old.pc = "verified" /\ old.tracked)
          /\ old.tracked => new.tracked
    /\ new.pc = "verified" =>
          \/ old.pc = "verified" /\ new.tracked = old.tracked
          \/ tunnel.live /\ old.key = tunnel.credential

LEMMA EndedMoves ==
    ASSUME NEW old \in ConnType
    PROVE  CallMoves(old, Ended(old))
BY DEF CallMoves, Ended, ConnType, ConnectPcs

LEMMA CallSteps ==
    ASSUME Inv, NEW c \in Conns,
           ServeConnectStep(c) \/ OpenSession(c) \/ EndSession(c)
    PROVE  /\ \E new : connect' = [connect EXCEPT ![c] = new] /\ CallMoves(connect[c], new)
           /\ UNCHANGED <<up, home, view, tunnel, admin, bridge, faults>>
           /\ session' \in [Sessions -> {"none", "live", "gone"}]
<1>0. /\ connect \in [Conns -> ConnType]
      /\ session \in [Sessions -> {"none", "live", "gone"}] /\ c \in Sessions
  BY DEF Inv, TypeOK, MeshTypeOK, ConnType, Conns
<1>1. connect[c] \in ConnType
  BY <1>0
<1>2. ASSUME Return(c)
      PROVE  \E new : connect' = [connect EXCEPT ![c] = new] /\ CallMoves(connect[c], new)
  <2>1. connect' = [connect EXCEPT ![c] = Ended(connect[c])]
    BY <1>2 DEF Return
  <2>2. QED
    BY <1>1, <2>1, EndedMoves
<1>3. ASSUME Register(c) \/ ClientLeaves(c)
           \/ (Goto(c, "verified") /\ tunnel.live /\ connect[c].key = tunnel.credential)
           \/ (connect[c].pc = "accepted" /\ Goto(c, "serving"))
           \/ (connect[c].pc = "verified" /\ connect[c].tracked
               /\ connect' = [connect EXCEPT ![c].pc = "accepted", ![c].conn = "open"])
      PROVE  \E new : connect' = [connect EXCEPT ![c] = new] /\ CallMoves(connect[c], new)
  <2>1. CASE Register(c)
    <3> DEFINE new == [connect[c] EXCEPT !.pc = "registered", !.tracked = TRUE]
    <3>1. connect' = [connect EXCEPT ![c] = new]
      BY <1>0, <2>1 DEF Register
    <3>2. CallMoves(connect[c], new)
      BY <1>1, <2>1 DEF Register, CallMoves, ConnType, ConnectPcs
    <3>3. QED
      BY <3>1, <3>2
  <2>2. CASE ClientLeaves(c)
    <3> DEFINE new == [connect[c] EXCEPT !.conn = "closed"]
    <3>1. connect' = [connect EXCEPT ![c] = new]
      BY <1>0, <2>2 DEF ClientLeaves
    <3>2. connect[c].pc # "new"
      BY <2>2 DEF ClientLeaves, Inv, ConnInv
    <3>3. CallMoves(connect[c], new)
      BY <1>1, <2>2, <3>2 DEF CallMoves, ConnType, ConnectPcs
    <3>4. QED
      BY <3>1, <3>3
  <2>3. CASE Goto(c, "verified") /\ tunnel.live /\ connect[c].key = tunnel.credential
    <3> DEFINE new == [connect[c] EXCEPT !.pc = "verified"]
    <3>1. connect' = [connect EXCEPT ![c] = new]
      BY <1>0, <2>3 DEF Goto
    <3>2. CallMoves(connect[c], new)
      BY <1>1, <2>3 DEF CallMoves, ConnType, ConnectPcs
    <3>3. QED
      BY <3>1, <3>2
  <2>4. CASE connect[c].pc = "accepted" /\ Goto(c, "serving")
    <3> DEFINE new == [connect[c] EXCEPT !.pc = "serving"]
    <3>1. connect' = [connect EXCEPT ![c] = new]
      BY <1>0, <2>4 DEF Goto
    <3>2. CallMoves(connect[c], new)
      BY <1>1, <2>4 DEF CallMoves, ConnType, ConnectPcs
    <3>3. QED
      BY <3>1, <3>2
  <2>5. CASE connect[c].pc = "verified" /\ connect[c].tracked
             /\ connect' = [connect EXCEPT ![c].pc = "accepted", ![c].conn = "open"]
    <3> DEFINE new == [connect[c] EXCEPT !.pc = "accepted", !.conn = "open"]
    <3>1. connect' = [connect EXCEPT ![c] = new]
      BY <1>0, <2>5
    <3>2. CallMoves(connect[c], new)
      BY <1>1, <2>5 DEF CallMoves, ConnType, ConnectPcs
    <3>3. QED
      BY <3>1, <3>2
  <2>6. QED
    BY <1>3, <2>1, <2>2, <2>3, <2>4, <2>5
<1>4. CASE ServeConnectStep(c)
  BY <1>0, <1>2, <1>3, <1>4 DEF ServeConnectStep, Verify, Hijack, mesh
<1>5. CASE OpenSession(c)
  BY <1>0, <1>2, <1>3, <1>5 DEF OpenSession
<1>6. CASE EndSession(c)
  BY <1>0, <1>2, <1>6 DEF EndSession
<1>7. QED
  BY <1>4, <1>5, <1>6

LEMMA CallKeepsInv ==
    ASSUME Inv, NEW c \in Conns,
           ServeConnectStep(c) \/ OpenSession(c) \/ EndSession(c)
    PROVE  Inv'
<1>0. TypeOK /\ ConnInv /\ AdminInv /\ HandsInv /\ OpenIsTracked /\ CutOff
  BY DEF Inv
<1>1. /\ UNCHANGED <<up, home, view, tunnel, admin, bridge, faults>>
      /\ session' \in [Sessions -> {"none", "live", "gone"}]
  BY CallSteps
<1>2. PICK new : connect' = [connect EXCEPT ![c] = new] /\ CallMoves(connect[c], new)
  BY CallSteps
<1>3. connect \in [Conns -> ConnType]
  BY <1>0 DEF TypeOK, ConnType
<1>4. connect'[c] = new /\ \A d \in Conns : d # c => connect'[d] = connect[d]
  BY <1>2, <1>3
<1>5. \A d \in Conns : Closing(d)' <=> Closing(d)
  BY <1>1 DEF Closing
<1>6. TypeOK'
  <2>1. connect' \in [Conns -> ConnType]
    BY <1>2, <1>3 DEF CallMoves
  <2>2. MeshTypeOK'
    BY <1>0, <1>1 DEF TypeOK, MeshTypeOK
  <2>3. QED
    BY <1>0, <1>1, <2>1, <2>2 DEF TypeOK, ConnType
<1>7. ConnInv'
  BY <1>0, <1>2, <1>4 DEF ConnInv, CallMoves
<1>8. AdminInv'
  BY <1>0, <1>1 DEF AdminInv, AdminKnows, Disconnecting, Replaced
<1>9. HandsInv'
  <2>1. \A a \in Admins : admin[a].local \subseteq Conns
    BY <1>0 DEF TypeOK
  <2>2. \A d \in Conns : connect'[d].key = connect[d].key
                         /\ (connect[d].pc # "new" => connect'[d].pc # "new")
    BY <1>2, <1>4 DEF CallMoves
  <2>3. QED
    BY <1>0, <1>1, <2>1, <2>2 DEF HandsInv
<1>10. OpenIsTracked'
  BY <1>0, <1>2, <1>4, <1>5 DEF OpenIsTracked, CallMoves
<1>11. CutOff'
  <2>1. ASSUME NEW a \in Admins, NEW d \in Conns,
               Disconnecting(a, {"closing", "remote", "done"}),
               home[d] = admin[a].at, connect'[d].key = admin[a].key
        PROVE  /\ connect'[d].pc = "verified" => ~ connect'[d].tracked
               /\ connect'[d].conn = "open" => Closing(d)
    <3>1. connect[d].key = admin[a].key
      BY <1>2, <1>4, <2>1 DEF CallMoves
    <3>2. /\ connect[d].pc = "verified" => ~ connect[d].tracked
          /\ connect[d].conn = "open" => Closing(d)
      BY <1>0, <2>1, <3>1 DEF CutOff
    <3>3. Replaced(a)
      BY <1>0, <2>1 DEF AdminInv, AdminKnows, Disconnecting
    <3>4. ~ (tunnel.live /\ connect[d].key = tunnel.credential)
      BY <1>0, <3>1, <3>3 DEF Replaced, TypeOK
    <3>5. CASE d = c
      BY <1>2, <1>4, <3>2, <3>4, <3>5 DEF CallMoves
    <3>6. CASE d # c
      BY <1>4, <3>2, <3>6
    <3>7. QED
      BY <3>5, <3>6
  <2>2. QED
    BY <1>1, <1>5, <2>1 DEF CutOff, Disconnecting
<1>12. QED
  BY <1>6, <1>7, <1>8, <1>9, <1>10, <1>11 DEF Inv

LEMMA AuthenticateKeepsInv ==
    ASSUME Inv, NEW c \in Conns, NEW r \in Replicas, AuthenticateRequest(c, r)
    PROVE  Inv'
<1>0. TypeOK /\ ConnInv /\ AdminInv /\ HandsInv /\ OpenIsTracked /\ CutOff
  BY DEF Inv
<1>1. /\ connect[c].pc = "new" /\ tunnel.live
      /\ home' = [home EXCEPT ![c] = r]
      /\ connect' = [connect EXCEPT ![c].pc = "arrived", ![c].key = tunnel.credential]
      /\ UNCHANGED <<up, session, view, tunnel, admin, bridge, faults>>
  BY DEF AuthenticateRequest
<1>2. /\ connect \in [Conns -> ConnType]
      /\ home \in [Conns -> Replicas \union {Nowhere}]
      /\ tunnel.credential \in Nat
  BY <1>0 DEF TypeOK, MeshTypeOK, ConnType, Conns
<1>3. /\ connect'[c] = [connect[c] EXCEPT !.pc = "arrived", !.key = tunnel.credential]
      /\ \A d \in Conns : d # c => connect'[d] = connect[d] /\ home'[d] = home[d]
  BY <1>1, <1>2
<1>4. /\ connect'[c].pc = "arrived" /\ connect'[c].key = tunnel.credential
      /\ ~ connect'[c].tracked /\ connect'[c].conn = "none"
  BY <1>0, <1>1, <1>2, <1>3 DEF ConnInv, ConnType
<1>5. \A d \in Conns : Closing(d)' <=> Closing(d)
  BY <1>1 DEF Closing
<1>6. TypeOK'
  <2>1. connect' \in [Conns -> ConnType]
    BY <1>1, <1>2 DEF ConnType, ConnectPcs
  <2>2. home' \in [Sessions -> Replicas \union {Nowhere}]
    BY <1>1, <1>2 DEF Conns
  <2>3. QED
    BY <1>0, <1>1, <2>1, <2>2 DEF TypeOK, MeshTypeOK, ConnType
<1>7. ConnInv'
  BY <1>0, <1>3, <1>4 DEF ConnInv
<1>8. AdminInv'
  BY <1>0, <1>1 DEF AdminInv, AdminKnows, Disconnecting, Replaced
<1>9. HandsInv'
  <2>1. \A a \in Admins : admin[a].local \subseteq Conns
    BY <1>0 DEF TypeOK
  <2>2. \A a \in Admins : c \notin admin[a].local
    BY <1>0, <1>1 DEF HandsInv
  <2>3. \A a \in Admins : \A d \in admin[a].local :
           connect'[d] = connect[d] /\ home'[d] = home[d]
    BY <1>3, <2>1, <2>2
  <2>4. admin' = admin
    BY <1>1
  <2>5. QED
    BY <1>0, <2>3, <2>4 DEF HandsInv
<1>10. OpenIsTracked'
  BY <1>0, <1>3, <1>4, <1>5 DEF OpenIsTracked
<1>11. CutOff'
  <2>1. ASSUME NEW a \in Admins, NEW d \in Conns
        PROVE  Disconnecting(a, {"closing", "remote", "done"})
               /\ home'[d] = admin[a].at /\ connect'[d].key = admin[a].key
               => /\ connect'[d].pc = "verified" => ~ connect'[d].tracked
                  /\ connect'[d].conn = "open" => Closing(d)
    <3>1. CASE d = c
      BY <1>4, <3>1
    <3>2. CASE d # c
      BY <1>0, <1>3, <3>2 DEF CutOff
    <3>3. QED
      BY <3>1, <3>2
  <2>2. QED
    BY <1>1, <1>5, <2>1 DEF CutOff, Disconnecting
<1>12. QED
  BY <1>6, <1>7, <1>8, <1>9, <1>10, <1>11 DEF Inv

-----------------------------------------------------------------------------
(* The steps of an administrator's request before it disconnects anybody. *)

AdminType == [pc : AdminPcs, op : AdminOps, at : Replicas \union {Nowhere}, key : Nat,
              version : Nat, local : SUBSET Conns]
TunnelType == [live : BOOLEAN, credential : Nat \ {0}, version : Nat \ {0}]

\* The tunnel only moves on.
Onward ==
    /\ tunnel' \in TunnelType
    /\ tunnel'.live => tunnel.live
    /\ tunnel'.credential >= tunnel.credential /\ tunnel'.version >= tunnel.version
    /\ tunnel'.version = tunnel.version => tunnel'.credential = tunnel.credential

LEMMA AnsweredRecord ==
    /\ [NewAdmin EXCEPT !.pc = "answered"] \in AdminType
    /\ [NewAdmin EXCEPT !.pc = "answered"].pc = "answered"
    /\ [NewAdmin EXCEPT !.pc = "answered"].op = "none"
    /\ [NewAdmin EXCEPT !.pc = "answered"].local = {}
BY DEF NewAdmin, AdminType, AdminPcs, AdminOps, All

\* A step of a that leaves it outside of DisconnectCredential, or about to
\* begin it, and every connection as it is.
LEMMA AdminStepKeepsInv ==
    ASSUME Inv, NEW a \in Admins, NEW new \in AdminType,
           admin' = [admin EXCEPT ![a] = new],
           admin[a].pc # "closing",
           new.pc \in {"read", "local", "answered"},
           AdminKnows(a)', Onward,
           UNCHANGED <<mesh, connect, bridge, faults>>
    PROVE  Inv'
<1>0. TypeOK /\ ConnInv /\ AdminInv /\ HandsInv /\ OpenIsTracked /\ CutOff
  BY DEF Inv
<1>1. admin \in [Admins -> AdminType] /\ tunnel \in TunnelType
  BY <1>0 DEF TypeOK, AdminType, TunnelType
<1>2. admin'[a] = new /\ \A x \in Admins : x # a => admin'[x] = admin[x]
  BY <1>1
<1>3. UNCHANGED <<up, home, session, view, connect, bridge, faults>>
  BY DEF mesh
<1>4. \A d \in Conns : Closing(d)' <=> Closing(d)
  BY <1>2 DEF Closing
<1>5. TypeOK'
  <2>1. admin' \in [Admins -> AdminType]
    BY <1>1
  <2>2. QED
    BY <1>0, <1>3, <2>1 DEF TypeOK, MeshTypeOK, AdminType, Onward, TunnelType
<1>6. ConnInv'
  BY <1>0, <1>3 DEF ConnInv
<1>7. AdminInv'
  <2>1. ASSUME NEW x \in Admins, x # a
        PROVE  AdminKnows(x)'
    <3>1. AdminKnows(x) /\ admin'[x] = admin[x] /\ admin[x] \in AdminType
      BY <1>0, <1>1, <1>2, <2>1 DEF AdminInv
    <3>2. Replaced(x) => Replaced(x)'
      BY <1>1, <3>1 DEF Replaced, Onward, AdminType, TunnelType
    <3>3. admin[x].version <= tunnel.version => admin[x].version <= tunnel'.version
      BY <1>1, <3>1 DEF Onward, AdminType, TunnelType
    <3>4. admin[x].version <= tunnel.version /\ admin[x].version = tunnel'.version
             => tunnel'.credential = tunnel.credential /\ admin[x].version = tunnel.version
      BY <1>1, <3>1 DEF Onward, AdminType, TunnelType
    <3>5. QED
      BY <3>1, <3>2, <3>3, <3>4 DEF AdminKnows, Disconnecting
  <2>2. QED
    BY <2>1 DEF AdminInv
<1>8. HandsInv'
  <2>1. new.local = {}
    BY <1>2 DEF AdminKnows
  <2>2. QED
    BY <1>0, <1>2, <1>3, <2>1 DEF HandsInv
<1>9. OpenIsTracked'
  BY <1>0, <1>3, <1>4 DEF OpenIsTracked
<1>10. CutOff'
  BY <1>0, <1>2, <1>3, <1>4 DEF CutOff, Disconnecting
<1>11. QED
  BY <1>5, <1>6, <1>7, <1>8, <1>9, <1>10 DEF Inv

LEMMA AdminReadsKeepsInv ==
    ASSUME Inv, NEW a \in Admins, NEW r \in Replicas,
           NEW op \in {"rotate", "delete", "update"}, AdminReads(a, r, op)
    PROVE  Inv'
<1> DEFINE new == [admin[a] EXCEPT !.pc = "read", !.op = op, !.at = r,
                       !.key = tunnel.credential, !.version = tunnel.version]
<1>1. admin \in [Admins -> AdminType] /\ tunnel \in TunnelType
  BY DEF Inv, TypeOK, AdminType, TunnelType
<1>2. /\ admin[a].pc = "new"
      /\ admin' = [admin EXCEPT ![a] = new]
      /\ UNCHANGED <<mesh, tunnel, connect, bridge, faults>>
  BY DEF AdminReads
<1>3. new \in AdminType /\ new.pc = "read"
  BY <1>1 DEF AdminType, TunnelType, AdminPcs, AdminOps
<1>4. Onward
  BY <1>1, <1>2 DEF Onward, TunnelType
<1>5. admin[a].local = {}
  BY <1>2 DEF Inv, AdminInv, AdminKnows
<1>6. AdminKnows(a)'
  <2>1. /\ admin'[a] = new /\ new.local = {} /\ new.op = op
        /\ new.key = tunnel.credential /\ new.version = tunnel.version
    BY <1>1, <1>2, <1>5 DEF AdminType
  <2>2. QED
    BY <1>1, <1>2, <1>3, <2>1 DEF AdminKnows, Disconnecting, TunnelType, All
<1>7. QED
  BY <1>2, <1>3, <1>4, <1>6, AdminStepKeepsInv

LEMMA CloseAllKeepsInv ==
    ASSUME Inv, NEW a \in Admins, NEW r \in Replicas, CloseAll(a, r)
    PROVE  Inv'
<1> DEFINE new == [admin[a] EXCEPT !.pc = "local", !.op = "close", !.at = r]
<1>1. admin \in [Admins -> AdminType] /\ tunnel \in TunnelType
  BY DEF Inv, TypeOK, AdminType, TunnelType
<1>2. /\ admin[a].pc = "new"
      /\ admin' = [admin EXCEPT ![a] = new]
      /\ UNCHANGED <<mesh, tunnel, connect, bridge, faults>>
  BY DEF CloseAll
<1>3. new \in AdminType /\ new.pc = "local"
  BY <1>1 DEF AdminType, AdminPcs, AdminOps
<1>4. Onward
  BY <1>1, <1>2 DEF Onward, TunnelType
<1>5. admin[a].local = {}
  BY <1>2 DEF Inv, AdminInv, AdminKnows
<1>6. AdminKnows(a)'
  <2>1. admin'[a] = new /\ new.local = {} /\ new.op = "close"
    BY <1>1, <1>2, <1>5 DEF AdminType
  <2>2. QED
    BY <1>3, <2>1 DEF AdminKnows, Disconnecting
<1>7. QED
  BY <1>2, <1>3, <1>4, <1>6, AdminStepKeepsInv

\* The store moves on, and a request that goes on to disconnect has replaced
\* its credential or deleted the tunnel.
LEMMA AdminWritesKeepsInv ==
    ASSUME Inv, NEW a \in Admins, AdminWrites(a)
    PROVE  Inv' /\ Onward
<1> DEFINE gone == [NewAdmin EXCEPT !.pc = "answered"]
<1> DEFINE new == [admin[a] EXCEPT !.pc = "local", !.version = 0]
<1>1. admin \in [Admins -> AdminType] /\ tunnel \in TunnelType /\ admin[a] \in AdminType
  BY DEF Inv, TypeOK, AdminType, TunnelType
<1>2. admin[a].pc = "read" /\ UNCHANGED <<mesh, connect, bridge, faults>>
  BY DEF AdminWrites
<1>3. /\ admin[a].local = {}
      /\ admin[a].op \in {"rotate", "delete", "update"} => admin[a].key # All
      /\ admin[a].version = tunnel.version => admin[a].key = tunnel.credential
  BY <1>2 DEF Inv, AdminInv, AdminKnows
<1>4. ASSUME Answered(a), Onward
      PROVE  Inv' /\ Onward
  <2>1. admin' = [admin EXCEPT ![a] = gone]
    BY <1>4 DEF Answered
  <2>2. admin'[a] = gone
    BY <1>1, <2>1
  <2>3. AdminKnows(a)'
    BY <2>2, AnsweredRecord DEF AdminKnows, Disconnecting
  <2>4. QED
    BY <1>2, <1>4, <2>1, <2>3, AnsweredRecord, AdminStepKeepsInv
<1>5. ASSUME AdminGoto(a, "local"), Onward, admin[a].op \in {"rotate", "delete"},
             ~ tunnel'.live \/ admin[a].key < tunnel'.credential
      PROVE  Inv' /\ Onward
  <2>1. admin' = [admin EXCEPT ![a] = new]
    BY <1>1, <1>5 DEF AdminGoto
  <2>2. new \in AdminType /\ new.pc = "local"
    BY <1>1 DEF AdminType, AdminPcs
  <2>3. /\ admin'[a] = new /\ new.local = {} /\ new.op = admin[a].op
        /\ new.key = admin[a].key
    BY <1>1, <1>3, <2>1 DEF AdminType
  <2>4. AdminKnows(a)'
    BY <1>3, <1>5, <2>2, <2>3 DEF AdminKnows, Disconnecting, Replaced
  <2>5. QED
    BY <1>2, <1>5, <2>1, <2>2, <2>4, AdminStepKeepsInv
<1>6. CASE Conflict(a)
  <2>1. Onward
    BY <1>1, <1>6 DEF Conflict, Onward, TunnelType
  <2>2. QED
    BY <1>4, <1>6, <2>1 DEF Conflict
<1>7. CASE RotateSecret(a) /\ ~ Conflict(a)
  <2>1. /\ admin[a].op = "rotate" /\ Current(a) /\ AdminGoto(a, "local")
        /\ tunnel' = [tunnel EXCEPT !.credential = @ + 1, !.version = @ + 1]
    BY <1>7 DEF RotateSecret
  <2>2. /\ tunnel'.credential = tunnel.credential + 1
        /\ tunnel'.version = tunnel.version + 1
        /\ tunnel'.live => tunnel.live
        /\ tunnel' \in TunnelType
    <3>1. tunnel.live \in BOOLEAN /\ tunnel.credential \in Nat /\ tunnel.version \in Nat
      BY <1>1 DEF TunnelType
    <3>2. tunnel' = [live |-> tunnel.live, credential |-> tunnel.credential + 1,
                     version |-> tunnel.version + 1]
      BY <1>1, <2>1 DEF TunnelType
    <3>3. QED
      BY <3>1, <3>2 DEF TunnelType
  <2>3. tunnel.credential \in Nat /\ tunnel.version \in Nat /\ admin[a].key \in Nat
    BY <1>1 DEF TunnelType, AdminType
  <2>4. Onward
    BY <2>2, <2>3 DEF Onward
  <2>5. admin[a].key < tunnel'.credential
    BY <1>3, <2>1, <2>2, <2>3 DEF Current
  <2>6. QED
    BY <1>5, <2>1, <2>4, <2>5
<1>8. CASE Update(a) /\ ~ Conflict(a)
  <2>1. /\ Current(a) /\ Answered(a)
        /\ tunnel' = [tunnel EXCEPT !.credential = admin[a].key, !.version = @ + 1]
    BY <1>8 DEF Update
  <2>2. admin[a].key = tunnel.credential
    BY <1>3, <2>1 DEF Current
  <2>3. /\ tunnel'.credential = tunnel.credential
        /\ tunnel'.version = tunnel.version + 1
        /\ tunnel'.live => tunnel.live
        /\ tunnel' \in TunnelType
    <3>1. tunnel.live \in BOOLEAN /\ tunnel.credential \in Nat \ {0} /\ tunnel.version \in Nat
      BY <1>1 DEF TunnelType
    <3>2. tunnel' = [live |-> tunnel.live, credential |-> tunnel.credential,
                     version |-> tunnel.version + 1]
      BY <1>1, <2>1, <2>2 DEF TunnelType
    <3>3. QED
      BY <3>1, <3>2 DEF TunnelType
  <2>4. tunnel.credential \in Nat /\ tunnel.version \in Nat
    BY <1>1 DEF TunnelType
  <2>5. Onward
    BY <2>3, <2>4 DEF Onward
  <2>6. QED
    BY <1>4, <2>1, <2>5
<1>9. CASE Delete(a)
  <2>1. /\ admin[a].op = "delete" /\ AdminGoto(a, "local")
        /\ tunnel' = [tunnel EXCEPT !.live = FALSE]
    BY <1>9 DEF Delete
  <2>2. /\ tunnel'.credential = tunnel.credential
        /\ tunnel'.version = tunnel.version /\ ~ tunnel'.live
        /\ tunnel' \in TunnelType
    BY <1>1, <2>1 DEF TunnelType
  <2>3. Onward
    BY <1>1, <2>2 DEF Onward, TunnelType
  <2>4. QED
    BY <1>5, <2>1, <2>2, <2>3
<1>10. QED
  BY <1>6, <1>7, <1>8, <1>9 DEF AdminWrites

-----------------------------------------------------------------------------
(* DisconnectCredential *)

\* A step of a from one stage of DisconnectCredential to a later one, which
\* has no connection in its hands, or an answer.
LEMMA LaterStageKeepsInv ==
    ASSUME Inv, NEW a \in Admins, NEW new \in AdminType,
           admin' = [admin EXCEPT ![a] = new],
           admin[a].pc \in {"closing", "remote"}, admin[a].local = {}, new.local = {},
           \/ /\ new.pc \in {"remote", "done"} /\ new.op = admin[a].op
              /\ new.key = admin[a].key /\ new.at = admin[a].at
           \/ new.pc = "answered" /\ new.op = "none",
           UNCHANGED <<mesh, tunnel, connect, bridge, faults>>
    PROVE  Inv'
<1>0. TypeOK /\ ConnInv /\ AdminInv /\ HandsInv /\ OpenIsTracked /\ CutOff
  BY DEF Inv
<1>1. admin \in [Admins -> AdminType]
  BY <1>0 DEF TypeOK, AdminType
<1>2. admin'[a] = new /\ \A x \in Admins : x # a => admin'[x] = admin[x]
  BY <1>1
<1>3. UNCHANGED <<up, home, session, view, tunnel, connect, bridge, faults>>
  BY DEF mesh
<1>4. \A d \in Conns : Closing(d)' <=> Closing(d)
  BY <1>2 DEF Closing
<1>5. TypeOK'
  <2>1. admin' \in [Admins -> AdminType]
    BY <1>1
  <2>2. QED
    BY <1>0, <1>3, <2>1 DEF TypeOK, MeshTypeOK, AdminType
<1>6. ConnInv'
  BY <1>0, <1>3 DEF ConnInv
<1>7. AdminInv'
  <2>1. AdminKnows(a)'
    BY <1>0, <1>2, <1>3 DEF AdminInv, AdminKnows, Disconnecting, Replaced
  <2>2. \A x \in Admins : x # a => AdminKnows(x)'
    BY <1>0, <1>2, <1>3 DEF AdminInv, AdminKnows, Disconnecting, Replaced
  <2>3. QED
    BY <2>1, <2>2 DEF AdminInv
<1>8. HandsInv'
  BY <1>0, <1>2, <1>3 DEF HandsInv
<1>9. OpenIsTracked'
  BY <1>0, <1>3, <1>4 DEF OpenIsTracked
<1>10. CutOff'
  <2>1. ASSUME NEW x \in Admins, Disconnecting(x, {"closing", "remote", "done"})'
        PROVE  /\ Disconnecting(x, {"closing", "remote", "done"})
               /\ admin'[x].at = admin[x].at /\ admin'[x].key = admin[x].key
    BY <1>2, <2>1 DEF Disconnecting
  <2>2. QED
    BY <1>0, <1>3, <1>4, <2>1 DEF CutOff
<1>11. QED
  BY <1>5, <1>6, <1>7, <1>8, <1>9, <1>10 DEF Inv

LEMMA DisconnectLocalKeepsInv ==
    ASSUME Inv, NEW a \in Admins, DisconnectLocal(a),
           UNCHANGED <<mesh, tunnel, bridge, faults>>
    PROVE  Inv'
<1> DEFINE taken == {c \in Matching(a) : connect[c].conn # "none"}
<1>0. TypeOK /\ ConnInv /\ AdminInv /\ HandsInv /\ OpenIsTracked /\ CutOff
  BY DEF Inv
<1>1. /\ connect \in [Conns -> ConnType] /\ admin \in [Admins -> AdminType]
      /\ Matching(a) \subseteq Conns
  BY <1>0 DEF TypeOK, ConnType, AdminType, Matching
<1>2. /\ admin[a].pc = "local"
      /\ connect' = [c \in Conns |-> [connect[c] EXCEPT !.tracked = @ /\ c \notin Matching(a)]]
      /\ admin' = [admin EXCEPT ![a].pc = "closing", ![a].local = taken]
  BY DEF DisconnectLocal
<1>3. UNCHANGED <<up, home, session, view, tunnel, bridge, faults>>
  BY DEF mesh
<1>4. ASSUME NEW c \in Conns
      PROVE  /\ connect'[c] \in ConnType
             /\ connect'[c].pc = connect[c].pc /\ connect'[c].key = connect[c].key
             /\ connect'[c].conn = connect[c].conn
             /\ connect'[c].tracked <=> (connect[c].tracked /\ c \notin Matching(a))
  BY <1>1, <1>2 DEF ConnType
<1>5. /\ admin'[a] \in AdminType
      /\ admin'[a].pc = "closing" /\ admin'[a].local = taken
      /\ admin'[a].op = admin[a].op /\ admin'[a].at = admin[a].at
      /\ admin'[a].key = admin[a].key /\ admin'[a].version = admin[a].version
      /\ \A x \in Admins : x # a => admin'[x] = admin[x]
  BY <1>1, <1>2 DEF AdminType, AdminPcs
<1>6. \A c \in Conns : Closing(c) => Closing(c)'
  BY <1>2, <1>5 DEF Closing
<1>7. \A c \in taken : Closing(c)'
  BY <1>5 DEF Closing
<1>8. TypeOK'
  <2>1. connect' \in [Conns -> ConnType]
    BY <1>2, <1>4
  <2>2. admin' \in [Admins -> AdminType]
    BY <1>1, <1>2, <1>5
  <2>3. QED
    BY <1>0, <1>3, <2>1, <2>2 DEF TypeOK, MeshTypeOK, ConnType, AdminType
<1>9. ConnInv'
  BY <1>0, <1>3, <1>4 DEF ConnInv
<1>10. AdminInv'
  <2>1. AdminKnows(a)'
    BY <1>0, <1>2, <1>3, <1>5 DEF AdminInv, AdminKnows, Disconnecting, Replaced
  <2>2. \A x \in Admins : x # a => AdminKnows(x)'
    BY <1>0, <1>3, <1>5 DEF AdminInv, AdminKnows, Disconnecting, Replaced
  <2>3. QED
    BY <2>1, <2>2 DEF AdminInv
<1>11. HandsInv'
  <2>1. ASSUME NEW c \in taken
        PROVE  /\ connect[c].pc # "new" /\ home[c] = admin[a].at
               /\ admin[a].op = "close" \/ connect[c].key = admin[a].key
    <3>1. connect[c].pc # "new"
      BY <1>0, <1>1 DEF ConnInv
    <3>2. home[c] = admin[a].at /\ admin[a].key \in {All, connect[c].key}
      BY DEF Matching
    <3>3. admin[a].op = "close" \/ admin[a].key # All
      BY <1>0, <1>2 DEF AdminInv, AdminKnows
    <3>4. QED
      BY <3>1, <3>2, <3>3
  <2>2. \A x \in Admins : admin[x].local \subseteq Conns
    BY <1>0 DEF TypeOK
  <2>3. ASSUME NEW x \in Admins, NEW c \in admin'[x].local
        PROVE  /\ connect'[c].pc # "new" /\ home[c] = admin'[x].at
               /\ admin'[x].op = "close" \/ connect'[c].key = admin'[x].key
    <3>1. CASE x = a
      BY <1>1, <1>4, <1>5, <2>1, <2>3, <3>1
    <3>2. CASE x # a
      <4>1. c \in admin[x].local /\ c \in Conns
        BY <1>5, <2>2, <2>3, <3>2
      <4>2. QED
        BY <1>0, <1>4, <1>5, <3>2, <4>1 DEF HandsInv
    <3>3. QED
      BY <3>1, <3>2
  <2>4. QED
    BY <1>3, <2>3 DEF HandsInv
<1>12. OpenIsTracked'
  <2>1. ASSUME NEW c \in Conns, connect[c].conn = "open"
        PROVE  connect'[c].tracked \/ Closing(c)'
    <3>1. CASE c \in Matching(a)
      BY <1>7, <2>1, <3>1
    <3>2. CASE c \notin Matching(a)
      BY <1>0, <1>4, <1>6, <2>1, <3>2 DEF OpenIsTracked
    <3>3. QED
      BY <3>1, <3>2
  <2>2. QED
    BY <1>4, <2>1 DEF OpenIsTracked
<1>13. CutOff'
  <2>1. ASSUME NEW x \in Admins, NEW c \in Conns,
               Disconnecting(x, {"closing", "remote", "done"})',
               home[c] = admin'[x].at, connect[c].key = admin'[x].key
        PROVE  /\ connect[c].pc = "verified" => ~ connect'[c].tracked
               /\ connect[c].conn = "open" => Closing(c)'
    <3>1. CASE x = a
      <4>1. connect[c].tracked => c \in Matching(a)
        BY <1>5, <2>1, <3>1 DEF Matching
      <4>2. ~ connect'[c].tracked
        BY <1>4, <4>1
      <4>3. QED
        BY <1>4, <1>12, <4>2 DEF OpenIsTracked
    <3>2. CASE x # a
      <4>1. /\ Disconnecting(x, {"closing", "remote", "done"})
            /\ home[c] = admin[x].at /\ connect[c].key = admin[x].key
        BY <1>5, <2>1, <3>2 DEF Disconnecting
      <4>2. QED
        BY <1>0, <1>4, <1>6, <4>1 DEF CutOff
    <3>3. QED
      BY <3>1, <3>2
  <2>2. QED
    BY <1>3, <1>4, <2>1 DEF CutOff
<1>14. QED
  BY <1>8, <1>9, <1>10, <1>11, <1>12, <1>13 DEF Inv

\* One connection is closed, by an administrator's request that has it in its
\* hands or by the client that was told to disconnect.
LEMMA CloseOneKeepsInv ==
    ASSUME Inv, NEW a \in Admins, NEW c \in Conns,
           connect[c].pc # "new",
           connect' = [connect EXCEPT ![c].conn = "closed"],
           UNCHANGED admin \/ (/\ admin[a].pc = "closing"
                               /\ admin' = [admin EXCEPT ![a].local = @ \ {c}]),
           UNCHANGED <<mesh, tunnel, bridge, faults>>
    PROVE  Inv'
<1>0. TypeOK /\ ConnInv /\ AdminInv /\ HandsInv /\ OpenIsTracked /\ CutOff
  BY DEF Inv
<1>1. connect \in [Conns -> ConnType] /\ admin \in [Admins -> AdminType]
  BY <1>0 DEF TypeOK, ConnType, AdminType
<1>2. UNCHANGED <<up, home, session, view, tunnel, bridge, faults>>
  BY DEF mesh
<1>3. /\ connect' \in [Conns -> ConnType] /\ connect'[c].conn = "closed"
      /\ connect'[c].pc = connect[c].pc /\ connect'[c].key = connect[c].key
      /\ connect'[c].tracked <=> connect[c].tracked
      /\ \A d \in Conns : d # c => connect'[d] = connect[d]
  BY <1>1 DEF ConnType
<1>4. ASSUME NEW x \in Admins
      PROVE  /\ admin'[x] \in AdminType
             /\ admin'[x].pc = admin[x].pc /\ admin'[x].op = admin[x].op
             /\ admin'[x].at = admin[x].at /\ admin'[x].key = admin[x].key
             /\ admin'[x].version = admin[x].version
             /\ admin'[x].local = admin[x].local
                   \/ (admin[x].pc = "closing" /\ admin'[x].local = admin[x].local \ {c})
  BY <1>1 DEF AdminType
<1>5. \A d \in Conns : d # c /\ Closing(d) => Closing(d)'
  BY <1>4 DEF Closing
<1>6. TypeOK'
  <2>1. admin' \in [Admins -> AdminType]
    BY <1>1, <1>4
  <2>2. QED
    BY <1>0, <1>2, <1>3, <2>1 DEF TypeOK, MeshTypeOK, ConnType, AdminType
<1>7. ConnInv'
  BY <1>0, <1>2, <1>3 DEF ConnInv
<1>8. AdminInv'
  BY <1>0, <1>2, <1>4 DEF AdminInv, AdminKnows, Disconnecting, Replaced
<1>9. HandsInv'
  <2>1. ASSUME NEW x \in Admins, NEW d \in admin'[x].local
        PROVE  /\ connect'[d].pc # "new" /\ home[d] = admin'[x].at
               /\ admin'[x].op = "close" \/ connect'[d].key = admin'[x].key
    <3>1. d \in admin[x].local /\ d \in Conns
      BY <1>1, <1>4, <2>1 DEF AdminType
    <3>2. connect'[d].pc = connect[d].pc /\ connect'[d].key = connect[d].key
      BY <1>3, <3>1
    <3>3. QED
      BY <1>0, <1>4, <3>1, <3>2 DEF HandsInv
  <2>2. QED
    BY <1>2, <2>1 DEF HandsInv
<1>10. OpenIsTracked'
  BY <1>0, <1>3, <1>5 DEF OpenIsTracked
<1>11. CutOff'
  <2>1. ASSUME NEW x \in Admins, NEW d \in Conns,
               Disconnecting(x, {"closing", "remote", "done"})',
               home[d] = admin'[x].at, connect'[d].key = admin'[x].key
        PROVE  /\ connect'[d].pc = "verified" => ~ connect'[d].tracked
               /\ connect'[d].conn = "open" => Closing(d)'
    <3>1. /\ Disconnecting(x, {"closing", "remote", "done"})
          /\ home[d] = admin[x].at /\ connect[d].key = admin[x].key
      BY <1>3, <1>4, <2>1 DEF Disconnecting
    <3>2. /\ connect[d].pc = "verified" => ~ connect[d].tracked
          /\ connect[d].conn = "open" => Closing(d)
      BY <1>0, <3>1 DEF CutOff
    <3>3. CASE d = c
      BY <1>3, <3>2, <3>3
    <3>4. CASE d # c
      BY <1>3, <1>5, <3>2, <3>4
    <3>5. QED
      BY <3>3, <3>4
  <2>2. QED
    BY <1>2, <2>1 DEF CutOff
<1>12. QED
  BY <1>6, <1>7, <1>8, <1>9, <1>10, <1>11 DEF Inv

LEMMA DisconnectKeepsInv ==
    ASSUME Inv, NEW a \in Admins, DisconnectCredential(a)
    PROVE  Inv'
<1>1. /\ admin \in [Admins -> AdminType] /\ admin[a] \in AdminType
      /\ \A x \in Admins : admin[x].local \subseteq Conns
  BY DEF Inv, TypeOK, AdminType
<1>2. UNCHANGED <<mesh, tunnel, bridge, faults>>
  BY DEF DisconnectCredential
<1>3. CASE DisconnectLocal(a)
  BY <1>2, <1>3, DisconnectLocalKeepsInv
<1>4. ASSUME NEW pc \in {"remote", "done"}, AdminGoto(a, pc), UNCHANGED connect,
             admin[a].pc \in {"closing", "remote"}, admin[a].local = {}
      PROVE  Inv'
  <2> DEFINE new == [admin[a] EXCEPT !.pc = pc, !.version = 0]
  <2>1. admin' = [admin EXCEPT ![a] = new]
    BY <1>1, <1>4 DEF AdminGoto
  <2>2. /\ new \in AdminType /\ new.pc = pc /\ new.op = admin[a].op /\ new.local = {}
        /\ new.key = admin[a].key /\ new.at = admin[a].at
    BY <1>1, <1>4 DEF AdminType, AdminPcs
  <2>3. QED
    BY <1>2, <1>4, <2>1, <2>2, LaterStageKeepsInv
<1>5. ASSUME admin[a].pc = "remote"
      PROVE  admin[a].local = {}
  BY <1>5 DEF Inv, AdminInv, AdminKnows
<1>6. CASE CloseLocal(a)
  <2>1. ASSUME NEW c \in admin[a].local,
               connect' = [connect EXCEPT ![c].conn = "closed"],
               admin' = [admin EXCEPT ![a].local = @ \ {c}]
        PROVE  Inv'
    <3>1. c \in Conns /\ connect[c].pc # "new" /\ admin[a].pc = "closing"
      BY <1>1, <1>6, <2>1 DEF Inv, HandsInv, CloseLocal
    <3>2. QED
      BY <1>2, <2>1, <3>1, CloseOneKeepsInv
  <2>2. ASSUME admin[a].local = {}, UNCHANGED connect,
               AdminGoto(a, IF admin[a].key = All THEN "done" ELSE "remote")
        PROVE  Inv'
    BY <1>4, <1>6, <2>2 DEF CloseLocal
  <2>3. QED
    BY <1>6, <2>1, <2>2 DEF CloseLocal
<1>7. CASE DisconnectRemote(a)
  <2>1. PICK c \in Conns : connect[c].conn = "open"
                           /\ connect' = [connect EXCEPT ![c].conn = "closed"]
    BY <1>7 DEF DisconnectRemote, Keyed
  <2>2. connect[c].pc # "new"
    BY <2>1 DEF Inv, ConnInv
  <2>3. UNCHANGED admin
    BY <1>7 DEF DisconnectRemote
  <2>4. QED
    BY <1>2, <2>1, <2>2, <2>3, CloseOneKeepsInv
<1>8. CASE DisconnectEnds(a)
  BY <1>4, <1>5, <1>8 DEF DisconnectEnds
<1>9. CASE DisconnectTimesOut(a)
  <2>1. /\ admin[a].pc = "remote" /\ UNCHANGED connect
        /\ admin' = [admin EXCEPT ![a] = [NewAdmin EXCEPT !.pc = "answered"]]
    BY <1>9 DEF DisconnectTimesOut, Answered
  <2>2. QED
    BY <1>2, <1>5, <2>1, AnsweredRecord, LaterStageKeepsInv
<1>10. QED
  BY <1>3, <1>6, <1>7, <1>8, <1>9 DEF DisconnectCredential

-----------------------------------------------------------------------------
(* Bridged requests, the mesh and crashes *)

BridgeType == [pc : {"new", "dial", "sent"}, at : Replicas \union {Nowhere},
               key : Nat, over : SUBSET Conns]

LEMMA NewBridgeRecord == NewBridge \in BridgeType /\ NewBridge.pc = "new"
BY DEF NewBridge, BridgeType, All

\* Steps that leave the connections, the administrators, the tunnel and where
\* the connections are as they are.
LEMMA QuietStep ==
    ASSUME Inv, TypeOK', UNCHANGED <<home, tunnel, connect, admin>>
    PROVE  Inv'
<1>0. ConnInv /\ AdminInv /\ HandsInv /\ OpenIsTracked /\ CutOff
  BY DEF Inv
<1>1. \A d : Closing(d)' <=> Closing(d)
  BY DEF Closing
<1>2. ConnInv' /\ HandsInv'
  BY <1>0 DEF ConnInv, HandsInv
<1>3. AdminInv'
  BY <1>0 DEF AdminInv, AdminKnows, Disconnecting, Replaced
<1>4. OpenIsTracked'
  BY <1>0, <1>1 DEF OpenIsTracked
<1>5. CutOff'
  BY <1>0, <1>1 DEF CutOff, Disconnecting
<1>6. QED
  BY <1>2, <1>3, <1>4, <1>5 DEF Inv

LEMMA BridgeKeepsInv ==
    ASSUME Inv, NEW b \in Bridges,
           (\E r \in Replicas : BridgeReads(b, r)) \/ BridgeDials(b)
    PROVE  Inv'
<1>0. TypeOK
  BY DEF Inv
<1>1. UNCHANGED <<up, home, session, view, tunnel, connect, admin, faults>>
  BY DEF BridgeReads, BridgeDials, mesh
<1>2. bridge \in [Bridges -> BridgeType]
  BY <1>0 DEF TypeOK, BridgeType
<1>3. PICK new \in BridgeType : bridge' = [bridge EXCEPT ![b] = new]
  <2>1. ASSUME NEW r \in Replicas, BridgeReads(b, r)
        PROVE  \E new \in BridgeType : bridge' = [bridge EXCEPT ![b] = new]
    <3> DEFINE new == [pc |-> "dial", at |-> r, key |-> tunnel.credential, over |-> {}]
    <3>1. bridge' = [bridge EXCEPT ![b] = new]
      BY <2>1 DEF BridgeReads
    <3>2. new \in BridgeType
      BY <1>0 DEF TypeOK, BridgeType
    <3>3. QED
      BY <3>1, <3>2
  <2>2. CASE BridgeDials(b)
    <3>1. CASE BridgeFails(b)
      BY <3>1, NewBridgeRecord DEF BridgeFails
    <3>2. ASSUME NEW c \in Dialable(b),
                 bridge' = [bridge EXCEPT ![b].pc = "sent", ![b].over = {c}]
          PROVE  \E new \in BridgeType : bridge' = [bridge EXCEPT ![b] = new]
      <4> DEFINE new == [bridge[b] EXCEPT !.pc = "sent", !.over = {c}]
      <4>1. bridge' = [bridge EXCEPT ![b] = new]
        BY <1>2, <3>2
      <4>2. {c} \in SUBSET Conns
        BY <3>2 DEF Dialable, Keyed
      <4>3. new \in BridgeType
        BY <1>2, <4>2 DEF BridgeType
      <4>4. QED
        BY <4>1, <4>3
    <3>3. QED
      BY <2>2, <3>1, <3>2 DEF BridgeDials
  <2>3. QED
    BY <2>1, <2>2
<1>4. bridge' \in [Bridges -> BridgeType]
  BY <1>2, <1>3
<1>5. TypeOK'
  BY <1>0, <1>1, <1>4 DEF TypeOK, MeshTypeOK, BridgeType
<1>6. QED
  BY <1>1, <1>5, QuietStep

ViewType == [Replicas -> [Sessions -> {"unheard", "heard", "forgotten"}]]

LEMMA DroppedType ==
    ASSUME NEW v \in [Sessions -> {"unheard", "heard", "forgotten"}], NEW from
    PROVE  Dropped(v, from) \in [Sessions -> {"unheard", "heard", "forgotten"}]
BY DEF Dropped

LEMMA MeshKeepsInv ==
    ASSUME Inv, MeshStep \/ MeshFails \/ \E r \in Replicas : Starts(r)
    PROVE  Inv'
<1>0. TypeOK
  BY DEF Inv
<1>1. view \in ViewType /\ up \in SUBSET Replicas
  BY <1>0 DEF TypeOK, MeshTypeOK, ViewType
<1>2. UNCHANGED <<home, session, tunnel, connect, admin, bridge>>
  BY DEF MeshStep, MeshFails, Starts, Hear, Forget, PeerDrops, Restart
<1>3. faults' \in Nat
  BY <1>0 DEF TypeOK, MeshStep, MeshFails, Starts, Fault
<1>4. up' \in SUBSET Replicas /\ view' \in ViewType
  <2>1. ASSUME NEW r \in Replicas, NEW c \in Conns, Hear(r, c) \/ Forget(r, c)
        PROVE  up' \in SUBSET Replicas /\ view' \in ViewType
    <3>1. UNCHANGED up /\ (See(r, c, "heard") \/ See(r, c, "forgotten")) /\ c \in Sessions
      BY <2>1 DEF Hear, Forget, Conns
    <3>2. QED
      BY <1>1, <3>1 DEF See, ViewType
  <2>2. ASSUME NEW r \in Replicas, NEW from \in Replicas, PeerDrops(r, from)
        PROVE  up' \in SUBSET Replicas /\ view' \in ViewType
    <3>1. view' = [view EXCEPT ![r] = Dropped(view[r], {from})] /\ UNCHANGED up
      BY <2>2 DEF PeerDrops
    <3>2. QED
      BY <1>1, <3>1, DroppedType DEF ViewType
  <2>3. ASSUME NEW r \in Replicas, Restart(r)
        PROVE  up' \in SUBSET Replicas /\ view' \in ViewType
    <3>1. view' = [view EXCEPT ![r] = Dropped(view[r], Replicas)] /\ up' = up \union {r}
      BY <2>3 DEF Restart
    <3>2. QED
      BY <1>1, <3>1, DroppedType DEF ViewType
  <2>4. QED
    BY <2>1, <2>2, <2>3 DEF MeshStep, MeshFails, Starts
<1>5. TypeOK'
  BY <1>0, <1>2, <1>3, <1>4 DEF TypeOK, MeshTypeOK, ViewType
<1>6. QED
  BY <1>2, <1>5, QuietStep

\* A crash closes the connections of its replica and ends the requests there,
\* and no request of another replica has one of its connections in its hands.
LEMMA CrashKeepsInv ==
    ASSUME Inv, NEW r \in Replicas, Crash(r)
    PROVE  Inv'
<1> DEFINE gone == [NewAdmin EXCEPT !.pc = "answered"]
<1>0. TypeOK /\ ConnInv /\ AdminInv /\ HandsInv /\ OpenIsTracked /\ CutOff
  BY DEF Inv
<1>1. /\ connect \in [Conns -> ConnType] /\ admin \in [Admins -> AdminType]
      /\ bridge \in [Bridges -> BridgeType] /\ MeshTypeOK
  BY <1>0 DEF TypeOK, ConnType, AdminType, BridgeType
<1>2. UNCHANGED <<home, tunnel>>
  BY DEF Crash, Stop
<1>3. ASSUME NEW c \in Conns
      PROVE  /\ connect'[c] \in ConnType /\ connect'[c].key = connect[c].key
             /\ home[c] # r => connect'[c] = connect[c]
             /\ home[c] = r => connect'[c].pc = "ended" /\ connect'[c].conn # "open"
  BY <1>1 DEF Crash, Ended, ConnType, ConnectPcs
<1>4. ASSUME NEW a \in Admins
      PROVE  /\ admin[a].at = r /\ admin[a].pc # "done" => admin'[a] = gone
             /\ ~ (admin[a].at = r /\ admin[a].pc # "done") => admin'[a] = admin[a]
  BY DEF Crash
<1>5. \A c \in Conns : home[c] # r /\ Closing(c) => Closing(c)'
  <2>1. ASSUME NEW c \in Conns, home[c] # r, NEW a \in Admins,
               admin[a].pc = "closing", c \in admin[a].local
        PROVE  admin'[a].pc = "closing" /\ c \in admin'[a].local
    <3>1. admin[a].at # r
      BY <1>0, <2>1 DEF HandsInv
    <3>2. QED
      BY <1>4, <2>1, <3>1
  <2>2. QED
    BY <2>1 DEF Closing
<1>6. TypeOK'
  <2>1. connect' \in [Conns -> ConnType]
    <3>1. connect' = [c \in Conns |-> IF home[c] = r THEN Ended(connect[c]) ELSE connect[c]]
      BY DEF Crash
    <3>2. QED
      BY <1>3, <3>1
  <2>2. admin' \in [Admins -> AdminType]
    <3>1. admin' = [a \in Admins |-> IF admin[a].at = r /\ admin[a].pc # "done"
                                     THEN gone ELSE admin[a]]
      BY DEF Crash
    <3>2. QED
      BY <1>1, <3>1, AnsweredRecord
  <2>3. bridge' \in [Bridges -> BridgeType]
    <3>1. bridge' = [b \in Bridges |-> IF bridge[b].at = r /\ bridge[b].pc = "dial"
                                       THEN NewBridge ELSE bridge[b]]
      BY DEF Crash
    <3>2. QED
      BY <1>1, <3>1, NewBridgeRecord
  <2>4. MeshTypeOK'
    BY <1>1 DEF Crash, Stop, MeshTypeOK
  <2>5. faults' \in Nat
    BY <1>0 DEF Crash, Fault, TypeOK
  <2>6. QED
    BY <1>0, <1>2, <2>1, <2>2, <2>3, <2>4, <2>5 DEF TypeOK, ConnType, AdminType, BridgeType
<1>7. ConnInv'
  BY <1>0, <1>3 DEF ConnInv
<1>8. AdminInv'
  <2>1. ASSUME NEW a \in Admins
        PROVE  AdminKnows(a)'
    <3>1. CASE admin'[a] = gone
      BY <3>1, AnsweredRecord DEF AdminKnows, Disconnecting
    <3>2. CASE admin'[a] = admin[a]
      BY <1>0, <1>2, <3>2 DEF AdminInv, AdminKnows, Disconnecting, Replaced
    <3>3. QED
      BY <1>4, <3>1, <3>2
  <2>2. QED
    BY <2>1 DEF AdminInv
<1>9. HandsInv'
  <2>1. ASSUME NEW a \in Admins, NEW c \in admin'[a].local
        PROVE  /\ connect'[c].pc # "new" /\ home[c] = admin'[a].at
               /\ admin'[a].op = "close" \/ connect'[c].key = admin'[a].key
    <3>1. admin'[a] = admin[a]
      BY <1>4, <2>1, AnsweredRecord
    <3>2. c \in admin[a].local /\ c \in Conns
      BY <1>1, <2>1, <3>1 DEF AdminType
    <3>3. connect[c].pc # "new" => connect'[c].pc # "new"
      BY <1>3, <3>2
    <3>4. QED
      BY <1>0, <1>3, <3>1, <3>2, <3>3 DEF HandsInv
  <2>2. QED
    BY <1>2, <2>1 DEF HandsInv
<1>10. OpenIsTracked'
  BY <1>0, <1>3, <1>5 DEF OpenIsTracked
<1>11. CutOff'
  <2>1. ASSUME NEW a \in Admins, NEW c \in Conns,
               Disconnecting(a, {"closing", "remote", "done"})',
               home[c] = admin'[a].at, connect'[c].key = admin'[a].key
        PROVE  /\ connect'[c].pc = "verified" => ~ connect'[c].tracked
               /\ connect'[c].conn = "open" => Closing(c)'
    <3>1. admin'[a] = admin[a]
      BY <1>4, <2>1, AnsweredRecord DEF Disconnecting
    <3>2. CASE home[c] = r
      BY <1>3, <3>2
    <3>3. CASE home[c] # r
      <4>1. connect'[c] = connect[c] /\ Disconnecting(a, {"closing", "remote", "done"})
        BY <1>3, <2>1, <3>1, <3>3 DEF Disconnecting
      <4>2. QED
        BY <1>0, <1>5, <2>1, <3>1, <3>3, <4>1 DEF CutOff
    <3>4. QED
      BY <3>2, <3>3
  <2>2. QED
    BY <1>2, <2>1 DEF CutOff
<1>12. QED
  BY <1>6, <1>7, <1>8, <1>9, <1>10, <1>11 DEF Inv

-----------------------------------------------------------------------------
LEMMA NextInv ==
    ASSUME Inv, [Next]_vars PROVE Inv'
<1>1. ASSUME NEW c \in Conns,
             \/ \E r \in Replicas : AuthenticateRequest(c, r)
             \/ ServeConnectStep(c) \/ OpenSession(c) \/ EndSession(c)
      PROVE  Inv'
  BY <1>1, AuthenticateKeepsInv, CallKeepsInv
<1>2. ASSUME NEW a \in Admins,
             \/ \E r \in Replicas : CloseAll(a, r)
             \/ \E r \in Replicas, op \in {"rotate", "delete", "update"} : AdminReads(a, r, op)
             \/ AdminWrites(a) \/ DisconnectCredential(a)
      PROVE  Inv'
  BY <1>2, CloseAllKeepsInv, AdminReadsKeepsInv, AdminWritesKeepsInv, DisconnectKeepsInv
<1>3. ASSUME NEW b \in Bridges, (\E r \in Replicas : BridgeReads(b, r)) \/ BridgeDials(b)
      PROVE  Inv'
  BY <1>3, BridgeKeepsInv
<1>4. CASE MeshStep \/ MeshFails \/ \E r \in Replicas : Starts(r)
  BY <1>4, MeshKeepsInv
<1>5. ASSUME NEW r \in Replicas, Crash(r)
      PROVE  Inv'
  BY <1>5, CrashKeepsInv
<1>6. CASE UNCHANGED vars
  <2>1. UNCHANGED <<up, home, session, view, tunnel, connect, admin, bridge, faults>>
    BY <1>6 DEF vars, mesh
  <2>2. TypeOK'
    BY <2>1 DEF Inv, TypeOK, MeshTypeOK
  <2>3. QED
    BY <2>1, <2>2, QuietStep
<1>7. QED
  BY <1>1, <1>2, <1>3, <1>4, <1>5, <1>6 DEF Next

LEMMA SpecInv == Spec => []Inv
<1>1. Init => Inv
  BY InitInv
<1>2. Inv /\ [Next]_vars => Inv'
  BY NextInv
<1>3. QED
  BY <1>1, <1>2, PTL DEF Spec

\* The manager's maps, the requests and the stored tunnel keep their types.
THEOREM TypeCorrect == Spec => []TypeOK
<1>1. Inv => TypeOK
  BY DEF Inv
<1>2. QED
  BY <1>1, SpecInv, PTL

\* Once a rotation or a deletion has closed its replica's connections, no
\* connection of its credential is or ever will be open there, at whatever
\* stage of ServeConnect it was, unless another call is just closing it.
THEOREM RotationCutsOff == Spec => []DisconnectedHere
<1>1. Inv => DisconnectedHere
  BY DEF Inv, DisconnectedHere, CutOff, Disconnecting
<1>2. QED
  BY <1>1, SpecInv, PTL

\* Every open connection is on the manager's map, or in the hands of a
\* DisconnectCredential that is about to close it.
THEOREM NoConnectionForgotten == Spec => []OpenIsTracked
<1>1. Inv => OpenIsTracked
  BY DEF Inv
<1>2. QED
  BY <1>1, SpecInv, PTL

\* No request is sent over a connection of a credential that was cut off at
\* the connection's replica, whatever the request read of the tunnel before:
\* what is still open there is in the hands of a call that closes it.
THEOREM NoTrafficAfterCutOff == Spec => TrafficCutOff
<1>1. ASSUME Inv, Next, NEW b \in Bridges, NEW a \in Admins, NEW c \in bridge'[b].over,
             bridge[b].pc = "dial", bridge'[b].pc = "sent",
             admin[a].pc \in {"remote", "done"}, admin[a].op \in {"rotate", "delete"},
             home[c] = admin[a].at, connect[c].key = admin[a].key
      PROVE  Closing(c)
  <2>1. bridge \in [Bridges -> BridgeType]
    BY <1>1 DEF Inv, TypeOK, BridgeType
  <2>2. ASSUME NEW x \in Bridges, NEW r \in Replicas, BridgeReads(x, r)
        PROVE  FALSE
    BY <1>1, <2>1, <2>2 DEF BridgeReads
  <2>3. ASSUME NEW r \in Replicas, Crash(r)
        PROVE  FALSE
    BY <1>1, <2>3 DEF Crash, NewBridge
  <2>4. bridge' # bridge
    BY <1>1
  <2>5. PICK x \in Bridges : BridgeDials(x)
    BY <1>1, <2>2, <2>3, <2>4 DEF Next, AuthenticateRequest, ServeConnectStep, OpenSession,
       EndSession, CloseAll, AdminReads, AdminWrites, DisconnectCredential, MeshStep,
       MeshFails, Starts
  <2>6. PICK d \in Dialable(x) :
            /\ connect[d].conn = "open"
            /\ bridge' = [bridge EXCEPT ![x].pc = "sent", ![x].over = {d}]
    <3>1. ~ BridgeFails(x)
      BY <1>1, <2>1 DEF BridgeFails, NewBridge
    <3>2. QED
      BY <2>5, <3>1 DEF BridgeDials
  <2>7. x = b
    BY <1>1, <2>1, <2>6
  <2>8. bridge'[b].over = {d}
    BY <2>1, <2>6, <2>7 DEF BridgeType
  <2>9. c = d /\ c \in Conns
    BY <1>1, <2>6, <2>8 DEF Dialable, Keyed
  <2>10. QED
    BY <1>1, <2>6, <2>9 DEF Inv, CutOff, Disconnecting
<1>2. ASSUME Inv, [Next]_vars
      PROVE  [\A b \in Bridges, a \in Admins : \A c \in bridge'[b].over :
                 /\ bridge[b].pc = "dial" /\ bridge'[b].pc = "sent"
                 /\ admin[a].pc \in {"remote", "done"} /\ admin[a].op \in {"rotate", "delete"}
                 /\ home[c] = admin[a].at /\ connect[c].key = admin[a].key
                 => Closing(c)]_vars
  BY <1>1, <1>2
<1>3. QED
  BY <1>2, SpecInv, PTL DEF Spec, TrafficCutOff

\* The stored credential never goes back to an earlier one, and a deleted
\* tunnel does not come back, although an edit writes back what it read.
THEOREM CredentialsAreFinal == Spec => CredentialNeverReturns
<1> DEFINE Forward == [/\ tunnel'.credential >= tunnel.credential
                       /\ tunnel'.live => tunnel.live]_tunnel
<1>1. Inv /\ [Next]_vars => Forward
  <2>1. SUFFICES ASSUME Inv, [Next]_vars, tunnel' # tunnel
                 PROVE  /\ tunnel'.credential >= tunnel.credential
                        /\ tunnel'.live => tunnel.live
    OBVIOUS
  <2>2. \E a \in Admins : AdminWrites(a)
    BY <2>1 DEF Next, vars, AuthenticateRequest, ServeConnectStep, OpenSession, EndSession,
       CloseAll, AdminReads, DisconnectCredential, BridgeReads, BridgeDials, MeshStep,
       MeshFails, Crash, Starts
  <2>3. Onward
    BY <2>1, <2>2, AdminWritesKeepsInv
  <2>4. QED
    BY <2>3 DEF Onward
<1>2. QED
  BY <1>1, SpecInv, PTL DEF Spec, CredentialNeverReturns
=============================================================================
