------------------------------- MODULE Tunnel -------------------------------
(***************************************************************************)
(* One MCP tunnel and its credential: clients that connect with it         *)
(* (tunnel_auth.go, Manager.ServeConnect), administrators who rotate the   *)
(* secret, edit or delete the tunnel (api/handlers/mcptunnel.go) and then  *)
(* disconnect the clients of the old credential                            *)
(* (Manager.DisconnectCredential), and requests bridged over a client's    *)
(* connection (Manager.ServeBridge).  The session key of a connection is a *)
(* digest of the tunnel and of the credential it was opened with; there is *)
(* one tunnel, so a key is a credential here, and credentials are numbered *)
(* in the order they are made.  Names of tunnels are generated, so one     *)
(* that was deleted does not come back.                                    *)
(***************************************************************************)
EXTENDS Naturals, PeerMesh

CONSTANTS
    Admins,     \* requests of administrators and the manager's shutdown
    Bridges,    \* bridged requests
    MaxFaults   \* bound on crashes and dropped peer connections

ASSUME MaxFaultsAssumption == MaxFaults \in Nat

Conns == Sessions
All == 0        \* the key of Disconnect and CloseAll: any credential

VARIABLES
    tunnel,     \* the stored MCPTunnel
    connect,    \* ServeConnect's calls
    admin, bridge, faults

vars == <<mesh, tunnel, connect, admin, bridge, faults>>

NewConnect == [pc |-> "new", key |-> All, tracked |-> FALSE, conn |-> "none"]
NewAdmin == [pc |-> "new", op |-> "none", at |-> Nowhere, key |-> All,
             version |-> 0, local |-> {}]
NewBridge == [pc |-> "new", at |-> Nowhere, key |-> All, over |-> {}]

ConnectPcs == {"new", "arrived", "registered", "verified", "accepted", "serving", "ended"}
AdminPcs == {"new", "read", "local", "closing", "remote", "done", "answered"}
AdminOps == {"none", "rotate", "delete", "update", "close"}

Init ==
    /\ up = Replicas
    /\ home = [c \in Conns |-> Nowhere]
    /\ session = [c \in Conns |-> "none"]
    /\ view = [r \in Replicas |-> [c \in Conns |-> "unheard"]]
    /\ tunnel = [live |-> TRUE, credential |-> 1, version |-> 1]
    /\ connect = [c \in Conns |-> NewConnect]
    /\ admin = [a \in Admins |-> NewAdmin]
    /\ bridge = [b \in Bridges |-> NewBridge]
    /\ faults = 0

-----------------------------------------------------------------------------
(* ServeConnect *)

Goto(c, pc) == connect' = [connect EXCEPT ![c].pc = pc]

\* The deferred function: the connection is no longer tracked, and closed.
Ended(call) ==
    [call EXCEPT !.pc = "ended", !.tracked = FALSE,
                 !.conn = IF @ = "open" THEN "closed" ELSE @]
Return(c) == connect' = [connect EXCEPT ![c] = Ended(@)]

\* TunnelAuthenticator finds the tunnel of the client's credential.
AuthenticateRequest(c, r) ==
    /\ connect[c].pc = "new" /\ r \in up /\ tunnel.live
    /\ home' = [home EXCEPT ![c] = r]
    /\ connect' = [connect EXCEPT ![c].pc = "arrived", ![c].key = tunnel.credential]
    /\ UNCHANGED <<up, session, view, tunnel, admin, bridge, faults>>

Register(c) ==
    /\ connect[c].pc = "arrived"
    /\ connect' = [connect EXCEPT ![c].pc = "registered", ![c].tracked = TRUE]

\* The tunnel is read again; it may be gone, another credential's, or
\* impossible to read.
Verify(c) ==
    /\ connect[c].pc = "registered"
    /\ \/ tunnel.live /\ connect[c].key = tunnel.credential /\ Goto(c, "verified")
       \/ Return(c)

\* onHijack without its look at the tracked connections.
HijackUntracked(c) ==
    /\ connect[c].pc = "verified"
    /\ \/ connect' = [connect EXCEPT ![c].pc = "accepted", ![c].conn = "open"]
       \/ Return(c)

\* remotedialer hijacks the request's connection, through onHijack.
Hijack(c) ==
    /\ connect[c].pc = "verified"
    /\ \/ /\ connect[c].tracked
          /\ connect' = [connect EXCEPT ![c].pc = "accepted", ![c].conn = "open"]
       \/ Return(c)

\* The client, or the network, ends the connection.
ClientLeaves(c) ==
    /\ connect[c].conn = "open"
    /\ connect' = [connect EXCEPT ![c].conn = "closed"]

ServeConnectStep(c) ==
    /\ home[c] \in up
    /\ Register(c) \/ Verify(c) \/ Hijack(c) \/ ClientLeaves(c)
    /\ UNCHANGED <<mesh, tunnel, admin, bridge, faults>>

\* remotedialer answers the upgrade and serves the session until it reads an
\* error from the connection, or the upgrade fails.
OpenSession(c) ==
    /\ connect[c].pc = "accepted" /\ home[c] \in up
    /\ \/ Goto(c, "serving") /\ session' = [session EXCEPT ![c] = "live"]
       \/ Return(c) /\ UNCHANGED session
    /\ UNCHANGED <<up, home, view, tunnel, admin, bridge, faults>>

EndSession(c) ==
    /\ connect[c].pc = "serving" /\ connect[c].conn = "closed" /\ home[c] \in up
    /\ Return(c)
    /\ session' = [session EXCEPT ![c] = "gone"]
    /\ UNCHANGED <<up, home, view, tunnel, admin, bridge, faults>>

-----------------------------------------------------------------------------
(* The administrators' requests *)

AdminGoto(a, pc) == admin' = [admin EXCEPT ![a].pc = pc, ![a].version = 0]
\* The request ends, and nothing is left to say of it.
Answered(a) == admin' = [admin EXCEPT ![a] = [NewAdmin EXCEPT !.pc = "answered"]]

\* Update, Delete and RotateSecret read the tunnel and note its credential.
AdminReads(a, r, op) ==
    /\ admin[a].pc = "new" /\ r \in up /\ tunnel.live
    /\ admin' = [admin EXCEPT ![a] = [@ EXCEPT !.pc = "read", !.op = op, !.at = r,
                        !.key = tunnel.credential, !.version = tunnel.version]]
    /\ UNCHANGED <<mesh, tunnel, connect, bridge, faults>>

\* A store that takes any update of a tunnel it has.
CurrentEnough(a) == tunnel.live

\* The store takes an update of the version it has.
Current(a) == tunnel.live /\ admin[a].version = tunnel.version

Conflict(a) == ~Current(a) /\ Answered(a) /\ UNCHANGED tunnel

\* A rotation that stores no credential.
RotateToNothing(a) ==
    /\ admin[a].op = "rotate" /\ Current(a)
    /\ tunnel' = [tunnel EXCEPT !.credential = All, !.version = @ + 1]
    /\ AdminGoto(a, "local")

RotateSecret(a) ==
    /\ admin[a].op = "rotate"
    /\ \/ /\ Current(a)
          /\ tunnel' = [tunnel EXCEPT !.credential = @ + 1, !.version = @ + 1]
          /\ AdminGoto(a, "local")
       \/ Conflict(a)

\* Update writes the whole tunnel back, the credential it read included.
Update(a) ==
    /\ admin[a].op = "update"
    /\ \/ /\ Current(a)
          /\ tunnel' = [tunnel EXCEPT !.credential = admin[a].key, !.version = @ + 1]
          /\ Answered(a)
       \/ Conflict(a)

\* Delete asks for no version, and a tunnel that is gone is as good.
Delete(a) ==
    /\ admin[a].op = "delete"
    /\ tunnel' = [tunnel EXCEPT !.live = FALSE]
    /\ AdminGoto(a, "local")

AdminWrites(a) ==
    /\ admin[a].pc = "read" /\ admin[a].at \in up
    /\ RotateSecret(a) \/ Update(a) \/ Delete(a)
    /\ UNCHANGED <<mesh, connect, bridge, faults>>

\* Close of the manager, whose CloseAll is DisconnectCredential of any key.
CloseAll(a, r) ==
    /\ admin[a].pc = "new" /\ r \in up
    /\ admin' = [admin EXCEPT ![a] = [@ EXCEPT !.pc = "local", !.op = "close", !.at = r]]
    /\ UNCHANGED <<mesh, tunnel, connect, bridge, faults>>

-----------------------------------------------------------------------------
(* DisconnectCredential *)

Keyed(key) == {c \in Conns : connect[c].key = key}

Matching(a) ==
    {c \in Conns : /\ connect[c].tracked /\ home[c] = admin[a].at
                   /\ admin[a].key \in {All, connect[c].key}}

\* The same, collecting what is hijacked but leaving the rest on the map.
DisconnectHijacked(a) ==
    /\ admin[a].pc = "local"
    /\ connect' = [c \in Conns |->
                      [connect[c] EXCEPT !.tracked = @ /\ ~(c \in Matching(a)
                                                            /\ connect[c].conn # "none")]]
    /\ admin' = [admin EXCEPT ![a].pc = "closing",
                    ![a].local = {c \in Matching(a) : connect[c].conn # "none"}]

\* Under the lock: the connections are forgotten, the open ones collected.
DisconnectLocal(a) ==
    /\ admin[a].pc = "local"
    /\ connect' = [c \in Conns |->
                      [connect[c] EXCEPT !.tracked = @ /\ c \notin Matching(a)]]
    /\ admin' = [admin EXCEPT ![a].pc = "closing",
                    ![a].local = {c \in Matching(a) : connect[c].conn # "none"}]

\* Mutant: the call goes on with connections left to close.
CloseLocalPartly(a) ==
    /\ admin[a].pc = "closing"
    /\ \/ \E c \in admin[a].local :
            /\ connect' = [connect EXCEPT ![c].conn = "closed"]
            /\ admin' = [admin EXCEPT ![a].local = @ \ {c}]
       \/ /\ AdminGoto(a, IF admin[a].key = All THEN "done" ELSE "remote")
          /\ UNCHANGED connect

\* After it they are closed, one by one.
CloseLocal(a) ==
    /\ admin[a].pc = "closing"
    /\ \/ \E c \in admin[a].local :
            /\ connect' = [connect EXCEPT ![c].conn = "closed"]
            /\ admin' = [admin EXCEPT ![a].local = @ \ {c}]
       \/ /\ admin[a].local = {}
          /\ AdminGoto(a, IF admin[a].key = All THEN "done" ELSE "remote")
          /\ UNCHANGED connect

\* The loop: a client with the key that can be reached is told to disconnect,
\* until none is left or five seconds have passed.
DisconnectRemote(a) ==
    /\ admin[a].pc = "remote"
    /\ \E c \in Keyed(admin[a].key) :
         /\ Routable(admin[a].at, c) /\ home[c] \in up /\ connect[c].conn = "open"
         /\ connect' = [connect EXCEPT ![c].conn = "closed"]
    /\ UNCHANGED admin

DisconnectEnds(a) ==
    /\ admin[a].pc = "remote" /\ ~HasSession(admin[a].at, Keyed(admin[a].key))
    /\ AdminGoto(a, "done")
    /\ UNCHANGED connect

DisconnectTimesOut(a) ==
    /\ admin[a].pc = "remote" /\ Answered(a) /\ UNCHANGED connect

DisconnectCredential(a) ==
    /\ admin[a].at \in up
    /\ \/ DisconnectLocal(a) \/ CloseLocal(a) \/ DisconnectRemote(a)
       \/ DisconnectEnds(a) \/ DisconnectTimesOut(a)
    /\ UNCHANGED <<mesh, tunnel, bridge, faults>>

-----------------------------------------------------------------------------
(* ServeBridge *)

\* The request is answered with an error; the next one may be made.
BridgeFails(b) == bridge' = [bridge EXCEPT ![b] = NewBridge]

\* The tunnel is read, and allows the target; if not, there is an error.
BridgeReads(b, r) ==
    /\ bridge[b].pc = "new" /\ r \in up
    /\ tunnel.live
    /\ bridge' = [bridge EXCEPT ![b] = [pc |-> "dial", at |-> r,
                      key |-> tunnel.credential, over |-> {}]]
    /\ UNCHANGED <<mesh, tunnel, connect, admin, faults>>

\* The session the request is sent over: any with the key.
Dialable(b) == {c \in Keyed(bridge[b].key) : Routable(bridge[b].at, c)}

BridgeDials(b) ==
    /\ bridge[b].pc = "dial" /\ bridge[b].at \in up
    /\ \/ \E c \in Dialable(b) :
            /\ connect[c].conn = "open" /\ home[c] \in up
            /\ bridge' = [bridge EXCEPT ![b].pc = "sent", ![b].over = {c}]
       \/ BridgeFails(b)
    /\ UNCHANGED <<mesh, tunnel, connect, admin, faults>>

-----------------------------------------------------------------------------
(* The mesh, and faults *)

MeshStep ==
    /\ \E r \in Replicas, c \in Conns : Hear(r, c) \/ Forget(r, c)
    /\ UNCHANGED <<tunnel, connect, admin, bridge, faults>>

Fault == faults < MaxFaults /\ faults' = faults + 1

MeshFails ==
    /\ Fault /\ \E r \in Replicas, from \in Replicas : PeerDrops(r, from)
    /\ UNCHANGED <<tunnel, connect, admin, bridge>>

Crash(r) ==
    /\ Fault /\ Stop(r)
    /\ connect' = [c \in Conns |-> IF home[c] = r THEN Ended(connect[c]) ELSE connect[c]]
    /\ admin' = [a \in Admins |->
                    IF admin[a].at = r /\ admin[a].pc # "done"
                    THEN [NewAdmin EXCEPT !.pc = "answered"] ELSE admin[a]]
    /\ bridge' = [b \in Bridges |->
                    IF bridge[b].at = r /\ bridge[b].pc = "dial"
                    THEN NewBridge ELSE bridge[b]]
    /\ UNCHANGED tunnel

Starts(r) == Restart(r) /\ UNCHANGED <<tunnel, connect, admin, bridge, faults>>

Next ==
    \/ \E c \in Conns, r \in Replicas : AuthenticateRequest(c, r)
    \/ \E c \in Conns : ServeConnectStep(c) \/ OpenSession(c) \/ EndSession(c)
    \/ \E a \in Admins, r \in Replicas : CloseAll(a, r)
    \/ \E a \in Admins, r \in Replicas, op \in {"rotate", "delete", "update"} :
         AdminReads(a, r, op)
    \/ \E a \in Admins : AdminWrites(a) \/ DisconnectCredential(a)
    \/ \E b \in Bridges, r \in Replicas : BridgeReads(b, r)
    \/ \E b \in Bridges : BridgeDials(b)
    \/ MeshStep \/ MeshFails
    \/ \E r \in Replicas : Crash(r) \/ Starts(r)

Spec == Init /\ [][Next]_vars

-----------------------------------------------------------------------------
TypeOK ==
    /\ MeshTypeOK
    /\ tunnel \in [live : BOOLEAN, credential : Nat \ {0}, version : Nat \ {0}]
    /\ connect \in [Conns -> [pc : ConnectPcs, key : Nat, tracked : BOOLEAN,
                              conn : {"none", "open", "closed"}]]
    /\ admin \in [Admins -> [pc : AdminPcs, op : AdminOps,
                             at : Replicas \union {Nowhere}, key : Nat, version : Nat,
                             local : SUBSET Conns]]
    /\ bridge \in [Bridges -> [pc : {"new", "dial", "sent"},
                               at : Replicas \union {Nowhere}, key : Nat,
                               over : SUBSET Conns]]
    /\ faults \in Nat

\* A DisconnectCredential holds the connection and is about to close it.
Closing(c) == \E a \in Admins : admin[a].pc = "closing" /\ c \in admin[a].local

\* Once a rotation or a deletion has closed its replica's connections, no
\* connection of that credential is open there (but one that another such
\* call had taken before and is closing), nor will one ever be, whatever
\* stage of ServeConnect it was at: this is why the connection is registered
\* before it is verified and looked up again when it is hijacked.
DisconnectedHere ==
    \A a \in Admins, c \in Conns :
        /\ admin[a].pc \in {"remote", "done"} /\ admin[a].op \in {"rotate", "delete"}
        /\ home[c] = admin[a].at /\ connect[c].key = admin[a].key
        => connect[c].conn # "open" \/ Closing(c)

\* An open connection is on the manager's map or in the hands of a
\* DisconnectCredential that will close it: none is out of reach of a
\* rotation or of the shutdown.
OpenIsTracked ==
    \A c \in Conns : connect[c].conn = "open" => connect[c].tracked \/ Closing(c)

\* What the documentation says of a rotation: it disconnects the clients of
\* the old secret, wherever they are connected.
RotationDisconnects ==
    \A a \in Admins, c \in Conns :
        /\ admin[a].pc = "done" /\ admin[a].op = "rotate"
        /\ connect[c].key = admin[a].key
        => connect[c].conn # "open"

\* No request is sent over a connection of a credential that a rotation or a
\* deletion has cut off at the connection's replica, although the request may
\* have read the old credential long before, or come from another replica
\* that has yet to hear of the session's end.  It may only meet a connection
\* that another call of DisconnectCredential is about to close.
TrafficCutOff ==
    [][\A b \in Bridges, a \in Admins : \A c \in bridge'[b].over :
          /\ bridge[b].pc = "dial" /\ bridge'[b].pc = "sent"
          /\ admin[a].pc \in {"remote", "done"} /\ admin[a].op \in {"rotate", "delete"}
          /\ home[c] = admin[a].at /\ connect[c].key = admin[a].key
          => Closing(c)]_vars

\* A credential that was replaced is never valid again: an edit that was
\* begun before a rotation does not write the old one back, and a deleted
\* tunnel stays deleted.
CredentialNeverReturns ==
    [][/\ tunnel'.credential >= tunnel.credential
       /\ tunnel'.live => tunnel.live]_tunnel
=============================================================================
