------------------------------ MODULE PeerMesh ------------------------------
(***************************************************************************)
(* What the tunnel manager relies on of remotedialer (a library, modelled  *)
(* from its use in tunnel/manager.go and tunnel/composite.go): each        *)
(* replica keeps the sessions it accepted and tells its peers of them, so  *)
(* that a replica can dial a session of its own or one it has heard of.    *)
(* News travels with a delay, and a peer connection that drops takes with  *)
(* it all that was heard over it.  A session is told of once while the     *)
(* connection lasts, even when it has ended by the time the news arrives.  *)
(***************************************************************************)
CONSTANTS Replicas, Sessions, Nowhere

ASSUME NowhereAssumption == Nowhere \notin Replicas

VARIABLES
    up,         \* the replicas that run
    home,       \* the replica a session was accepted by
    session,    \* "none", "live" or "gone", in its home's table
    view        \* what each replica has heard of it

mesh == <<up, home, session, view>>

MeshTypeOK ==
    /\ up \in SUBSET Replicas
    /\ home \in [Sessions -> Replicas \union {Nowhere}]
    /\ session \in [Sessions -> {"none", "live", "gone"}]
    /\ view \in [Replicas -> [Sessions -> {"unheard", "heard", "forgotten"}]]

\* remotedialer's Dialer finds session s from replica r.
Routable(r, s) == (home[s] = r /\ session[s] = "live") \/ view[r][s] = "heard"

\* remotedialer.HasSession, of the sessions with one key.
HasSession(r, keyed) == \E s \in keyed : Routable(r, s)

See(r, s, what) == view' = [view EXCEPT ![r][s] = what]

\* The news of a session reaches a peer.
Hear(r, s) ==
    /\ r \in up /\ home[s] \in up \ {r}
    /\ session[s] # "none" /\ view[r][s] = "unheard"
    /\ See(r, s, "heard")
    /\ UNCHANGED <<up, home, session>>

\* So does the news of its end, or the peer finds the connection lost.
Forget(r, s) ==
    /\ r \in up /\ view[r][s] = "heard"
    /\ session[s] = "gone" \/ home[s] \notin up
    /\ See(r, s, "forgotten")
    /\ UNCHANGED <<up, home, session>>

\* What is left of a view when what was heard from the replicas of from is
\* dropped: a new connection brings the sessions that are live then.
Dropped(v, from) ==
    [s \in Sessions |->
        IF home[s] \notin from THEN v[s]
        ELSE IF session[s] = "live" THEN "unheard" ELSE "forgotten"]

\* ReconcilePeers closes the incoming connection of a peer that left the
\* endpoint slices, and adds it again when it is back; ServePeer ends when
\* the websocket drops.
PeerDrops(r, from) ==
    /\ r \in up /\ from # r
    /\ \E s \in Sessions : home[s] = from /\ view[r][s] = "heard"
    /\ view' = [view EXCEPT ![r] = Dropped(@, {from})]
    /\ UNCHANGED <<up, home, session>>

\* A replica's process ends, and the sessions it had accepted with it; what
\* it had not told its peers yet it will not tell them.
Stop(r) ==
    /\ r \in up
    /\ up' = up \ {r}
    /\ session' = [s \in Sessions |->
                      IF home[s] = r /\ session[s] = "live" THEN "gone" ELSE session[s]]
    /\ view' = [p \in Replicas |-> [s \in Sessions |->
                   IF home[s] = r /\ view[p][s] = "unheard" THEN "forgotten" ELSE view[p][s]]]
    /\ UNCHANGED home

\* It starts again and hears anew of what its peers have.
Restart(r) ==
    /\ r \notin up
    /\ up' = up \union {r}
    /\ view' = [view EXCEPT ![r] = Dropped(@, Replicas)]
    /\ UNCHANGED <<home, session>>
=============================================================================
