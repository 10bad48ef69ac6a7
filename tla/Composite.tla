------------------------------ MODULE Composite ------------------------------
(***************************************************************************)
(* The owner of one composite MCP server: a replica that gets a request    *)
(* for it forwards the request to the replica that is registered as its    *)
(* owner, and registers itself when it knows of none                       *)
(* (mcpgateway/handler.go, tunnel/composite.go).  A registration is a      *)
(* loopback websocket that is opened again whenever it drops, until the    *)
(* gateway's handler is closed.  Session keys are derived from the server, *)
(* so with one server every session has the key; a session is used once.   *)
(***************************************************************************)
EXTENDS Naturals, PeerMesh

CONSTANTS
    Requests,   \* requests for the composite server
    NoSession,
    Closers,    \* bound: the replicas that may be shut down
    MaxFaults   \* bound on crashes, dropped connections and failed dials

ASSUME ClosersAssumption == Closers \subseteq Replicas
ASSUME NoSessionAssumption == NoSession \notin Sessions
ASSUME MaxFaultsAssumption == MaxFaults \in Nat

VARIABLES
    registration,   \* compositeRegistrations[key] of each replica and its loop
    closing,        \* Handler.Close of each replica
    request,        \* the requests
    faults

vars == <<mesh, registration, closing, request, faults>>

NoRegistration == [pc |-> "none", over |-> NoSession, awaited |-> FALSE]
NewRequest == [pc |-> "new", at |-> Nowhere, over |-> NoSession, stopped |-> FALSE,
               runs |-> 0, ran |-> Nowhere]

Init ==
    /\ up = Replicas
    /\ home = [s \in Sessions |-> Nowhere]
    /\ session = [s \in Sessions |-> "none"]
    /\ view = [r \in Replicas |-> [s \in Sessions |-> "unheard"]]
    /\ registration = [r \in Replicas |-> NoRegistration]
    /\ closing = [r \in Replicas |-> "open"]
    /\ request = [q \in Requests |-> NewRequest]
    /\ faults = 0

\* Registrations with a context of their own, which CloseCompositeSessions
\* cancels.
CancelledIfFound(r) == registration[r].awaited

\* The registration's context is a child of the handler's.
Cancelled(r) == closing[r] # "open"

Fault == faults < MaxFaults /\ faults' = faults + 1

-----------------------------------------------------------------------------
(* runCompositeRegistration *)

Loop(r, pc, s) == registration' = [registration EXCEPT ![r].pc = pc, ![r].over = s]

Unused == {s \in Sessions : home[s] = Nowhere}

\* dialCompositeRegistration: ServeCompositeRegistration accepts the session.
Dial(r) ==
    /\ registration[r].pc = "dialing" /\ ~Cancelled(r)
    /\ Unused # {}
    /\ LET s == CHOOSE s \in Unused : TRUE IN
         /\ home' = [home EXCEPT ![s] = r]
         /\ session' = [session EXCEPT ![s] = "live"]
         /\ Loop(r, "serving", s)
    /\ UNCHANGED <<up, view, closing, request, faults>>

\* The loop goes on without letting go of its connection.
DisconnectedStillHeld(r) ==
    /\ registration[r].pc \in {"dialing", "serving"} /\ Fault
    /\ Loop(r, "backoff", registration[r].over)
    /\ UNCHANGED <<mesh, closing, request>>

\* The dial fails, or the connection drops: serveCompositeConnection returns.
Disconnected(r) ==
    /\ registration[r].pc \in {"dialing", "serving"} /\ Fault
    /\ Loop(r, "backoff", NoSession)
    /\ UNCHANGED <<mesh, closing, request>>

Retry(r) ==
    /\ registration[r].pc = "backoff" /\ ~Cancelled(r)
    /\ Loop(r, "dialing", NoSession)
    /\ UNCHANGED <<mesh, closing, request, faults>>

\* The same, but done is not closed.
LoopEndsSilently(r) ==
    /\ registration[r].pc # "none" /\ Cancelled(r)
    /\ registration' = [registration EXCEPT ![r] = NoRegistration]
    /\ UNCHANGED <<mesh, closing, request, faults>>

\* The context is done: the entry is deleted and done closed.
LoopEnds(r) ==
    /\ registration[r].pc # "none" /\ Cancelled(r)
    /\ registration' = [registration EXCEPT ![r] = NoRegistration]
    /\ request' = [q \in Requests |->
                      [request[q] EXCEPT !.stopped =
                          @ \/ (request[q].at = r /\ request[q].pc = "wait")]]
    /\ UNCHANGED <<mesh, closing, faults>>

\* remotedialer drops a session whose connection is gone.
SessionEnds(s) ==
    /\ session[s] = "live" /\ registration[home[s]].over # s
    /\ session' = [session EXCEPT ![s] = "gone"]
    /\ UNCHANGED <<up, home, view, registration, closing, request, faults>>

-----------------------------------------------------------------------------
(* A request: mcpgateway's handler, ClaimCompositeSession, ForwardComposite *)

Goto(q, pc) == request' = [request EXCEPT ![q].pc = pc]

\* The request is answered; what is left of it is where it was run.
Ended(q, pc) == [NewRequest EXCEPT !.pc = pc, !.runs = request[q].runs, !.ran = request[q].ran]
End(q, pc) == request' = [request EXCEPT ![q] = Ended(q, pc)]
Known(r) == HasSession(r, Sessions)

\* HasCompositeSession, and the same look again when the claim begins.
Check(q, r) ==
    /\ request[q].pc = "new" /\ r \in up
    /\ request' = [request EXCEPT ![q].at = r,
                                  ![q].pc = IF Known(r) THEN "forward" ELSE "claim"]
    /\ UNCHANGED <<mesh, registration, closing, faults>>

\* Under the lock: the claim joins the registration there is or starts one.
Claim(q) ==
    /\ request[q].pc = "claim"
    /\ LET r == request[q].at IN
         IF registration[r].pc = "none" THEN Loop(r, "dialing", NoSession)
         ELSE UNCHANGED registration
    /\ Goto(q, "wait")
    /\ UNCHANGED <<mesh, closing, faults>>

\* It waits until the key can be routed, the registration stops or the
\* caller goes away.
WaitEnds(q) ==
    /\ request[q].pc = "wait"
    /\ \/ Known(request[q].at) /\ Goto(q, "forward")
       \/ request[q].stopped /\ End(q, "unavailable")
    /\ UNCHANGED <<mesh, registration, closing, faults>>

CallerLeaves(q) ==
    /\ request[q].pc \in {"wait", "sent", "running"} /\ End(q, "unavailable")
    /\ UNCHANGED <<mesh, registration, closing, faults>>

\* remotedialer's Dialer: a session of this replica before one of a peer.
Target(r, s) ==
    /\ Routable(r, s)
    /\ home[s] = r \/ ~\E t \in Sessions : home[t] = r /\ session[t] = "live"

Forward(q) ==
    /\ request[q].pc = "forward"
    /\ \/ \E s \in Sessions :
            /\ Target(request[q].at, s)
            /\ request' = [request EXCEPT ![q].pc = "sent", ![q].over = s]
       \/ ~Known(request[q].at) /\ End(q, "unavailable")
    /\ UNCHANGED <<mesh, registration, closing, faults>>

\* The session's other end still serves it.
Served(s) == home[s] \in up /\ registration[home[s]].over = s

\* The owner's forwarder reinjects the request into its own gateway, whose
\* handler sees the owner's marker and runs it.
Run(q) ==
    /\ request[q].pc = "sent" /\ Served(request[q].over)
    /\ request' = [request EXCEPT ![q].pc = "running", ![q].runs = @ + 1,
                                  ![q].ran = home[request[q].over]]
    /\ UNCHANGED <<mesh, registration, closing, faults>>

Answer(q) ==
    /\ request[q].pc = "running" /\ Served(request[q].over)
    /\ End(q, "answered")
    /\ UNCHANGED <<mesh, registration, closing, faults>>

\* An exchange that was broken is tried again.
RetryForward(q) ==
    /\ request[q].pc \in {"sent", "running"} /\ ~Served(request[q].over)
    /\ Goto(q, "forward")
    /\ UNCHANGED <<mesh, registration, closing, faults>>

\* The exchange is broken off, before or after the owner ran the request.
ForwardFails(q) ==
    /\ request[q].pc \in {"sent", "running"} /\ ~Served(request[q].over)
    /\ End(q, "unavailable")
    /\ UNCHANGED <<mesh, registration, closing, faults>>

RequestStep(q) ==
    /\ request[q].at \in up
    /\ \/ Claim(q) \/ WaitEnds(q) \/ Forward(q) \/ Run(q) \/ Answer(q) \/ ForwardFails(q)

-----------------------------------------------------------------------------
(* Handler.Close *)

Closes(r, pc) == closing' = [closing EXCEPT ![r] = pc]

\* The handler's context is cancelled.
Cancel(r) ==
    /\ closing[r] = "open" /\ r \in up \intersect Closers
    /\ Closes(r, "cancelled")
    /\ UNCHANGED <<mesh, registration, request, faults>>

\* CloseCompositeSessions takes the registrations there are...
CloseCompositeSessions(r) ==
    /\ closing[r] = "cancelled" /\ r \in up
    /\ Closes(r, "waiting")
    /\ registration' = [registration EXCEPT ![r].awaited = (registration[r].pc # "none")]
    /\ UNCHANGED <<mesh, request, faults>>

\* ... and waits for them; then the MMMCP instance is closed.
CloseComposite(r) ==
    /\ closing[r] = "waiting" /\ r \in up /\ ~registration[r].awaited
    /\ Closes(r, "closed")
    /\ UNCHANGED <<mesh, registration, request, faults>>

-----------------------------------------------------------------------------
(* The mesh, and faults *)

MeshStep ==
    /\ \E r \in Replicas, s \in Sessions : Hear(r, s) \/ Forget(r, s)
    /\ UNCHANGED <<registration, closing, request, faults>>

MeshFails ==
    /\ Fault /\ \E r \in Replicas, from \in Replicas : PeerDrops(r, from)
    /\ UNCHANGED <<registration, closing, request>>

\* The process ends, with the requests it was handling.
Crash(r) ==
    /\ Fault /\ Stop(r)
    /\ registration' = [registration EXCEPT ![r] = NoRegistration]
    /\ request' = [q \in Requests |->
                      IF request[q].at = r THEN Ended(q, "unavailable") ELSE request[q]]
    /\ UNCHANGED closing

Starts(r) ==
    /\ Restart(r)
    /\ Closes(r, "open")
    /\ UNCHANGED <<registration, request, faults>>

LoopStep(r) == Dial(r) \/ Retry(r) \/ LoopEnds(r)

Next ==
    \/ \E r \in Replicas : LoopStep(r) \/ Disconnected(r)
    \/ \E s \in Sessions : SessionEnds(s)
    \/ \E q \in Requests, r \in Replicas : Check(q, r)
    \/ \E q \in Requests : RequestStep(q) \/ CallerLeaves(q)
    \/ \E r \in Replicas : Cancel(r) \/ CloseCompositeSessions(r) \/ CloseComposite(r)
    \/ MeshStep \/ MeshFails
    \/ \E r \in Replicas : Crash(r) \/ Starts(r)

Spec == Init /\ [][Next]_vars

\* What goes on by itself: goroutines that run, loopback dials that do not
\* fail, the mesh's news.  Nothing makes a caller leave, a handler close or a
\* replica start again.  Every step uses something up, so that one fairness
\* condition for all of them says as much as one for each.
Progress ==
    \/ \E r \in Replicas : LoopStep(r)
    \/ \E q \in Requests : RequestStep(q)
    \/ \E s \in Sessions : SessionEnds(s)
    \/ MeshStep

FairSpec == Spec /\ WF_vars(Progress)

-----------------------------------------------------------------------------
RequestPcs == {"new", "claim", "wait", "forward", "sent", "running", "answered", "unavailable"}

TypeOK ==
    /\ MeshTypeOK
    /\ registration \in [Replicas -> [pc : {"none", "dialing", "serving", "backoff"},
                                      over : Sessions \union {NoSession},
                                      awaited : BOOLEAN]]
    /\ \A r \in Replicas : registration[r].pc = "serving" <=> registration[r].over # NoSession
    /\ closing \in [Replicas -> {"open", "cancelled", "waiting", "closed"}]
    /\ request \in [Requests -> [pc : RequestPcs, at : Replicas \union {Nowhere},
                                 over : Sessions \union {NoSession}, stopped : BOOLEAN,
                                 runs : Nat, ran : Replicas \union {Nowhere}]]
    /\ faults \in 0 .. MaxFaults

\* A request is run at most once, however its exchange with the owner is
\* broken off, by a replica that had registered as the owner and never by
\* the one that merely received it; one that is answered was run.
RunOnceByOwner ==
    \A q \in Requests :
        /\ request[q].runs <= 1
        /\ request[q].runs = 1 => \E s \in Sessions : home[s] = request[q].ran
        /\ request[q].pc = "answered" => request[q].runs = 1

\* When a replica's MMMCP instance is closed, no registration leads to it any
\* more, not even one that was claimed while the handler was closing.
StoppedBeforeClosed == \A r \in Replicas : closing[r] = "closed" => registration[r].pc # "serving"

\* What the architecture decision promises: one replica owns the server.
\* Stated of the states where all news has arrived.
OneOwner ==
    (~\E r \in Replicas, s \in Sessions :
        ENABLED Hear(r, s) \/ ENABLED Forget(r, s)) =>
    \A r1, r2 \in Replicas :
        registration[r1].pc = "serving" /\ registration[r2].pc = "serving" => r1 = r2

\* Every request comes to an end without its caller giving up: a claim finds
\* an owner, or learns that its registration was stopped.
RequestsEnd ==
    \A q \in Requests :
        request[q].pc # "new" ~> request[q].pc \in {"answered", "unavailable"}
=============================================================================
