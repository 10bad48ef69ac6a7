--------------------------- MODULE CompositeProofs ---------------------------
(***************************************************************************)
(* Proofs about Composite, for any number of replicas, sessions, requests, *)
(* closed handlers and faults: a request is run at most once, by a replica *)
(* that had registered as the owner, and a handler that has closed its     *)
(* MMMCP instance serves no registration.                                  *)
(***************************************************************************)
EXTENDS Composite, TLAPS

RegistrationType == [pc : {"none", "dialing", "serving", "backoff"},
                     over : Sessions \union {NoSession}, awaited : BOOLEAN]

RequestType == [pc : RequestPcs, at : Replicas \union {Nowhere},
                over : Sessions \union {NoSession}, stopped : BOOLEAN,
                runs : Nat, ran : Replicas \union {Nowhere}]

\* A loop holds a session exactly while it serves it.
HoldsIffServing(g) == g.pc = "serving" <=> g.over # NoSession

\* How often a request was run shows in how far it is: nothing sends a
\* request that was run before, and a request that is sent has its session.
RunsMatch(q) ==
    /\ q.pc \in {"new", "claim", "wait", "forward", "sent"} => q.runs = 0
    /\ q.pc \in {"running", "answered"} => q.runs = 1
    /\ q.pc = "unavailable" => q.runs \in {0, 1}
    /\ q.pc = "sent" => q.over \in Sessions

\* Whoever ran a request had registered.
Registered(r) == r \in Replicas /\ \E s \in Sessions : home[s] = r

RequestInv ==
    \A q \in Requests :
        RunsMatch(request[q]) /\ (request[q].runs = 1 => Registered(request[q].ran))

\* A handler that has cancelled its registrations waits for every one that is
\* still served, and when it is closed it waits for none.
AwaitedWhile(phase, g) ==
    /\ phase \in {"waiting", "closed"} /\ g.pc = "serving" => g.awaited
    /\ phase = "closed" => ~ g.awaited

ClosingInv == \A r \in Replicas : AwaitedWhile(closing[r], registration[r])

Inv == TypeOK /\ RequestInv /\ ClosingInv

-----------------------------------------------------------------------------
LEMMA InitInv ==
    ASSUME Init PROVE Inv
<1>1. NoRegistration \in RegistrationType /\ HoldsIffServing(NoRegistration)
  BY NoSessionAssumption DEF NoRegistration, RegistrationType, HoldsIffServing
<1>2. NewRequest \in RequestType /\ RunsMatch(NewRequest) /\ NewRequest.runs = 0
  BY DEF NewRequest, RequestType, RequestPcs, RunsMatch
<1>3. MeshTypeOK
  BY DEF Init, MeshTypeOK
<1>4. TypeOK
  BY <1>1, <1>2, <1>3, MaxFaultsAssumption
     DEF Init, TypeOK, RegistrationType, RequestType, HoldsIffServing
<1>5. RequestInv
  BY <1>2 DEF Init, RequestInv
<1>6. ClosingInv
  BY DEF Init, ClosingInv, AwaitedWhile, NoRegistration
<1>7. QED
  BY <1>4, <1>5, <1>6 DEF Inv

\* The parts of the invariant, in the shape the steps use them.
LEMMA Parts ==
    ASSUME Inv
    PROVE  /\ MeshTypeOK
           /\ registration \in [Replicas -> RegistrationType]
           /\ \A r \in Replicas : HoldsIffServing(registration[r])
           /\ closing \in [Replicas -> {"open", "cancelled", "waiting", "closed"}]
           /\ request \in [Requests -> RequestType]
           /\ faults \in 0 .. MaxFaults
BY DEF Inv, TypeOK, RegistrationType, RequestType, HoldsIffServing

LEMMA FaultTyped ==
    ASSUME faults \in 0 .. MaxFaults, Fault \/ UNCHANGED faults
    PROVE  faults' \in 0 .. MaxFaults
BY MaxFaultsAssumption DEF Fault

-----------------------------------------------------------------------------
(* The registrations' loops and the closing of a handler change no         *)
(* request's place; a loop may only be told to stop.                       *)

\* A registration's loop moves: it serves a session only before its handler
\* is cancelled, it keeps being awaited until it has ended.
LoopMoves(phase, old, new) ==
    /\ new \in RegistrationType /\ HoldsIffServing(new)
    /\ new.pc = "serving" => phase = "open"
    /\ new.awaited => old.awaited

LEMMA LoopKeepsInv ==
    ASSUME Inv, MeshTypeOK', NEW r \in Replicas, NEW new,
           LoopMoves(closing[r], registration[r], new),
           registration' = [registration EXCEPT ![r] = new],
           UNCHANGED closing, Fault \/ UNCHANGED faults,
           request' \in [Requests -> RequestType], RequestInv'
    PROVE  Inv'
<1>0. /\ registration \in [Replicas -> RegistrationType]
      /\ \A p \in Replicas : HoldsIffServing(registration[p])
      /\ closing \in [Replicas -> {"open", "cancelled", "waiting", "closed"}]
      /\ faults \in 0 .. MaxFaults
  BY Parts
<1>1. /\ registration' \in [Replicas -> RegistrationType]
      /\ \A p \in Replicas : HoldsIffServing(registration'[p])
  BY <1>0 DEF LoopMoves
<1>2. faults' \in 0 .. MaxFaults
  BY <1>0, FaultTyped
<1>3. TypeOK'
  BY <1>0, <1>1, <1>2 DEF TypeOK, RegistrationType, RequestType, HoldsIffServing
<1>4. ClosingInv'
  <2>1. \A p \in Replicas : AwaitedWhile(closing[p], registration[p])
    BY DEF Inv, ClosingInv
  <2>2. AwaitedWhile(closing[r], new)
    BY <1>0, <2>1 DEF LoopMoves, AwaitedWhile
  <2>3. QED
    BY <1>0, <2>1, <2>2 DEF ClosingInv
<1>5. QED
  BY <1>3, <1>4 DEF Inv

\* Requests that do not move keep their invariant while sessions keep their
\* home, and stopped says nothing about runs.
LEMMA RequestsKept ==
    ASSUME Inv, \A s \in Sessions : home[s] \in Replicas => home'[s] = home[s],
           UNCHANGED request
    PROVE  request' \in [Requests -> RequestType] /\ RequestInv'
BY Parts DEF Inv, RequestInv, Registered

LEMMA DialKeepsInv ==
    ASSUME Inv, NEW r \in Replicas, Dial(r) PROVE Inv'
<1>0. /\ registration \in [Replicas -> RegistrationType] /\ MeshTypeOK
      /\ closing \in [Replicas -> {"open", "cancelled", "waiting", "closed"}]
  BY Parts
<1>1. PICK s \in Unused :
          /\ home' = [home EXCEPT ![s] = r]
          /\ session' = [session EXCEPT ![s] = "live"]
          /\ Loop(r, "serving", s)
  BY DEF Dial
<1>2. s \in Sessions /\ home[s] = Nowhere
  BY <1>1 DEF Unused
<1>3. MeshTypeOK'
  <2>1. UNCHANGED <<up, view>>
    BY DEF Dial
  <2>2. QED
    BY <1>0, <1>1, <1>2, <2>1 DEF MeshTypeOK
<1>4. PICK new : new = [registration[r] EXCEPT !.pc = "serving", !.over = s]
  OBVIOUS
<1>5. registration' = [registration EXCEPT ![r] = new]
  BY <1>0, <1>1, <1>4 DEF Loop
<1>6. LoopMoves(closing[r], registration[r], new)
  <2>1. s # NoSession
    BY <1>2, NoSessionAssumption
  <2>2. closing[r] = "open"
    BY DEF Dial, Cancelled
  <2>3. registration[r] \in RegistrationType
    BY <1>0
  <2>4. new \in RegistrationType /\ HoldsIffServing(new)
    BY <1>2, <1>4, <2>1, <2>3 DEF RegistrationType, HoldsIffServing
  <2>5. new.awaited = registration[r].awaited
    BY <1>4, <2>3 DEF RegistrationType
  <2>6. QED
    BY <2>2, <2>4, <2>5 DEF LoopMoves
<1>7. \A t \in Sessions : home[t] \in Replicas => home'[t] = home[t]
  BY <1>0, <1>1, <1>2, NowhereAssumption DEF MeshTypeOK
<1>8. UNCHANGED <<closing, request, faults>>
  BY DEF Dial
<1>9. QED
  BY <1>3, <1>5, <1>6, <1>7, <1>8, RequestsKept, LoopKeepsInv

LEMMA BackoffKeepsInv ==
    ASSUME Inv, NEW r \in Replicas, Disconnected(r) \/ Retry(r) PROVE Inv'
<1>0. registration \in [Replicas -> RegistrationType] /\ MeshTypeOK
  BY Parts
<1>1. PICK pc \in {"backoff", "dialing"} : Loop(r, pc, NoSession)
  BY DEF Disconnected, Retry
<1>2. PICK new : new = [registration[r] EXCEPT !.pc = pc, !.over = NoSession]
  OBVIOUS
<1>3. registration' = [registration EXCEPT ![r] = new]
  BY <1>0, <1>1, <1>2 DEF Loop
<1>4. LoopMoves(closing[r], registration[r], new)
  <2>1. registration[r] \in RegistrationType
    BY <1>0
  <2>2. new \in RegistrationType /\ HoldsIffServing(new) /\ new.pc # "serving"
    BY <1>1, <1>2, <2>1 DEF RegistrationType, HoldsIffServing
  <2>3. new.awaited = registration[r].awaited
    BY <1>2, <2>1 DEF RegistrationType
  <2>4. QED
    BY <2>2, <2>3 DEF LoopMoves
<1>5. UNCHANGED <<mesh, closing, request>> /\ (Fault \/ UNCHANGED faults)
  BY DEF Disconnected, Retry
<1>6. MeshTypeOK' /\ UNCHANGED home
  BY <1>0, <1>5 DEF MeshTypeOK, mesh
<1>7. QED
  BY <1>3, <1>4, <1>5, <1>6, RequestsKept, LoopKeepsInv

LEMMA LoopEndsKeepsInv ==
    ASSUME Inv, NEW r \in Replicas, LoopEnds(r) PROVE Inv'
<1>0. request \in [Requests -> RequestType] /\ MeshTypeOK
  BY Parts
<1>1. LoopMoves(closing[r], registration[r], NoRegistration)
  BY NoSessionAssumption DEF LoopMoves, NoRegistration, RegistrationType, HoldsIffServing
<1>2. UNCHANGED <<mesh, closing, faults>>
      /\ registration' = [registration EXCEPT ![r] = NoRegistration]
  BY DEF LoopEnds
<1>3. MeshTypeOK' /\ UNCHANGED home
  BY <1>0, <1>2 DEF MeshTypeOK, mesh
<1>4. ASSUME NEW q \in Requests
      PROVE  request'[q] \in RequestType /\ RunsMatch(request'[q])
             /\ request'[q].runs = request[q].runs /\ request'[q].ran = request[q].ran
  <2>1. PICK b \in BOOLEAN : request'[q] = [request[q] EXCEPT !.stopped = b]
    <3>1. PICK b \in BOOLEAN :
             b = (request[q].stopped \/ (request[q].at = r /\ request[q].pc = "wait"))
      OBVIOUS
    <3>2. request'[q] = [request[q] EXCEPT !.stopped =
                            @ \/ (request[q].at = r /\ request[q].pc = "wait")]
      BY DEF LoopEnds
    <3>3. QED
      BY <3>1, <3>2
  <2>2. request[q] \in RequestType /\ RunsMatch(request[q])
    BY <1>0 DEF Inv, RequestInv
  <2>3. QED
    BY <2>1, <2>2 DEF RequestType, RunsMatch
<1>5. request' \in [Requests -> RequestType]
  <2>1. request' = [q \in Requests |-> request'[q]]
    BY DEF LoopEnds
  <2>2. QED
    BY <1>4, <2>1
<1>6. RequestInv'
  BY <1>3, <1>4 DEF Inv, RequestInv, Registered
<1>7. QED
  BY <1>1, <1>2, <1>3, <1>5, <1>6, LoopKeepsInv

-----------------------------------------------------------------------------
(* The steps of a request *)

\* A request moves: its runs keep to its place, and a replica that runs it is
\* one that had registered.
RequestMoves(old, new) ==
    /\ new \in RequestType /\ RunsMatch(new)
    /\ new.runs = 1 => (old.runs = 1 /\ new.ran = old.ran) \/ Registered(new.ran)

LEMMA RequestKeepsInv ==
    ASSUME Inv, NEW q \in Requests, NEW new,
           RequestMoves(request[q], new),
           request' = [request EXCEPT ![q] = new], UNCHANGED <<mesh, closing, faults>>
    PROVE  request' \in [Requests -> RequestType] /\ RequestInv' /\ MeshTypeOK'
<1>1. request \in [Requests -> RequestType] /\ MeshTypeOK
  BY Parts
<1>2. request' \in [Requests -> RequestType]
  BY <1>1 DEF RequestMoves
<1>3. \A p \in Requests : RunsMatch(request[p])
             /\ (request[p].runs = 1 => Registered(request[p].ran))
  BY DEF Inv, RequestInv
<1>4. new.runs = 1 => Registered(new.ran)
  BY <1>3 DEF RequestMoves
<1>5. UNCHANGED home /\ MeshTypeOK'
  BY <1>1 DEF mesh, MeshTypeOK
<1>6. ASSUME NEW p \in Requests
      PROVE  RunsMatch(request'[p]) /\ (request'[p].runs = 1 => Registered(request'[p].ran))
  BY <1>1, <1>3, <1>4 DEF RequestMoves
<1>7. RequestInv'
  BY <1>5, <1>6 DEF RequestInv, Registered
<1>8. QED
  BY <1>2, <1>5, <1>7

LEMMA EndMoves ==
    ASSUME Inv, NEW q \in Requests, NEW pc,
           pc = "unavailable" \/ (pc = "answered" /\ request[q].pc = "running")
    PROVE  RequestMoves(request[q], Ended(q, pc))
<1>1. request[q] \in RequestType /\ RunsMatch(request[q])
  BY Parts DEF Inv, RequestInv
<1>2. request[q].runs \in {0, 1}
  BY <1>1 DEF RequestType, RequestPcs, RunsMatch
<1>3. Ended(q, pc) \in RequestType /\ Ended(q, pc).pc = pc
      /\ Ended(q, pc).runs = request[q].runs /\ Ended(q, pc).ran = request[q].ran
  BY <1>1 DEF Ended, NewRequest, RequestType, RequestPcs
<1>4. RunsMatch(Ended(q, pc))
  BY <1>1, <1>2, <1>3 DEF RunsMatch
<1>5. QED
  BY <1>3, <1>4 DEF RequestMoves

\* What the steps of a request do to its record.
LEMMA RequestSteps ==
    ASSUME Inv, NEW q \in Requests,
           \/ \E r \in Replicas : Check(q, r)
           \/ RequestStep(q) \/ CallerLeaves(q)
    PROVE  \E new : request' = [request EXCEPT ![q] = new] /\ RequestMoves(request[q], new)
<1>0. request \in [Requests -> RequestType] /\ MeshTypeOK
  BY Parts
<1>1. request[q] \in RequestType /\ RunsMatch(request[q])
  BY <1>0 DEF Inv, RequestInv
<1>2. ASSUME NEW pc, End(q, pc),
             pc = "unavailable" \/ (pc = "answered" /\ request[q].pc = "running")
      PROVE  \E new : request' = [request EXCEPT ![q] = new] /\ RequestMoves(request[q], new)
  BY <1>2, EndMoves DEF End
<1>3. ASSUME NEW pc \in {"wait", "forward"}, Goto(q, pc),
             request[q].pc \in {"claim", "wait"}
      PROVE  \E new : request' = [request EXCEPT ![q] = new] /\ RequestMoves(request[q], new)
  <2>1. PICK new : new = [request[q] EXCEPT !.pc = pc]
    OBVIOUS
  <2>2. request' = [request EXCEPT ![q] = new]
    BY <1>0, <1>3, <2>1 DEF Goto
  <2>3. RequestMoves(request[q], new)
    BY <1>1, <1>3, <2>1 DEF RequestMoves, RunsMatch, RequestType, RequestPcs
  <2>4. QED
    BY <2>2, <2>3
<1>4. CASE \E r \in Replicas : Check(q, r)
  <2>1. PICK r \in Replicas : Check(q, r)
    BY <1>4
  <2>2. PICK pc \in {"forward", "claim"} :
           request' = [request EXCEPT ![q].at = r, ![q].pc = pc]
    BY <2>1 DEF Check
  <2>3. PICK new : new = [request[q] EXCEPT !.at = r, !.pc = pc]
    OBVIOUS
  <2>4. request' = [request EXCEPT ![q] = new]
    BY <1>0, <2>2, <2>3
  <2>5. RequestMoves(request[q], new)
    BY <1>1, <2>1, <2>3 DEF Check, RequestMoves, RunsMatch, RequestType, RequestPcs
  <2>6. QED
    BY <2>4, <2>5
<1>5. CASE Claim(q)
  BY <1>3, <1>5 DEF Claim
<1>6. CASE WaitEnds(q)
  BY <1>2, <1>3, <1>6 DEF WaitEnds
<1>7. CASE Forward(q)
  <2>1. CASE End(q, "unavailable")
    BY <1>2, <2>1
  <2>2. ASSUME NEW s \in Sessions,
               request' = [request EXCEPT ![q].pc = "sent", ![q].over = s]
        PROVE  \E new : request' = [request EXCEPT ![q] = new] /\ RequestMoves(request[q], new)
    <3>1. PICK new : new = [request[q] EXCEPT !.pc = "sent", !.over = s]
      OBVIOUS
    <3>2. request' = [request EXCEPT ![q] = new]
      BY <1>0, <2>2, <3>1
    <3>3. RequestMoves(request[q], new)
      BY <1>1, <1>7, <3>1 DEF Forward, RequestMoves, RunsMatch, RequestType, RequestPcs
    <3>4. QED
      BY <3>2, <3>3
  <2>3. QED
    BY <1>7, <2>1, <2>2 DEF Forward
<1>8. CASE Run(q)
  <2>1. request[q].over \in Sessions /\ request[q].runs = 0
    BY <1>1, <1>8 DEF Run, RunsMatch
  <2>2. PICK o : o = home[request[q].over]
    OBVIOUS
  <2>3. Registered(o)
    BY <1>0, <1>8, <2>1, <2>2 DEF Run, Served, Registered, MeshTypeOK
  <2>4. PICK new : new = [request[q] EXCEPT !.pc = "running", !.runs = 1, !.ran = o]
    OBVIOUS
  <2>5. request' = [request EXCEPT ![q] = new]
    <3>1. request' = [request EXCEPT ![q].pc = "running", ![q].runs = @ + 1, ![q].ran = o]
      BY <1>8, <2>2 DEF Run
    <3>2. request[q].runs + 1 = 1
      BY <2>1
    <3>3. QED
      BY <1>0, <1>1, <2>4, <3>1, <3>2 DEF RequestType
  <2>6. new \in RequestType /\ new.pc = "running" /\ new.runs = 1 /\ new.ran = o
    BY <1>1, <2>3, <2>4 DEF RequestType, RequestPcs, Registered
  <2>7. RequestMoves(request[q], new)
    BY <2>3, <2>6 DEF RequestMoves, RunsMatch
  <2>8. QED
    BY <2>5, <2>7
<1>9. CASE Answer(q)
  BY <1>2, <1>9 DEF Answer
<1>10. CASE ForwardFails(q) \/ CallerLeaves(q)
  BY <1>2, <1>10 DEF ForwardFails, CallerLeaves
<1>11. QED
  BY <1>4, <1>5, <1>6, <1>7, <1>8, <1>9, <1>10 DEF RequestStep

LEMMA RequestStepKeepsInv ==
    ASSUME Inv, NEW q \in Requests,
           \/ \E r \in Replicas : Check(q, r)
           \/ RequestStep(q) \/ CallerLeaves(q)
    PROVE  Inv'
<1>0. registration \in [Replicas -> RegistrationType]
      /\ (\A r \in Replicas : HoldsIffServing(registration[r]))
      /\ request \in [Requests -> RequestType]
  BY Parts
<1>1. PICK new : request' = [request EXCEPT ![q] = new] /\ RequestMoves(request[q], new)
  BY RequestSteps
<1>2. UNCHANGED <<mesh, closing, faults>>
  BY DEF Check, RequestStep, Claim, WaitEnds, Forward, Run, Answer, ForwardFails, CallerLeaves
<1>3. request' \in [Requests -> RequestType] /\ RequestInv' /\ MeshTypeOK'
  BY <1>1, <1>2, RequestKeepsInv
<1>4. CASE Claim(q) /\ registration[request[q].at].pc = "none"
  <2>1. PICK r : r = request[q].at
    OBVIOUS
  <2>2. Loop(r, "dialing", NoSession) /\ registration[r].pc = "none"
    BY <1>4, <2>1 DEF Claim
  <2>3. CASE r \in Replicas
    <3>1. PICK g : g = [registration[r] EXCEPT !.pc = "dialing", !.over = NoSession]
      OBVIOUS
    <3>2. registration' = [registration EXCEPT ![r] = g]
      BY <1>0, <2>2, <2>3, <3>1 DEF Loop
    <3>3. registration[r] \in RegistrationType
      BY <1>0, <2>3
    <3>4. g \in RegistrationType /\ HoldsIffServing(g) /\ g.pc # "serving"
      BY <3>1, <3>3 DEF RegistrationType, HoldsIffServing
    <3>5. g.awaited = registration[r].awaited
      BY <3>1, <3>3 DEF RegistrationType
    <3>6. LoopMoves(closing[r], registration[r], g)
      BY <3>4, <3>5 DEF LoopMoves
    <3>7. QED
      BY <1>2, <1>3, <2>3, <3>2, <3>6, LoopKeepsInv
  <2>4. CASE r \notin Replicas
    <3>1. registration' = registration
      BY <1>0, <2>2, <2>4 DEF Loop
    <3>2. QED
      BY <1>2, <1>3, <3>1
         DEF Inv, TypeOK, RequestType, ClosingInv
  <2>5. QED
    BY <2>3, <2>4
<1>5. CASE ~ (Claim(q) /\ registration[request[q].at].pc = "none")
  <2>1. UNCHANGED registration
    BY <1>5 DEF Check, RequestStep, Claim, WaitEnds, Forward, Run, Answer, ForwardFails,
                CallerLeaves
  <2>2. QED
    BY <1>2, <1>3, <2>1 DEF Inv, TypeOK, RequestType, ClosingInv
<1>6. QED
  BY <1>4, <1>5

-----------------------------------------------------------------------------
(* Handler.Close *)

LEMMA CloseKeepsInv ==
    ASSUME Inv, NEW r \in Replicas,
           Cancel(r) \/ CloseCompositeSessions(r) \/ CloseComposite(r)
    PROVE  Inv'
<1>0. /\ registration \in [Replicas -> RegistrationType]
      /\ \A p \in Replicas : HoldsIffServing(registration[p])
      /\ closing \in [Replicas -> {"open", "cancelled", "waiting", "closed"}]
      /\ request \in [Requests -> RequestType] /\ MeshTypeOK
      /\ \A p \in Replicas : AwaitedWhile(closing[p], registration[p])
  BY Parts DEF Inv, ClosingInv
<1>1. UNCHANGED <<mesh, request, faults>>
  BY DEF Cancel, CloseCompositeSessions, CloseComposite
<1>2. RequestInv' /\ MeshTypeOK'
  BY <1>0, <1>1, RequestsKept DEF mesh, MeshTypeOK
<1>3. registration[r] \in RegistrationType /\ HoldsIffServing(registration[r])
  BY <1>0
<1>4. PICK phase, g :
        /\ closing' = [closing EXCEPT ![r] = phase]
        /\ phase \in {"open", "cancelled", "waiting", "closed"}
        /\ registration' = [registration EXCEPT ![r] = g]
        /\ g \in RegistrationType /\ HoldsIffServing(g) /\ AwaitedWhile(phase, g)
  <2>1. CASE Cancel(r)
    <3>1. registration' = [registration EXCEPT ![r] = registration[r]]
      BY <1>0, <2>1 DEF Cancel
    <3>2. AwaitedWhile("cancelled", registration[r])
      BY DEF AwaitedWhile
    <3>3. QED
      BY <1>3, <2>1, <3>1, <3>2 DEF Cancel, Closes
  <2>2. CASE CloseCompositeSessions(r)
    <3>1. PICK b \in BOOLEAN : b = (registration[r].pc # "none")
      OBVIOUS
    <3>2. PICK g : g = [registration[r] EXCEPT !.awaited = b]
      OBVIOUS
    <3>3. registration' = [registration EXCEPT ![r] = g]
      BY <1>0, <2>2, <3>1, <3>2 DEF CloseCompositeSessions
    <3>4. g \in RegistrationType /\ HoldsIffServing(g) /\ g.pc = registration[r].pc
          /\ g.awaited = b
      BY <1>3, <3>1, <3>2 DEF RegistrationType, HoldsIffServing
    <3>5. AwaitedWhile("waiting", g)
      BY <3>1, <3>4 DEF AwaitedWhile
    <3>6. QED
      BY <2>2, <3>3, <3>4, <3>5 DEF CloseCompositeSessions, Closes
  <2>3. CASE CloseComposite(r)
    <3>1. registration' = [registration EXCEPT ![r] = registration[r]]
      BY <1>0, <2>3 DEF CloseComposite
    <3>2. closing[r] = "waiting" /\ ~ registration[r].awaited
      BY <2>3 DEF CloseComposite
    <3>3. AwaitedWhile("closed", registration[r])
      BY <1>0, <3>2 DEF AwaitedWhile
    <3>4. QED
      BY <1>3, <2>3, <3>1, <3>3 DEF CloseComposite, Closes
  <2>4. QED
    BY <2>1, <2>2, <2>3
<1>5. TypeOK'
  <2>1. /\ registration' \in [Replicas -> RegistrationType]
        /\ \A p \in Replicas : HoldsIffServing(registration'[p])
        /\ closing' \in [Replicas -> {"open", "cancelled", "waiting", "closed"}]
    BY <1>0, <1>4
  <2>2. QED
    BY <1>1, <1>2, <2>1 DEF Inv, TypeOK, RegistrationType, HoldsIffServing
<1>6. ClosingInv'
  BY <1>0, <1>4 DEF ClosingInv
<1>7. QED
  BY <1>2, <1>5, <1>6 DEF Inv

-----------------------------------------------------------------------------
(* The mesh and the faults *)

LEMMA MeshKeepsInv ==
    ASSUME Inv, MeshStep \/ MeshFails \/ \E s \in Sessions : SessionEnds(s) PROVE Inv'
<1>0. MeshTypeOK /\ faults \in 0 .. MaxFaults
  BY Parts
<1>1. UNCHANGED <<up, home, registration, closing, request>> /\ (Fault \/ UNCHANGED faults)
  BY DEF MeshStep, MeshFails, SessionEnds, Hear, Forget, PeerDrops
<1>2. MeshTypeOK'
  <2>1. CASE \E s \in Sessions : SessionEnds(s)
    BY <1>0, <2>1 DEF SessionEnds, MeshTypeOK
  <2>2. ASSUME NEW r \in Replicas, NEW s \in Sessions, Hear(r, s) \/ Forget(r, s)
        PROVE  MeshTypeOK'
    BY <1>0, <2>2 DEF Hear, Forget, See, MeshTypeOK
  <2>3. ASSUME NEW r \in Replicas, NEW from \in Replicas, PeerDrops(r, from)
        PROVE  MeshTypeOK'
    <3>1. Dropped(view[r], {from}) \in [Sessions -> {"unheard", "heard", "forgotten"}]
      BY <1>0 DEF Dropped, MeshTypeOK
    <3>2. QED
      BY <1>0, <2>3, <3>1 DEF PeerDrops, MeshTypeOK
  <2>4. QED
    BY <2>1, <2>2, <2>3 DEF MeshStep, MeshFails
<1>3. faults' \in 0 .. MaxFaults
  BY <1>0, <1>1, FaultTyped
<1>4. RequestInv'
  BY <1>1, RequestsKept
<1>5. QED
  BY <1>1, <1>2, <1>3, <1>4 DEF Inv, TypeOK, ClosingInv

LEMMA StartsKeepsInv ==
    ASSUME Inv, NEW r \in Replicas, Starts(r) PROVE Inv'
<1>0. /\ MeshTypeOK /\ closing \in [Replicas -> {"open", "cancelled", "waiting", "closed"}]
      /\ \A p \in Replicas : AwaitedWhile(closing[p], registration[p])
  BY Parts DEF Inv, ClosingInv
<1>1. Dropped(view[r], Replicas) \in [Sessions -> {"unheard", "heard", "forgotten"}]
  BY <1>0 DEF Dropped, MeshTypeOK
<1>2. MeshTypeOK'
  BY <1>0, <1>1 DEF Starts, Restart, MeshTypeOK
<1>3. UNCHANGED <<home, registration, request, faults>>
      /\ closing' = [closing EXCEPT ![r] = "open"]
  BY DEF Starts, Restart, Closes
<1>4. RequestInv'
  BY <1>3, RequestsKept
<1>5. closing' \in [Replicas -> {"open", "cancelled", "waiting", "closed"}]
  BY <1>0, <1>3
<1>6. ClosingInv'
  <2>1. AwaitedWhile("open", registration[r])
    BY DEF AwaitedWhile
  <2>2. QED
    BY <1>0, <1>3, <2>1 DEF ClosingInv
<1>7. QED
  BY <1>2, <1>3, <1>4, <1>5, <1>6 DEF Inv, TypeOK

LEMMA CrashKeepsInv ==
    ASSUME Inv, NEW r \in Replicas, Crash(r) PROVE Inv'
<1>0. request \in [Requests -> RequestType] /\ MeshTypeOK
  BY Parts
<1>1. LoopMoves(closing[r], registration[r], NoRegistration)
  BY NoSessionAssumption DEF LoopMoves, NoRegistration, RegistrationType, HoldsIffServing
<1>2. MeshTypeOK' /\ UNCHANGED home
  BY <1>0 DEF Crash, Stop, MeshTypeOK
<1>3. UNCHANGED closing /\ Fault
      /\ registration' = [registration EXCEPT ![r] = NoRegistration]
  BY DEF Crash
<1>4. ASSUME NEW q \in Requests
      PROVE  request'[q] \in RequestType /\ RunsMatch(request'[q])
             /\ (request'[q].runs = 1 => Registered(request'[q].ran))
  <2>1. request[q] \in RequestType /\ RunsMatch(request[q])
        /\ (request[q].runs = 1 => Registered(request[q].ran))
    BY <1>0 DEF Inv, RequestInv
  <2>2. request'[q] = Ended(q, "unavailable") \/ request'[q] = request[q]
    BY DEF Crash
  <2>3. RequestMoves(request[q], Ended(q, "unavailable"))
    BY EndMoves
  <2>4. QED
    BY <2>1, <2>2, <2>3 DEF RequestMoves
<1>5. request' \in [Requests -> RequestType]
  <2>1. request' = [q \in Requests |-> request'[q]]
    BY DEF Crash
  <2>2. QED
    BY <1>4, <2>1
<1>6. RequestInv'
  BY <1>2, <1>4 DEF RequestInv, Registered
<1>7. QED
  BY <1>1, <1>2, <1>3, <1>5, <1>6, LoopKeepsInv

-----------------------------------------------------------------------------
LEMMA NextKeepsInv ==
    ASSUME Inv, [Next]_vars PROVE Inv'
<1>1. CASE \E r \in Replicas : LoopStep(r) \/ Disconnected(r)
  BY <1>1, DialKeepsInv, BackoffKeepsInv, LoopEndsKeepsInv DEF LoopStep
<1>2. CASE \E q \in Requests : (\E r \in Replicas : Check(q, r))
                               \/ RequestStep(q) \/ CallerLeaves(q)
  BY <1>2, RequestStepKeepsInv
<1>3. CASE \E r \in Replicas :
               Cancel(r) \/ CloseCompositeSessions(r) \/ CloseComposite(r)
  BY <1>3, CloseKeepsInv
<1>4. CASE MeshStep \/ MeshFails \/ \E s \in Sessions : SessionEnds(s)
  BY <1>4, MeshKeepsInv
<1>5. CASE \E r \in Replicas : Crash(r) \/ Starts(r)
  BY <1>5, CrashKeepsInv, StartsKeepsInv
<1>6. CASE UNCHANGED vars
  <2>1. UNCHANGED <<up, home, session, view, registration, closing, request, faults>>
    BY <1>6 DEF vars, mesh
  <2>2. RequestInv'
    BY <2>1, RequestsKept
  <2>3. QED
    BY <2>1, <2>2 DEF Inv, TypeOK, MeshTypeOK, ClosingInv
<1>7. QED
  BY <1>1, <1>2, <1>3, <1>4, <1>5, <1>6 DEF Next

\* The inductive invariant holds in every state.
THEOREM Invariance == Spec => []Inv
<1>1. Init => Inv
  BY InitInv
<1>2. Inv /\ [Next]_vars => Inv'
  BY NextKeepsInv
<1>3. QED
  BY <1>1, <1>2, PTL DEF Spec

\* Every variable keeps its type: among others, a registration's loop holds a
\* session exactly while it serves it (runCompositeRegistration).
THEOREM TypeCorrect == Spec => []TypeOK
<1>1. Inv => TypeOK
  BY DEF Inv
<1>2. QED
  BY <1>1, Invariance, PTL

\* ForwardComposite hands a request over once, to a replica that had
\* registered as the owner: whatever is dropped, crashes or is closed on the
\* way, nobody else runs it and nobody runs it again; what is answered was run.
THEOREM RunAtMostOnceByOwner == Spec => []RunOnceByOwner
<1>1. Inv => RunOnceByOwner
  <2>1. SUFFICES ASSUME Inv, NEW q \in Requests
                 PROVE  /\ request[q].runs <= 1
                        /\ request[q].runs = 1 => \E s \in Sessions : home[s] = request[q].ran
                        /\ request[q].pc = "answered" => request[q].runs = 1
    BY DEF RunOnceByOwner
  <2>2. request[q] \in RequestType /\ RunsMatch(request[q])
        /\ (request[q].runs = 1 => Registered(request[q].ran))
    <3>1. request \in [Requests -> RequestType]
      BY <2>1, Parts
    <3>2. QED
      BY <2>1, <3>1 DEF Inv, RequestInv
  <2>3. QED
    BY <2>2 DEF RequestType, RequestPcs, RunsMatch, Registered
<1>2. QED
  BY <1>1, Invariance, PTL

\* When Handler.Close comes to closing the MMMCP instance, no registration
\* leads to it, whatever was claimed while it was waiting.
THEOREM ClosedServesNothing == Spec => []StoppedBeforeClosed
<1>1. Inv => StoppedBeforeClosed
  BY DEF Inv, ClosingInv, AwaitedWhile, StoppedBeforeClosed
<1>2. QED
  BY <1>1, Invariance, PTL
=============================================================================
