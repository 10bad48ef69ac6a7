------------------------ MODULE ProviderSwitchProofs ------------------------
(***************************************************************************)
(* Proofs about ProviderSwitch, for any number of providers, concurrent    *)
(* requests, changes and faults: the SCIM connection is always where a     *)
(* configuration needs it and never stranded, at most one provider serves  *)
(* and at most one is staged, a switch keeps someone serving, and cleanups *)
(* neither block nor lose, nor delete what they should spare.  What fails  *)
(* once a change has overlooked the provider in use, because its           *)
(* credential could not be read, says so: unread = TRUE.                   *)
(*                                                                         *)
(* The invariant has one part for each step the controller may be at: what *)
(* that step may rely on when a fault has made the change begin again any  *)
(* number of times, with sign-ins, cleanups and other requests in between. *)
(***************************************************************************)
EXTENDS ProviderSwitch, SequenceTheorems, TLAPS

-----------------------------------------------------------------------------
(* The inductive invariant *)

AllOps == Ops \cup {"Activate"}

\* The step the controller is about to take, "idle" when it has none.
At(pl) == IF pl = << >> THEN "idle" ELSE Head(pl)

at == At(plan)

\* What each desired state leaves to do.  A switch never has to connect: a
\* staged configuration without directory parameters has its connection.
ConfigurePlans ==
    {<<"connect", "configure", "finish">>, <<"configure", "finish">>,
     <<"finish">>}

StagePlans ==
    {<<"connect", "stage", "finish">>, <<"stage", "finish">>, <<"finish">>}

MigratePlans == {<<"migrate", "finish">>, <<"finish">>}

UnstagePlans ==
    {<<"disconnectStaged", "discard", "finish">>, <<"discard", "finish">>,
     <<"finish">>}

DeconfigurePlans ==
    {<<"intent", "uncredential", "disconnect", "ready", "finish">>,
     <<"uncredential", "disconnect", "ready", "finish">>,
     <<"disconnect", "ready", "finish">>, <<"ready", "finish">>,
     <<"finish">>}

ActivatePlans ==
    {<<"promote", "intent", "uncredential", "disconnect", "ready", "unstage",
       "finish">>,
     <<"intent", "uncredential", "disconnect", "ready", "unstage", "finish">>,
     <<"uncredential", "disconnect", "ready", "unstage", "finish">>,
     <<"disconnect", "ready", "unstage", "finish">>,
     <<"ready", "unstage", "finish">>, <<"unstage", "finish">>, <<"finish">>}

Shape(op, pl) ==
    \/ op = "Configure" /\ pl \in ConfigurePlans
    \/ op = "Stage" /\ pl \in StagePlans
    \/ op = "Migrate" /\ pl \in MigratePlans
    \/ op = "Unstage" /\ pl \in UnstagePlans
    \/ op = "Deconfigure" /\ pl \in DeconfigurePlans
    \/ op = "Activate" /\ pl \in ActivatePlans

\* The step that comes after s.
Follows(op, s) ==
    CASE s = "connect" -> IF op = "Configure" THEN "configure" ELSE "stage"
      [] s = "disconnectStaged" -> "discard"
      [] s = "promote" -> "intent"
      [] s = "intent" -> "uncredential"
      [] s = "uncredential" -> "disconnect"
      [] s = "disconnect" -> "ready"
      [] s = "ready" -> IF op = "Activate" THEN "unstage" ELSE "finish"
      [] OTHER -> "finish"

\* The operations whose plans have the step s.
Owners(s) ==
    CASE s = "connect" -> {"Configure", "Stage"}
      [] s = "configure" -> {"Configure"}
      [] s = "stage" -> {"Stage"}
      [] s = "migrate" -> {"Migrate"}
      [] s \in {"disconnectStaged", "discard"} -> {"Unstage"}
      [] s \in {"promote", "unstage"} -> {"Activate"}
      [] s \in {"intent", "uncredential", "disconnect", "ready"} ->
           {"Deconfigure", "Activate"}
      [] OTHER -> AllOps

WellFormed(c) == c.op \in {"Configure", "Stage"} => c.kind \in Kinds

\* A change is one some handler submits.
ChangeInv ==
    \/ change = NoChange /\ status = "open"
    \/ /\ change \in [op : AllOps, prov : Providers,
                      kind : Kinds \cup {"none"}, repl : Providers \cup {None}]
       /\ WellFormed(change)

Submitting ==
    [pc : {"submit"}, op : AllOps, prov : Providers,
     kind : Kinds \cup {"none"}, repl : Providers \cup {None}, clean : BOOLEAN]

\* A request about to submit a configuration found no cleanup pending.
ReqInv ==
    /\ req \in [Requests -> {Idle, [pc |-> "wait"]} \cup Submitting]
    /\ \A h \in Requests : req[h].pc = "submit" =>
          /\ WellFormed(req[h])
          /\ req[h].op \in {"Configure", "Stage"} => req[h].clean = TRUE

PlanInv == at # "idle" => status = "open" /\ Shape(change.op, plan)

Open(op) == change.op = op /\ status = "open"

\* Only an Unstage that has yet to discard the staging may leave a staged
\* configuration without the connection it needs.
ScimInv ==
    \A p \in Providers :
        /\ active[p] = "scim" => conn = p
        /\ staged[p] = "scim" /\ conn # p =>
              Open("Unstage") /\ change.prov = p /\ at # "finish"

Stranded == conn # None /\ active[conn] = "none" /\ ~Staged(conn)

\* A connection that serves nothing belongs to an open change whose every
\* retry is accepted and sees to it, unless one overlooks the provider in use.
StrandInv ==
    Stranded /\ ~(unread = TRUE) =>
        /\ at # "finish"
        /\ \/ /\ Open("Configure") /\ change.prov = conn
              /\ \A p \in Providers : active[p] = "none"
           \/ /\ Open("Stage") /\ change.prov = conn
              /\ \E p \in Providers : active[p] # "none"
              /\ \A p \in Providers : ~Staged(p)
           \/ /\ Open("Activate") /\ change.repl = conn /\ change.prov # conn
              /\ active[change.prov] # "none"
           \/ Open("Deconfigure") /\ change.prov = conn

\* Two providers are configured only in a switch between them, while the
\* incoming one is staged: a retry of the switch is then never refused.
OneInv ==
    \A p, q \in Providers :
        active[p] # "none" /\ active[q] # "none" /\ p # q /\ ~(unread = TRUE) =>
            /\ Open("Activate") /\ at # "finish"
            /\ p \in {change.prov, change.repl} /\ q \in {change.prov, change.repl}
            /\ Staged(change.prov)

StagedInv == \A p, q \in Providers : Staged(p) /\ Staged(q) => p = q

\* A configuration under way has no cleanup in its way, or one that overlapped
\* its request.
FreshInv ==
    change.op \in {"Configure", "Stage"} =>
        NoCleanup(change.prov) \/ overlap[change.prov] = TRUE

\* A provider in use has a pending cleanup only because it overlapped, or
\* because the change that removes the provider has recorded the intent: it is
\* still open, or its retry overlooked the provider and was refused.
CleanupInv ==
    \A p \in Providers :
        (active[p] # "none" \/ Staged(p)) /\ ~NoCleanup(p) =>
            \/ overlap[p] = TRUE
            \/ /\ active[p] # "none" /\ ~Staged(p) /\ cleanup[p] = "waiting"
               /\ \/ unread = TRUE
                  \/ Open("Deconfigure") /\ change.prov = p
                  \/ /\ Open("Activate") /\ change.repl = p /\ change.prov # p
                     /\ active[change.prov] # "none"

\* What a serving provider brought, stored or yet to be stored.
Brought(p) == groups[p] = "served" \/ inflight[p] \in {"served", "pushed"}

\* GroupsHaveCleanup, of the data on its way into the database as well.
GroupsInv ==
    \A p \in Providers :
        Brought(p) /\ active[p] = "none" =>
            cleanup[p] \in {"waiting", "ready"} \/ overlap[p] = TRUE

\* What each operation may rely on at each of its steps.
Going(op) == change.op = op /\ at # "idle"

ConfigureInv ==
    Going("Configure") =>
        /\ \/ unread = TRUE
           \/ \A p \in Providers : p # change.prov => active[p] = "none"
        /\ at = "connect" => active[change.prov] = "none"
        /\ at = "configure" /\ change.kind = "scim" => conn = change.prov
        /\ at = "finish" => active[change.prov] # "none"

StageInv ==
    Going("Stage") =>
        /\ \A p \in Providers : p # change.prov => ~Staged(p)
        /\ \E p \in Providers : p # change.prov /\ active[p] # "none"
        /\ at = "stage" /\ change.kind = "scim" => conn = change.prov
        /\ at = "finish" => Staged(change.prov)

MigrateInv ==
    Going("Migrate") =>
        /\ active[change.prov] # "none"
        /\ at = "migrate" => conn \in {None, change.prov} /\ NoCleanup(change.prov)

UnstageInv ==
    Going("Unstage") =>
        /\ at = "discard" /\ conn = change.prov /\ Staged(change.prov) =>
              active[change.prov] # "none"
        /\ at = "finish" => ~Staged(change.prov)

\* The removal of o, by a deconfiguration or as the outgoing one of a switch.
Removing(o) ==
    /\ ~Staged(o)
    /\ at = "uncredential" /\ active[o] # "none" =>
          cleanup[o] = "waiting" \/ overlap[o] = TRUE
    /\ at \in {"disconnect", "ready", "unstage", "finish"} => active[o] = "none"
    /\ at \in {"ready", "unstage", "finish"} => conn # o

DeconfigureInv == Going("Deconfigure") => Removing(change.prov)

ActivateInv ==
    Going("Activate") =>
        /\ change.repl \in Providers /\ change.repl # change.prov
        /\ Removing(change.repl)
        /\ \/ unread = TRUE
           \/ \A p \in Providers :
                 active[p] # "none" => p \in {change.prov, change.repl}
        /\ at = "promote" => Staged(change.prov)
        /\ at # "promote" => active[change.prov] # "none"
        /\ Staged(change.prov) \/ active[change.repl] = "none"

\* Where the credentials and the connection are.
CredInv == ScimInv /\ StrandInv /\ OneInv /\ StagedInv

\* Where the group data and the cleanups are.
DataInv == FreshInv /\ CleanupInv /\ GroupsInv /\ CleanupNotBlocked

StepInv ==
    /\ ConfigureInv /\ StageInv /\ MigrateInv /\ UnstageInv
    /\ DeconfigureInv /\ ActivateInv

Inv ==
    /\ TypeOK /\ ChangeInv /\ ReqInv /\ PlanInv
    /\ CredInv /\ DataInv /\ StepInv

-----------------------------------------------------------------------------
(* Sequences: the plans, their first steps and what is left after them *)

\* A concatenation is the sequence that has both parts in their places.
LEMMA SameParts ==
    ASSUME NEW S, NEW s \in Seq(S), NEW t \in Seq(S), NEW u \in Seq(S),
           Len(u) = Len(s) + Len(t),
           \A i \in 1 .. Len(s) : u[i] = s[i],
           \A i \in 1 .. Len(t) : u[Len(s) + i] = t[i]
    PROVE  s \o t = u
<1>1. /\ s \o t \in Seq(S) /\ Len(s \o t) = Len(s) + Len(t)
      /\ \A i \in 1 .. Len(s) + Len(t) :
            (s \o t)[i] = IF i <= Len(s) THEN s[i] ELSE t[i - Len(s)]
  BY ConcatProperties
<1>2. Len(s) \in Nat /\ Len(t) \in Nat
  OBVIOUS
<1>3. ASSUME NEW i \in 1 .. Len(s) + Len(t) PROVE (s \o t)[i] = u[i]
  <2>1. CASE i <= Len(s)
    BY <1>1, <1>2, <1>3, <2>1
  <2>2. CASE ~(i <= Len(s))
    <3>1. i - Len(s) \in 1 .. Len(t) /\ Len(s) + (i - Len(s)) = i
      BY <1>2, <1>3, <2>2
    <3>2. QED
      BY <1>1, <1>2, <1>3, <2>2, <3>1
  <2>3. QED
    BY <2>1, <2>2
<1>4. QED
  BY <1>1, <1>3, SeqEqual

\* Configure, with a connection to create first.
LEMMA ConfigureCat ==
    <<"connect">> \o <<"configure", "finish">>
        = <<"connect", "configure", "finish">>
<1> DEFINE s == <<"connect">>
           t == <<"configure", "finish">>
           u == <<"connect", "configure", "finish">>
<1>1. s \in Seq(StepNames) /\ t \in Seq(StepNames) /\ u \in Seq(StepNames)
  BY DEF StepNames
<1>2. Len(s) = 1 /\ Len(t) = 2 /\ Len(u) = 3
  OBVIOUS
<1>3. u[1] = s[1]
  OBVIOUS
<1>4. u[2] = t[1] /\ u[3] = t[2]
  OBVIOUS
<1> HIDE DEF s, t, u
<1>5. \A i \in 1 .. Len(s) : u[i] = s[i]
  BY <1>2, <1>3
<1>6. \A i \in 1 .. Len(t) : u[Len(s) + i] = t[i]
  BY <1>2, <1>4
<1>7. Len(u) = Len(s) + Len(t)
  BY <1>2
<1>8. s \o t = u
  BY <1>1, <1>5, <1>6, <1>7, SameParts, Zenon
<1>9. QED
  BY <1>8 DEF s, t, u

\* Stage, with a connection to create first.
LEMMA StageCat ==
    <<"connect">> \o <<"stage", "finish">>
        = <<"connect", "stage", "finish">>
<1> DEFINE s == <<"connect">>
           t == <<"stage", "finish">>
           u == <<"connect", "stage", "finish">>
<1>1. s \in Seq(StepNames) /\ t \in Seq(StepNames) /\ u \in Seq(StepNames)
  BY DEF StepNames
<1>2. Len(s) = 1 /\ Len(t) = 2 /\ Len(u) = 3
  OBVIOUS
<1>3. u[1] = s[1]
  OBVIOUS
<1>4. u[2] = t[1] /\ u[3] = t[2]
  OBVIOUS
<1> HIDE DEF s, t, u
<1>5. \A i \in 1 .. Len(s) : u[i] = s[i]
  BY <1>2, <1>3
<1>6. \A i \in 1 .. Len(t) : u[Len(s) + i] = t[i]
  BY <1>2, <1>4
<1>7. Len(u) = Len(s) + Len(t)
  BY <1>2
<1>8. s \o t = u
  BY <1>1, <1>5, <1>6, <1>7, SameParts, Zenon
<1>9. QED
  BY <1>8 DEF s, t, u

\* Deconfigure.
LEMMA DeconfigureCat ==
    <<"intent", "uncredential", "disconnect", "ready">> \o <<"finish">>
        = <<"intent", "uncredential", "disconnect", "ready", "finish">>
<1> DEFINE s == <<"intent", "uncredential", "disconnect", "ready">>
           t == <<"finish">>
           u == <<"intent", "uncredential", "disconnect", "ready", "finish">>
<1>1. s \in Seq(StepNames) /\ t \in Seq(StepNames) /\ u \in Seq(StepNames)
  BY DEF StepNames
<1>2. Len(s) = 4 /\ Len(t) = 1 /\ Len(u) = 5
  OBVIOUS
<1>3. u[1] = s[1] /\ u[2] = s[2] /\ u[3] = s[3] /\ u[4] = s[4]
  OBVIOUS
<1>4. u[5] = t[1]
  OBVIOUS
<1> HIDE DEF s, t, u
<1>5. \A i \in 1 .. Len(s) : u[i] = s[i]
  BY <1>2, <1>3
<1>6. \A i \in 1 .. Len(t) : u[Len(s) + i] = t[i]
  BY <1>2, <1>4
<1>7. Len(u) = Len(s) + Len(t)
  BY <1>2
<1>8. s \o t = u
  BY <1>1, <1>5, <1>6, <1>7, SameParts, Zenon
<1>9. QED
  BY <1>8 DEF s, t, u

\* A switch that resumes after its provider was promoted and unstaged.
LEMMA ResumeCat ==
    <<"intent", "uncredential", "disconnect", "ready">> \o <<"unstage", "finish">>
        = <<"intent", "uncredential", 
             "disconnect", "ready", "unstage", "finish">>
<1> DEFINE s == <<"intent", "uncredential", "disconnect", "ready">>
           t == <<"unstage", "finish">>
           u == <<"intent", "uncredential", 
                  "disconnect", "ready", "unstage", "finish">>
<1>1. s \in Seq(StepNames) /\ t \in Seq(StepNames) /\ u \in Seq(StepNames)
  BY DEF StepNames
<1>2. Len(s) = 4 /\ Len(t) = 2 /\ Len(u) = 6
  OBVIOUS
<1>3. u[1] = s[1] /\ u[2] = s[2] /\ u[3] = s[3] /\ u[4] = s[4]
  OBVIOUS
<1>4. u[5] = t[1] /\ u[6] = t[2]
  OBVIOUS
<1> HIDE DEF s, t, u
<1>5. \A i \in 1 .. Len(s) : u[i] = s[i]
  BY <1>2, <1>3
<1>6. \A i \in 1 .. Len(t) : u[Len(s) + i] = t[i]
  BY <1>2, <1>4
<1>7. Len(u) = Len(s) + Len(t)
  BY <1>2
<1>8. s \o t = u
  BY <1>1, <1>5, <1>6, <1>7, SameParts, Zenon
<1>9. QED
  BY <1>8 DEF s, t, u

\* A switch, up to the removal of the outgoing provider.
LEMMA PromoteCat ==
    <<"promote">> \o <<"intent", "uncredential", "disconnect", "ready">>
        = <<"promote", "intent", "uncredential", "disconnect", "ready">>
<1> DEFINE s == <<"promote">>
           t == <<"intent", "uncredential", "disconnect", "ready">>
           u == <<"promote", "intent", "uncredential", "disconnect", "ready">>
<1>1. s \in Seq(StepNames) /\ t \in Seq(StepNames) /\ u \in Seq(StepNames)
  BY DEF StepNames
<1>2. Len(s) = 1 /\ Len(t) = 4 /\ Len(u) = 5
  OBVIOUS
<1>3. u[1] = s[1]
  OBVIOUS
<1>4. u[2] = t[1] /\ u[3] = t[2] /\ u[4] = t[3] /\ u[5] = t[4]
  OBVIOUS
<1> HIDE DEF s, t, u
<1>5. \A i \in 1 .. Len(s) : u[i] = s[i]
  BY <1>2, <1>3
<1>6. \A i \in 1 .. Len(t) : u[Len(s) + i] = t[i]
  BY <1>2, <1>4
<1>7. Len(u) = Len(s) + Len(t)
  BY <1>2
<1>8. s \o t = u
  BY <1>1, <1>5, <1>6, <1>7, SameParts, Zenon
<1>9. QED
  BY <1>8 DEF s, t, u

\* A whole switch.
LEMMA SwitchCat ==
    <<"promote", "intent", "uncredential", "disconnect", "ready">> \o <<"unstage", "finish">>
        = <<"promote", "intent", "uncredential", 
             "disconnect", "ready", "unstage", "finish">>
<1> DEFINE s == <<"promote", "intent", "uncredential", "disconnect", "ready">>
           t == <<"unstage", "finish">>
           u == <<"promote", "intent", "uncredential", 
                  "disconnect", "ready", "unstage", "finish">>
<1>1. s \in Seq(StepNames) /\ t \in Seq(StepNames) /\ u \in Seq(StepNames)
  BY DEF StepNames
<1>2. Len(s) = 5 /\ Len(t) = 2 /\ Len(u) = 7
  OBVIOUS
<1>3. u[1] = s[1] /\ u[2] = s[2] /\ u[3] = s[3] /\ u[4] = s[4] /\ u[5] = s[5]
  OBVIOUS
<1>4. u[6] = t[1] /\ u[7] = t[2]
  OBVIOUS
<1> HIDE DEF s, t, u
<1>5. \A i \in 1 .. Len(s) : u[i] = s[i]
  BY <1>2, <1>3
<1>6. \A i \in 1 .. Len(t) : u[Len(s) + i] = t[i]
  BY <1>2, <1>4
<1>7. Len(u) = Len(s) + Len(t)
  BY <1>2
<1>8. s \o t = u
  BY <1>1, <1>5, <1>6, <1>7, SameParts, Zenon
<1>9. QED
  BY <1>8 DEF s, t, u

\* The plans of a Configure, step by step.
LEMMA ConfigureSteps ==
    ASSUME NEW pl \in ConfigurePlans
    PROVE  /\ pl \in Seq(StepNames) /\ Tail(pl) \in Seq(StepNames)
           /\ pl # << >> /\ At(pl) = Head(pl)
           /\ At(pl) \in {"connect", "configure", "finish"}
           /\ At(pl) = "connect" =>
                 Tail(pl) \in ConfigurePlans /\ At(Tail(pl)) = "configure"
           /\ At(pl) = "configure" =>
                 Tail(pl) \in ConfigurePlans /\ At(Tail(pl)) = "finish"
<1>1. CASE pl = <<"connect", "configure", "finish">>
  <2>1. Head(pl) = "connect" /\ Tail(pl) = <<"configure", "finish">>
    BY <1>1
  <2>2. pl # << >> /\ Tail(pl) # << >> /\ Head(Tail(pl)) = "configure"
    BY <1>1, <2>1
  <2>3. pl \in Seq(StepNames) /\ Tail(pl) \in Seq(StepNames)
    BY <1>1, <2>1 DEF StepNames
  <2>4. Tail(pl) \in ConfigurePlans
    BY <2>1 DEF ConfigurePlans
  <2>5. At(pl) = "connect" /\ At(Tail(pl)) = "configure"
    BY <2>1, <2>2 DEF At
  <2>6. QED
    BY <2>1, <2>2, <2>3, <2>4, <2>5
<1>2. CASE pl = <<"configure", "finish">>
  <2>1. Head(pl) = "configure" /\ Tail(pl) = <<"finish">>
    BY <1>2
  <2>2. pl # << >> /\ Tail(pl) # << >> /\ Head(Tail(pl)) = "finish"
    BY <1>2, <2>1
  <2>3. pl \in Seq(StepNames) /\ Tail(pl) \in Seq(StepNames)
    BY <1>2, <2>1 DEF StepNames
  <2>4. Tail(pl) \in ConfigurePlans
    BY <2>1 DEF ConfigurePlans
  <2>5. At(pl) = "configure" /\ At(Tail(pl)) = "finish"
    BY <2>1, <2>2 DEF At
  <2>6. QED
    BY <2>1, <2>2, <2>3, <2>4, <2>5
<1>3. CASE pl = <<"finish">>
  <2>1. Head(pl) = "finish" /\ Tail(pl) = << >> /\ pl # << >>
    BY <1>3
  <2>2. pl \in Seq(StepNames) /\ Tail(pl) \in Seq(StepNames)
    BY <1>3, <2>1 DEF StepNames
  <2>3. QED
    BY <2>1, <2>2 DEF At
<1>4. QED
  BY <1>1, <1>2, <1>3 DEF ConfigurePlans

\* The plans of a Stage.
LEMMA StageSteps ==
    ASSUME NEW pl \in StagePlans
    PROVE  /\ pl \in Seq(StepNames) /\ Tail(pl) \in Seq(StepNames)
           /\ pl # << >> /\ At(pl) = Head(pl)
           /\ At(pl) \in {"connect", "stage", "finish"}
           /\ At(pl) = "connect" =>
                 Tail(pl) \in StagePlans /\ At(Tail(pl)) = "stage"
           /\ At(pl) = "stage" =>
                 Tail(pl) \in StagePlans /\ At(Tail(pl)) = "finish"
<1>1. CASE pl = <<"connect", "stage", "finish">>
  <2>1. Head(pl) = "connect" /\ Tail(pl) = <<"stage", "finish">>
    BY <1>1
  <2>2. pl # << >> /\ Tail(pl) # << >> /\ Head(Tail(pl)) = "stage"
    BY <1>1, <2>1
  <2>3. pl \in Seq(StepNames) /\ Tail(pl) \in Seq(StepNames)
    BY <1>1, <2>1 DEF StepNames
  <2>4. Tail(pl) \in StagePlans
    BY <2>1 DEF StagePlans
  <2>5. At(pl) = "connect" /\ At(Tail(pl)) = "stage"
    BY <2>1, <2>2 DEF At
  <2>6. QED
    BY <2>1, <2>2, <2>3, <2>4, <2>5
<1>2. CASE pl = <<"stage", "finish">>
  <2>1. Head(pl) = "stage" /\ Tail(pl) = <<"finish">>
    BY <1>2
  <2>2. pl # << >> /\ Tail(pl) # << >> /\ Head(Tail(pl)) = "finish"
    BY <1>2, <2>1
  <2>3. pl \in Seq(StepNames) /\ Tail(pl) \in Seq(StepNames)
    BY <1>2, <2>1 DEF StepNames
  <2>4. Tail(pl) \in StagePlans
    BY <2>1 DEF StagePlans
  <2>5. At(pl) = "stage" /\ At(Tail(pl)) = "finish"
    BY <2>1, <2>2 DEF At
  <2>6. QED
    BY <2>1, <2>2, <2>3, <2>4, <2>5
<1>3. CASE pl = <<"finish">>
  <2>1. Head(pl) = "finish" /\ Tail(pl) = << >> /\ pl # << >>
    BY <1>3
  <2>2. pl \in Seq(StepNames) /\ Tail(pl) \in Seq(StepNames)
    BY <1>3, <2>1 DEF StepNames
  <2>3. QED
    BY <2>1, <2>2 DEF At
<1>4. QED
  BY <1>1, <1>2, <1>3 DEF StagePlans

\* The plans of a Migrate.
LEMMA MigrateSteps ==
    ASSUME NEW pl \in MigratePlans
    PROVE  /\ pl \in Seq(StepNames) /\ Tail(pl) \in Seq(StepNames)
           /\ pl # << >> /\ At(pl) = Head(pl)
           /\ At(pl) \in {"migrate", "finish"}
           /\ At(pl) = "migrate" =>
                 Tail(pl) \in MigratePlans /\ At(Tail(pl)) = "finish"
<1>1. CASE pl = <<"migrate", "finish">>
  <2>1. Head(pl) = "migrate" /\ Tail(pl) = <<"finish">>
    BY <1>1
  <2>2. pl # << >> /\ Tail(pl) # << >> /\ Head(Tail(pl)) = "finish"
    BY <1>1, <2>1
  <2>3. pl \in Seq(StepNames) /\ Tail(pl) \in Seq(StepNames)
    BY <1>1, <2>1 DEF StepNames
  <2>4. Tail(pl) \in MigratePlans
    BY <2>1 DEF MigratePlans
  <2>5. At(pl) = "migrate" /\ At(Tail(pl)) = "finish"
    BY <2>1, <2>2 DEF At
  <2>6. QED
    BY <2>1, <2>2, <2>3, <2>4, <2>5
<1>2. CASE pl = <<"finish">>
  <2>1. Head(pl) = "finish" /\ Tail(pl) = << >> /\ pl # << >>
    BY <1>2
  <2>2. pl \in Seq(StepNames) /\ Tail(pl) \in Seq(StepNames)
    BY <1>2, <2>1 DEF StepNames
  <2>3. QED
    BY <2>1, <2>2 DEF At
<1>3. QED
  BY <1>1, <1>2 DEF MigratePlans

\* The plans of an Unstage.
LEMMA UnstageSteps ==
    ASSUME NEW pl \in UnstagePlans
    PROVE  /\ pl \in Seq(StepNames) /\ Tail(pl) \in Seq(StepNames)
           /\ pl # << >> /\ At(pl) = Head(pl)
           /\ At(pl) \in {"disconnectStaged", "discard", "finish"}
           /\ At(pl) = "disconnectStaged" =>
                 Tail(pl) \in UnstagePlans /\ At(Tail(pl)) = "discard"
           /\ At(pl) = "discard" =>
                 Tail(pl) \in UnstagePlans /\ At(Tail(pl)) = "finish"
<1>1. CASE pl = <<"disconnectStaged", "discard", "finish">>
  <2>1. Head(pl) = "disconnectStaged" /\ Tail(pl) = <<"discard", "finish">>
    BY <1>1
  <2>2. pl # << >> /\ Tail(pl) # << >> /\ Head(Tail(pl)) = "discard"
    BY <1>1, <2>1
  <2>3. pl \in Seq(StepNames) /\ Tail(pl) \in Seq(StepNames)
    BY <1>1, <2>1 DEF StepNames
  <2>4. Tail(pl) \in UnstagePlans
    BY <2>1 DEF UnstagePlans
  <2>5. At(pl) = "disconnectStaged" /\ At(Tail(pl)) = "discard"
    BY <2>1, <2>2 DEF At
  <2>6. QED
    BY <2>1, <2>2, <2>3, <2>4, <2>5
<1>2. CASE pl = <<"discard", "finish">>
  <2>1. Head(pl) = "discard" /\ Tail(pl) = <<"finish">>
    BY <1>2
  <2>2. pl # << >> /\ Tail(pl) # << >> /\ Head(Tail(pl)) = "finish"
    BY <1>2, <2>1
  <2>3. pl \in Seq(StepNames) /\ Tail(pl) \in Seq(StepNames)
    BY <1>2, <2>1 DEF StepNames
  <2>4. Tail(pl) \in UnstagePlans
    BY <2>1 DEF UnstagePlans
  <2>5. At(pl) = "discard" /\ At(Tail(pl)) = "finish"
    BY <2>1, <2>2 DEF At
  <2>6. QED
    BY <2>1, <2>2, <2>3, <2>4, <2>5
<1>3. CASE pl = <<"finish">>
  <2>1. Head(pl) = "finish" /\ Tail(pl) = << >> /\ pl # << >>
    BY <1>3
  <2>2. pl \in Seq(StepNames) /\ Tail(pl) \in Seq(StepNames)
    BY <1>3, <2>1 DEF StepNames
  <2>3. QED
    BY <2>1, <2>2 DEF At
<1>4. QED
  BY <1>1, <1>2, <1>3 DEF UnstagePlans

\* The plans of a Deconfigure.
LEMMA DeconfigureSteps ==
    ASSUME NEW pl \in DeconfigurePlans
    PROVE  /\ pl \in Seq(StepNames) /\ Tail(pl) \in Seq(StepNames)
           /\ pl # << >> /\ At(pl) = Head(pl)
           /\ At(pl) \in {"intent", "uncredential", "disconnect", "ready",
                         "finish"}
           /\ At(pl) = "intent" =>
                 Tail(pl) \in DeconfigurePlans /\ At(Tail(pl)) = "uncredential"
           /\ At(pl) = "uncredential" =>
                 Tail(pl) \in DeconfigurePlans /\ At(Tail(pl)) = "disconnect"
           /\ At(pl) = "disconnect" =>
                 Tail(pl) \in DeconfigurePlans /\ At(Tail(pl)) = "ready"
           /\ At(pl) = "ready" =>
                 Tail(pl) \in DeconfigurePlans /\ At(Tail(pl)) = "finish"
<1>1. CASE pl = <<"intent", "uncredential", "disconnect", "ready", "finish">>
  <2>1. Head(pl) = "intent" /\ Tail(pl) = <<"uncredential", "disconnect", "ready", "finish">>
    BY <1>1
  <2>2. pl # << >> /\ Tail(pl) # << >> /\ Head(Tail(pl)) = "uncredential"
    BY <1>1, <2>1
  <2>3. pl \in Seq(StepNames) /\ Tail(pl) \in Seq(StepNames)
    BY <1>1, <2>1 DEF StepNames
  <2>4. Tail(pl) \in DeconfigurePlans
    BY <2>1 DEF DeconfigurePlans
  <2>5. At(pl) = "intent" /\ At(Tail(pl)) = "uncredential"
    BY <2>1, <2>2 DEF At
  <2>6. QED
    BY <2>1, <2>2, <2>3, <2>4, <2>5
<1>2. CASE pl = <<"uncredential", "disconnect", "ready", "finish">>
  <2>1. Head(pl) = "uncredential" /\ Tail(pl) = <<"disconnect", "ready", "finish">>
    BY <1>2
  <2>2. pl # << >> /\ Tail(pl) # << >> /\ Head(Tail(pl)) = "disconnect"
    BY <1>2, <2>1
  <2>3. pl \in Seq(StepNames) /\ Tail(pl) \in Seq(StepNames)
    BY <1>2, <2>1 DEF StepNames
  <2>4. Tail(pl) \in DeconfigurePlans
    BY <2>1 DEF DeconfigurePlans
  <2>5. At(pl) = "uncredential" /\ At(Tail(pl)) = "disconnect"
    BY <2>1, <2>2 DEF At
  <2>6. QED
    BY <2>1, <2>2, <2>3, <2>4, <2>5
<1>3. CASE pl = <<"disconnect", "ready", "finish">>
  <2>1. Head(pl) = "disconnect" /\ Tail(pl) = <<"ready", "finish">>
    BY <1>3
  <2>2. pl # << >> /\ Tail(pl) # << >> /\ Head(Tail(pl)) = "ready"
    BY <1>3, <2>1
  <2>3. pl \in Seq(StepNames) /\ Tail(pl) \in Seq(StepNames)
    BY <1>3, <2>1 DEF StepNames
  <2>4. Tail(pl) \in DeconfigurePlans
    BY <2>1 DEF DeconfigurePlans
  <2>5. At(pl) = "disconnect" /\ At(Tail(pl)) = "ready"
    BY <2>1, <2>2 DEF At
  <2>6. QED
    BY <2>1, <2>2, <2>3, <2>4, <2>5
<1>4. CASE pl = <<"ready", "finish">>
  <2>1. Head(pl) = "ready" /\ Tail(pl) = <<"finish">>
    BY <1>4
  <2>2. pl # << >> /\ Tail(pl) # << >> /\ Head(Tail(pl)) = "finish"
    BY <1>4, <2>1
  <2>3. pl \in Seq(StepNames) /\ Tail(pl) \in Seq(StepNames)
    BY <1>4, <2>1 DEF StepNames
  <2>4. Tail(pl) \in DeconfigurePlans
    BY <2>1 DEF DeconfigurePlans
  <2>5. At(pl) = "ready" /\ At(Tail(pl)) = "finish"
    BY <2>1, <2>2 DEF At
  <2>6. QED
    BY <2>1, <2>2, <2>3, <2>4, <2>5
<1>5. CASE pl = <<"finish">>
  <2>1. Head(pl) = "finish" /\ Tail(pl) = << >> /\ pl # << >>
    BY <1>5
  <2>2. pl \in Seq(StepNames) /\ Tail(pl) \in Seq(StepNames)
    BY <1>5, <2>1 DEF StepNames
  <2>3. QED
    BY <2>1, <2>2 DEF At
<1>6. QED
  BY <1>1, <1>2, <1>3, <1>4, <1>5 DEF DeconfigurePlans

\* The plans of a switch.
LEMMA ActivateSteps ==
    ASSUME NEW pl \in ActivatePlans
    PROVE  /\ pl \in Seq(StepNames) /\ Tail(pl) \in Seq(StepNames)
           /\ pl # << >> /\ At(pl) = Head(pl)
           /\ At(pl) \in {"promote", "intent", "uncredential", "disconnect",
                         "ready", "unstage", "finish"}
           /\ At(pl) = "promote" =>
                 Tail(pl) \in ActivatePlans /\ At(Tail(pl)) = "intent"
           /\ At(pl) = "intent" =>
                 Tail(pl) \in ActivatePlans /\ At(Tail(pl)) = "uncredential"
           /\ At(pl) = "uncredential" =>
                 Tail(pl) \in ActivatePlans /\ At(Tail(pl)) = "disconnect"
           /\ At(pl) = "disconnect" =>
                 Tail(pl) \in ActivatePlans /\ At(Tail(pl)) = "ready"
           /\ At(pl) = "ready" =>
                 Tail(pl) \in ActivatePlans /\ At(Tail(pl)) = "unstage"
           /\ At(pl) = "unstage" =>
                 Tail(pl) \in ActivatePlans /\ At(Tail(pl)) = "finish"
<1>1. CASE pl = <<"promote", "intent", "uncredential", "disconnect", 
               "ready", "unstage", "finish">>
  <2>1. /\ Head(pl) = "promote"
        /\ Tail(pl) = <<"intent", "uncredential", "disconnect", "ready", "unstage", "finish">>
    BY <1>1
  <2>2. pl # << >> /\ Tail(pl) # << >> /\ Head(Tail(pl)) = "intent"
    BY <1>1, <2>1
  <2>3. pl \in Seq(StepNames) /\ Tail(pl) \in Seq(StepNames)
    BY <1>1, <2>1 DEF StepNames
  <2>4. Tail(pl) \in ActivatePlans
    BY <2>1 DEF ActivatePlans
  <2>5. At(pl) = "promote" /\ At(Tail(pl)) = "intent"
    BY <2>1, <2>2 DEF At
  <2>6. QED
    BY <2>1, <2>2, <2>3, <2>4, <2>5
<1>2. CASE pl = <<"intent", "uncredential", "disconnect", 
               "ready", "unstage", "finish">>
  <2>1. /\ Head(pl) = "intent"
        /\ Tail(pl) = <<"uncredential", "disconnect", "ready", "unstage", "finish">>
    BY <1>2
  <2>2. pl # << >> /\ Tail(pl) # << >> /\ Head(Tail(pl)) = "uncredential"
    BY <1>2, <2>1
  <2>3. pl \in Seq(StepNames) /\ Tail(pl) \in Seq(StepNames)
    BY <1>2, <2>1 DEF StepNames
  <2>4. Tail(pl) \in ActivatePlans
    BY <2>1 DEF ActivatePlans
  <2>5. At(pl) = "intent" /\ At(Tail(pl)) = "uncredential"
    BY <2>1, <2>2 DEF At
  <2>6. QED
    BY <2>1, <2>2, <2>3, <2>4, <2>5
<1>3. CASE pl = <<"uncredential", "disconnect", "ready", "unstage", "finish">>
  <2>1. Head(pl) = "uncredential" /\ Tail(pl) = <<"disconnect", "ready", "unstage", "finish">>
    BY <1>3
  <2>2. pl # << >> /\ Tail(pl) # << >> /\ Head(Tail(pl)) = "disconnect"
    BY <1>3, <2>1
  <2>3. pl \in Seq(StepNames) /\ Tail(pl) \in Seq(StepNames)
    BY <1>3, <2>1 DEF StepNames
  <2>4. Tail(pl) \in ActivatePlans
    BY <2>1 DEF ActivatePlans
  <2>5. At(pl) = "uncredential" /\ At(Tail(pl)) = "disconnect"
    BY <2>1, <2>2 DEF At
  <2>6. QED
    BY <2>1, <2>2, <2>3, <2>4, <2>5
<1>4. CASE pl = <<"disconnect", "ready", "unstage", "finish">>
  <2>1. Head(pl) = "disconnect" /\ Tail(pl) = <<"ready", "unstage", "finish">>
    BY <1>4
  <2>2. pl # << >> /\ Tail(pl) # << >> /\ Head(Tail(pl)) = "ready"
    BY <1>4, <2>1
  <2>3. pl \in Seq(StepNames) /\ Tail(pl) \in Seq(StepNames)
    BY <1>4, <2>1 DEF StepNames
  <2>4. Tail(pl) \in ActivatePlans
    BY <2>1 DEF ActivatePlans
  <2>5. At(pl) = "disconnect" /\ At(Tail(pl)) = "ready"
    BY <2>1, <2>2 DEF At
  <2>6. QED
    BY <2>1, <2>2, <2>3, <2>4, <2>5
<1>5. CASE pl = <<"ready", "unstage", "finish">>
  <2>1. Head(pl) = "ready" /\ Tail(pl) = <<"unstage", "finish">>
    BY <1>5
  <2>2. pl # << >> /\ Tail(pl) # << >> /\ Head(Tail(pl)) = "unstage"
    BY <1>5, <2>1
  <2>3. pl \in Seq(StepNames) /\ Tail(pl) \in Seq(StepNames)
    BY <1>5, <2>1 DEF StepNames
  <2>4. Tail(pl) \in ActivatePlans
    BY <2>1 DEF ActivatePlans
  <2>5. At(pl) = "ready" /\ At(Tail(pl)) = "unstage"
    BY <2>1, <2>2 DEF At
  <2>6. QED
    BY <2>1, <2>2, <2>3, <2>4, <2>5
<1>6. CASE pl = <<"unstage", "finish">>
  <2>1. Head(pl) = "unstage" /\ Tail(pl) = <<"finish">>
    BY <1>6
  <2>2. pl # << >> /\ Tail(pl) # << >> /\ Head(Tail(pl)) = "finish"
    BY <1>6, <2>1
  <2>3. pl \in Seq(StepNames) /\ Tail(pl) \in Seq(StepNames)
    BY <1>6, <2>1 DEF StepNames
  <2>4. Tail(pl) \in ActivatePlans
    BY <2>1 DEF ActivatePlans
  <2>5. At(pl) = "unstage" /\ At(Tail(pl)) = "finish"
    BY <2>1, <2>2 DEF At
  <2>6. QED
    BY <2>1, <2>2, <2>3, <2>4, <2>5
<1>7. CASE pl = <<"finish">>
  <2>1. Head(pl) = "finish" /\ Tail(pl) = << >> /\ pl # << >>
    BY <1>7
  <2>2. pl \in Seq(StepNames) /\ Tail(pl) \in Seq(StepNames)
    BY <1>7, <2>1 DEF StepNames
  <2>3. QED
    BY <2>1, <2>2 DEF At
<1>8. QED
  BY <1>1, <1>2, <1>3, <1>4, <1>5, <1>6, <1>7 DEF ActivatePlans

\* Which operation is at a step, and where it goes from there.
LEMMA ShapeSteps ==
    ASSUME NEW op, NEW pl, Shape(op, pl)
    PROVE  /\ pl \in Seq(StepNames) /\ Tail(pl) \in Seq(StepNames)
           /\ pl # << >> /\ At(pl) = Head(pl) /\ At(pl) # "idle"
           /\ op \in Owners(At(pl))
           /\ At(pl) # "finish" =>
                 Shape(op, Tail(pl)) /\ At(Tail(pl)) = Follows(op, At(pl))
<1>1. CASE op = "Configure" /\ pl \in ConfigurePlans
  BY <1>1, ConfigureSteps DEF Shape, Owners, Follows, AllOps, Ops
<1>2. CASE op = "Stage" /\ pl \in StagePlans
  BY <1>2, StageSteps DEF Shape, Owners, Follows, AllOps, Ops
<1>3. CASE op = "Migrate" /\ pl \in MigratePlans
  BY <1>3, MigrateSteps DEF Shape, Owners, Follows, AllOps, Ops
<1>4. CASE op = "Unstage" /\ pl \in UnstagePlans
  BY <1>4, UnstageSteps DEF Shape, Owners, Follows, AllOps, Ops
<1>5. CASE op = "Deconfigure" /\ pl \in DeconfigurePlans
  BY <1>5, DeconfigureSteps DEF Shape, Owners, Follows, AllOps, Ops
<1>6. CASE op = "Activate" /\ pl \in ActivatePlans
  BY <1>6, ActivateSteps DEF Shape, Owners, Follows, AllOps, Ops
<1>7. QED
  BY <1>1, <1>2, <1>3, <1>4, <1>5, <1>6 DEF Shape

-----------------------------------------------------------------------------
(* The controller's steps *)

\* The step the controller is at says which change it carries out.
LEMMA StepFacts ==
    ASSUME Inv, NEW s \in StepNames, Step(s)
    PROVE  /\ at = s /\ status = "open" /\ change # NoChange
           /\ change.op \in AllOps /\ change.op \in Owners(s)
           /\ change.prov \in Providers /\ change.kind \in Kinds \cup {"none"}
           /\ change.repl \in Providers \cup {None} /\ WellFormed(change)
           /\ Shape(change.op, plan) /\ plan # << >>
<1>1. plan # << >> /\ Head(plan) = s /\ status = "open"
  BY DEF Step
<1>2. at = s
  BY <1>1 DEF at, At
<1>3. s # "idle"
  BY DEF StepNames
<1>4. Shape(change.op, plan)
  BY <1>2, <1>3 DEF Inv, PlanInv
<1>5. change # NoChange
  BY <1>1 DEF Inv, TypeOK
<1>6. change.op \in Owners(s)
  BY <1>2, <1>4, ShapeSteps DEF at
<1>7. QED
  BY <1>1, <1>2, <1>4, <1>5, <1>6 DEF Inv, ChangeInv

\* Going on to the next step.
LEMMA ContinueFacts ==
    ASSUME Inv, NEW s \in StepNames, Step(s), s # "finish", Continue, change' = change
    PROVE  /\ at' = Follows(change.op, s) /\ status' = "open"
           /\ plan' \in Seq(StepNames) /\ PlanInv' /\ ChangeInv'
<1>1. /\ Shape(change.op, plan) /\ at = s /\ status = "open"
      /\ change # NoChange
  BY StepFacts
<1>2. plan' = Tail(plan) /\ status' = status
  BY DEF Continue
<1>3. /\ Shape(change.op, Tail(plan)) /\ Tail(plan) \in Seq(StepNames)
      /\ At(Tail(plan)) = Follows(change.op, s)
  BY <1>1, ShapeSteps DEF at
<1>4. At(plan') = Follows(change.op, s)
  BY <1>2, <1>3
<1>5. at' = Follows(change.op, s)
  BY <1>4 DEF at
<1>6. PlanInv'
  BY <1>1, <1>2, <1>3 DEF PlanInv
<1>7. ChangeInv'
  BY <1>1, <1>2 DEF Inv, ChangeInv
<1>8. QED
  BY <1>1, <1>2, <1>3, <1>5, <1>6, <1>7

\* Ending the change, or beginning it again.
LEMMA EndFacts ==
    ASSUME plan' = << >>
    PROVE  at' = "idle" /\ plan' \in Seq(StepNames) /\ PlanInv'
<1>1. At(plan') = "idle"
  BY DEF At
<1>2. at' = "idle"
  BY <1>1 DEF at
<1>3. QED
  BY <1>2 DEF PlanInv

\* The parts of TypeOK that the controller's steps leave alone.
LEMMA WorkTypes ==
    ASSUME Inv, UNCHANGED <<change, req, login, counts, overlap>>, unread' \in BOOLEAN,
           status' \in {"open", "applied", "refused"}, plan' \in Seq(StepNames),
           plan' # << >> => change # NoChange /\ status' = "open",
           active' \in [Providers -> {"none"} \cup Kinds],
           staged' \in [Providers -> {"none"} \cup Kinds],
           conn' \in Providers \cup {None}, migrated' \in BOOLEAN,
           groups' \in [Providers -> {"none", "stray", "served"}],
           inflight' \in [Providers -> {"none", "stray", "served", "pushed"}],
           cleanup' \in [Providers -> {"none", "waiting", "ready", "users"}]
    PROVE  TypeOK' /\ ReqInv'
<1>1. TypeOK'
  BY DEF Inv, TypeOK, login, counts
<1>2. ReqInv'
  BY DEF Inv, ReqInv
<1>3. QED
  BY <1>1, <1>2

\* EnsureSCIMFirstConnection creates the connection, or finds it.
LEMMA ConnectKeeps ==
    ASSUME Inv, Step("connect"), conn = change.prov \/ ConnectionAllowed(change.prov),
           conn' = change.prov, Continue,
           UNCHANGED <<active, staged, migrated, groups, inflight, cleanup, change, overlap,
                       unread>>
    PROVE  CredInv' /\ DataInv' /\ StepInv'
<1>1. /\ at = "connect" /\ change.op \in {"Configure", "Stage"}
      /\ change.prov \in Providers /\ status = "open"
  BY StepFacts DEF StepNames, Owners
<1>2. /\ change.op = "Configure" => at' = "configure"
      /\ change.op = "Stage" => at' = "stage"
      /\ status' = "open"
  BY <1>1, ContinueFacts DEF StepNames, Follows
<1>3. conn = change.prov \/ (conn = None /\ NoCleanup(change.prov))
  BY DEF ConnectionAllowed
<1>4. change.prov # None
  BY <1>1, NoneAssumption
<1>5. ScimInv'
  BY <1>1, <1>3, <1>4, NoneAssumption DEF Inv, CredInv, ScimInv, Open
<1>6. StrandInv'
  BY <1>1, <1>2 DEF Inv, StepInv, ConfigureInv, StageInv, StrandInv, Stranded, Open, Staged, Going
<1>7. OneInv' /\ StagedInv'
  BY <1>1, <1>2 DEF Inv, CredInv, OneInv, StagedInv, Open, Staged
<1>8. DataInv'
  BY <1>1, <1>2, <1>3 DEF Inv, DataInv, FreshInv, CleanupInv, GroupsInv, Brought, CleanupNotBlocked,
     NoCleanup, Open, Staged
<1>9. StepInv'
  BY <1>1, <1>2, <1>3 DEF Inv, StepInv, ConfigureInv, StageInv, MigrateInv, UnstageInv,
     DeconfigureInv, ActivateInv, Going, Staged
<1>10. QED
  BY <1>5, <1>6, <1>7, <1>8, <1>9 DEF CredInv


\* Nothing that only the change under way excuses.
NoneStranded == Stranded => unread = TRUE

OneActive ==
    \A p, q \in Providers :
        active[p] # "none" /\ active[q] # "none" /\ p # q => unread = TRUE

CleanInUse ==
    \A p \in Providers :
        (active[p] # "none" \/ Staged(p)) /\ ~NoCleanup(p) =>
            \/ overlap[p] = TRUE
            \/ /\ unread = TRUE /\ active[p] # "none" /\ ~Staged(p)
               /\ cleanup[p] = "waiting"

StagedConnected == \A p \in Providers : staged[p] = "scim" => conn = p

Settled == NoneStranded /\ OneActive /\ CleanInUse /\ StagedConnected

\* A change may end in a settled state.
LEMMA EndKeeps ==
    ASSUME Inv, Settled', plan' = << >>, change' = change \/ change' = NoChange,
           UNCHANGED <<active, staged, conn, migrated, groups, inflight, cleanup, overlap>>
    PROVE  CredInv' /\ DataInv' /\ StepInv'
<1>1. at' = "idle"
  BY EndFacts
<1>2. change'.op = change.op \/ change'.op = "none"
  BY DEF NoChange
<1>3. ScimInv'
  BY DEF Inv, CredInv, ScimInv, Settled, StagedConnected
<1>4. StrandInv'
  BY DEF Settled, NoneStranded, StrandInv
<1>5. OneInv' /\ StagedInv'
  BY DEF Inv, CredInv, OneInv, StagedInv, Settled, OneActive, Staged
<1>6. FreshInv'
  <2>1. CASE change' = change
    BY <2>1 DEF Inv, DataInv, FreshInv, NoCleanup
  <2>2. CASE change' = NoChange
    BY <2>2 DEF NoChange, FreshInv
  <2>3. QED
    BY <2>1, <2>2
<1>7. CleanupInv' /\ GroupsInv' /\ CleanupNotBlocked'
  BY DEF Inv, DataInv, CleanupInv, GroupsInv, Brought, CleanupNotBlocked, Settled,
     CleanInUse, NoCleanup, Staged
<1>8. StepInv'
  BY <1>1 DEF StepInv, ConfigureInv, StageInv, MigrateInv, UnstageInv, DeconfigureInv,
     ActivateInv, Going
<1>9. QED
  BY <1>3, <1>4, <1>5, <1>6, <1>7, <1>8 DEF CredInv, DataInv

\* What is settled stays so while nothing of it changes.
LEMMA SettledStays ==
    ASSUME Settled, UNCHANGED <<active, staged, conn, cleanup, overlap, unread>>
    PROVE  Settled'
BY DEF Settled, NoneStranded, OneActive, CleanInUse, StagedConnected, Stranded, Staged,
   NoCleanup

\* A change that is no longer open has left a settled state.
LEMMA ClosedSettled ==
    ASSUME Inv, status # "open"
    PROVE  Settled
<1>1. NoneStranded /\ StagedConnected
  BY DEF Inv, CredInv, StrandInv, ScimInv, NoneStranded, StagedConnected,
     Open
<1>2. OneActive
  BY DEF Inv, CredInv, OneInv, OneActive, Open
<1>3. CleanInUse
  BY DEF Inv, DataInv, CleanupInv, CleanInUse, Open
<1>4. QED
  BY <1>1, <1>2, <1>3 DEF Settled

\* A configuration that may not have the connection leaves a settled state.
LEMMA ConnectRefusedSettled ==
    ASSUME Inv, Step("connect"), conn # change.prov
    PROVE  Settled
<1>1. change.op \in {"Configure", "Stage"}
  BY StepFacts DEF StepNames, Owners
<1>2. NoneStranded /\ StagedConnected
  BY <1>1 DEF Inv, CredInv, StrandInv, ScimInv, NoneStranded, StagedConnected,
     Open
<1>3. OneActive
  BY <1>1 DEF Inv, CredInv, OneInv, OneActive, Open
<1>4. CleanInUse
  BY <1>1 DEF Inv, DataInv, CleanupInv, CleanInUse, Open
<1>5. QED
  BY <1>2, <1>3, <1>4 DEF Settled

\* So does an Unstage that finds nothing staged.
LEMMA DiscardRefusedSettled ==
    ASSUME Inv, Step("discard"), ~Staged(change.prov)
    PROVE  Settled
<1>1. change.op = "Unstage" /\ change.prov \in Providers
  BY StepFacts DEF StepNames, Owners
<1>2. NoneStranded
  BY <1>1 DEF Inv, CredInv, StrandInv, NoneStranded, Open
<1>3. StagedConnected
  BY <1>1 DEF Inv, CredInv, ScimInv, StagedConnected, Open, Staged
<1>4. OneActive
  BY <1>1 DEF Inv, CredInv, OneInv, OneActive, Open
<1>5. CleanInUse
  BY <1>1 DEF Inv, DataInv, CleanupInv, CleanInUse, Open
<1>6. QED
  BY <1>2, <1>3, <1>4, <1>5 DEF Settled

\* And so does a change that has taken all its steps.
LEMMA FinishSettled ==
    ASSUME Inv, Step("finish")
    PROVE  Settled
<1>1. at = "finish" /\ change.op \in AllOps /\ change.prov \in Providers
  BY StepFacts DEF StepNames
<1>2. NoneStranded /\ StagedConnected
  BY <1>1 DEF Inv, CredInv, StrandInv, ScimInv, NoneStranded,
     StagedConnected
<1>3. OneActive
  BY <1>1 DEF Inv, CredInv, OneInv, OneActive
<1>4. ASSUME NEW p \in Providers, active[p] # "none" \/ Staged(p), ~NoCleanup(p)
      PROVE  \/ overlap[p] = TRUE
             \/ /\ unread = TRUE /\ active[p] # "none" /\ ~Staged(p)
                /\ cleanup[p] = "waiting"
  <2>1. CASE change.op = "Deconfigure"
    BY <1>1, <1>4, <2>1 DEF Inv, StepInv, DeconfigureInv, Removing, Going, DataInv,
       CleanupInv, Open
  <2>2. CASE change.op = "Activate"
    BY <1>1, <1>4, <2>2 DEF Inv, StepInv, ActivateInv, Removing, Going, DataInv,
       CleanupInv, Open
  <2>3. CASE change.op \notin {"Deconfigure", "Activate"}
    BY <1>4, <2>3 DEF Inv, DataInv, CleanupInv, Open
  <2>4. QED
    BY <2>1, <2>2, <2>3
<1>5. QED
  BY <1>2, <1>3, <1>4 DEF Settled, CleanInUse

\* EnableConnection: the provider serves and no other has the connection.
LEMMA MigrateKeeps ==
    ASSUME Inv, Step("migrate"), conn' = change.prov, Continue,
           UNCHANGED <<active, staged, groups, inflight, cleanup, change, overlap, unread>>
    PROVE  CredInv' /\ DataInv' /\ StepInv'
<1>1. /\ at = "migrate" /\ change.op = "Migrate" /\ status = "open"
      /\ change.prov \in Providers
  BY StepFacts DEF StepNames, Owners
<1>2. at' = "finish" /\ status' = "open"
  BY <1>1, ContinueFacts DEF StepNames, Follows
<1>3. /\ conn \in {None, change.prov} /\ NoCleanup(change.prov)
      /\ active[change.prov] # "none"
  BY <1>1 DEF Inv, StepInv, MigrateInv, Going
<1>4. ScimInv' /\ StrandInv'
  BY <1>1, <1>3, NoneAssumption DEF Inv, CredInv, ScimInv, StrandInv, Stranded, Open, Staged
<1>5. OneInv' /\ StagedInv'
  BY <1>1 DEF Inv, CredInv, OneInv, StagedInv, Open, Staged
<1>6. DataInv'
  BY <1>1, <1>3 DEF Inv, DataInv, FreshInv, CleanupInv, GroupsInv, Brought, CleanupNotBlocked,
     NoCleanup, Open, Staged
<1>7. StepInv'
  BY <1>1, <1>2, <1>3 DEF StepInv, ConfigureInv, StageInv, MigrateInv, UnstageInv,
     DeconfigureInv, ActivateInv, Going
<1>8. QED
  BY <1>4, <1>5, <1>6, <1>7 DEF CredInv

\* What is stored is a configuration that has the connection it needs.
LEMMA StoredKindFacts ==
    ASSUME NEW p \in Providers, NEW k \in Kinds, k = "scim" => conn = p
    PROVE  StoredKind(p, k) \in Kinds /\ (StoredKind(p, k) = "scim" => conn = p)
BY DEF StoredKind, Kinds

\* Configure stores the provider's own credential: no other one serves.
LEMMA ConfigureKeeps ==
    ASSUME Inv, Step("configure"), Continue,
           active' = [active EXCEPT ![change.prov] = StoredKind(change.prov, change.kind)],
           UNCHANGED <<staged, conn, migrated, groups, inflight, cleanup, change, overlap, unread>>
    PROVE  /\ CredInv' /\ DataInv' /\ StepInv'
           /\ active' \in [Providers -> {"none"} \cup Kinds]
<1>1. /\ at = "configure" /\ change.op = "Configure" /\ status = "open"
      /\ change.prov \in Providers /\ change.kind \in Kinds
  BY StepFacts DEF StepNames, Owners, WellFormed
<1>2. at' = "finish" /\ status' = "open"
  BY <1>1, ContinueFacts DEF StepNames, Follows
<1>3. /\ change.kind = "scim" => conn = change.prov
      /\ \/ unread = TRUE
         \/ \A p \in Providers : p # change.prov => active[p] = "none"
  BY <1>1 DEF Inv, StepInv, ConfigureInv, Going
<1>4. PICK k \in Kinds : /\ k = StoredKind(change.prov, change.kind)
                         /\ k = "scim" => conn = change.prov
  BY <1>1, <1>3, StoredKindFacts
<1>5. active' = [active EXCEPT ![change.prov] = k]
  BY <1>4
<1>6. /\ active \in [Providers -> {"none"} \cup Kinds] /\ k # "none"
      /\ active'[change.prov] = k
      /\ \A p \in Providers : p # change.prov => active'[p] = active[p]
  BY <1>1, <1>5 DEF Inv, TypeOK, Kinds
<1>7. ScimInv' /\ StrandInv'
  BY <1>1, <1>3, <1>4, <1>6 DEF Inv, CredInv, ScimInv, StrandInv, Stranded, Open, Staged
<1>8. OneInv' /\ StagedInv'
  BY <1>1, <1>3, <1>6 DEF Inv, CredInv, OneInv, StagedInv, Open, Staged
<1>9. DataInv'
  BY <1>1, <1>3, <1>6 DEF Inv, DataInv, FreshInv, CleanupInv, GroupsInv, Brought, CleanupNotBlocked,
     NoCleanup, Open, Staged
<1>10. StepInv'
  BY <1>1, <1>2, <1>3, <1>6 DEF StepInv, ConfigureInv, StageInv, MigrateInv, UnstageInv,
     DeconfigureInv, ActivateInv, Going
<1>11. QED
  BY <1>5, <1>6, <1>7, <1>8, <1>9, <1>10 DEF CredInv

\* A switch stores the staged configuration, next to the outgoing provider's.
LEMMA PromoteKeeps ==
    ASSUME Inv, Step("promote"), Continue,
           active' = [active EXCEPT ![change.prov] =
                         StoredKind(change.prov, staged[change.prov])],
           UNCHANGED <<staged, conn, migrated, groups, inflight, cleanup, change, overlap, unread>>
    PROVE  /\ CredInv' /\ DataInv' /\ StepInv'
           /\ active' \in [Providers -> {"none"} \cup Kinds]
<1>1. /\ at = "promote" /\ change.op = "Activate" /\ status = "open"
      /\ change.prov \in Providers
  BY StepFacts DEF StepNames, Owners
<1>2. at' = "intent" /\ status' = "open"
  BY <1>1, ContinueFacts DEF StepNames, Follows
<1>3. /\ change.repl \in Providers /\ change.repl # change.prov
      /\ Staged(change.prov) /\ ~Staged(change.repl)
      /\ \/ unread = TRUE
         \/ \A p \in Providers : active[p] # "none" => p \in {change.prov, change.repl}
  BY <1>1 DEF Inv, StepInv, ActivateInv, Removing, Going
<1>4. /\ staged[change.prov] \in Kinds
      /\ staged[change.prov] = "scim" => conn = change.prov
  BY <1>1, <1>3 DEF Inv, TypeOK, CredInv, ScimInv, Open, Staged
<1>5. PICK k \in Kinds : /\ k = StoredKind(change.prov, staged[change.prov])
                         /\ k = "scim" => conn = change.prov
  BY <1>1, <1>4, StoredKindFacts
<1>6. active' = [active EXCEPT ![change.prov] = k]
  BY <1>5
<1>7. /\ active \in [Providers -> {"none"} \cup Kinds] /\ k # "none"
      /\ active'[change.prov] = k
      /\ \A p \in Providers : p # change.prov => active'[p] = active[p]
  BY <1>1, <1>6 DEF Inv, TypeOK, Kinds
<1>8. ScimInv'
  BY <1>1, <1>5, <1>7 DEF Inv, CredInv, ScimInv, Open
<1>9. StrandInv'
  <2>1. ~Stranded' \/ Stranded
    BY <1>1, <1>7, NoneAssumption DEF Inv, TypeOK, Stranded, Staged
  <2>2. QED
    BY <1>1, <1>2, <1>7, <2>1 DEF Inv, CredInv, StrandInv, Stranded, Open, Staged
<1>10. OneInv' /\ StagedInv'
  BY <1>1, <1>2, <1>3, <1>7 DEF Inv, CredInv, OneInv, StagedInv, Open, Staged
<1>11. DataInv'
  BY <1>1, <1>2, <1>3, <1>7 DEF Inv, DataInv, FreshInv, CleanupInv, GroupsInv, Brought,
     CleanupNotBlocked, NoCleanup, Open, Staged
<1>12. StepInv'
  BY <1>1, <1>2, <1>3, <1>7 DEF StepInv, ConfigureInv, StageInv, MigrateInv, UnstageInv,
     DeconfigureInv, ActivateInv, Removing, Going, Staged
<1>13. QED
  BY <1>6, <1>7, <1>8, <1>9, <1>10, <1>11, <1>12 DEF CredInv

\* Stage stores the replacement: no other one is staged.
LEMMA StageKeeps ==
    ASSUME Inv, Step("stage"), Continue,
           staged' = [staged EXCEPT ![change.prov] = StoredKind(change.prov, change.kind)],
           UNCHANGED <<active, conn, migrated, groups, inflight, cleanup, change, overlap, unread>>
    PROVE  /\ CredInv' /\ DataInv' /\ StepInv'
           /\ staged' \in [Providers -> {"none"} \cup Kinds]
<1>1. /\ at = "stage" /\ change.op = "Stage" /\ status = "open"
      /\ change.prov \in Providers /\ change.kind \in Kinds
  BY StepFacts DEF StepNames, Owners, WellFormed
<1>2. at' = "finish" /\ status' = "open"
  BY <1>1, ContinueFacts DEF StepNames, Follows
<1>3. /\ change.kind = "scim" => conn = change.prov
      /\ \A p \in Providers : p # change.prov => ~Staged(p)
      /\ \E p \in Providers : p # change.prov /\ active[p] # "none"
  BY <1>1 DEF Inv, StepInv, StageInv, Going
<1>4. PICK k \in Kinds : /\ k = StoredKind(change.prov, change.kind)
                         /\ k = "scim" => conn = change.prov
  BY <1>1, <1>3, StoredKindFacts
<1>5. staged' = [staged EXCEPT ![change.prov] = k]
  BY <1>4
<1>6. /\ staged \in [Providers -> {"none"} \cup Kinds] /\ k # "none"
      /\ staged'[change.prov] = k
      /\ \A p \in Providers : p # change.prov => staged'[p] = staged[p]
  BY <1>1, <1>5 DEF Inv, TypeOK, Kinds
<1>7. ScimInv'
  BY <1>1, <1>4, <1>6 DEF Inv, CredInv, ScimInv, Open
<1>8. Stranded' => unread = TRUE
  <2>1. Stranded => conn = change.prov \/ unread = TRUE
    BY <1>1 DEF Inv, CredInv, StrandInv, Open
  <2>2. QED
    BY <1>1, <1>6, <2>1, NoneAssumption DEF Inv, TypeOK, Stranded, Staged
<1>9. OneInv' /\ StagedInv'
  BY <1>1, <1>3, <1>6 DEF Inv, CredInv, OneInv, StagedInv, Open, Staged
<1>10. DataInv'
  BY <1>1, <1>3, <1>6 DEF Inv, DataInv, FreshInv, CleanupInv, GroupsInv, Brought, CleanupNotBlocked,
     NoCleanup, Open, Staged
<1>11. StepInv'
  BY <1>1, <1>2, <1>3, <1>6 DEF StepInv, ConfigureInv, StageInv, MigrateInv, UnstageInv,
     DeconfigureInv, ActivateInv, Going, Staged
<1>12. QED
  BY <1>5, <1>6, <1>7, <1>8, <1>9, <1>10, <1>11 DEF CredInv, StrandInv

\* The provider that a removal works on.
LEMMA OutgoingFacts ==
    ASSUME Inv, at \in {"intent", "uncredential", "disconnect", "ready"},
           change.op \in {"Deconfigure", "Activate"}, change.prov \in Providers
    PROVE  /\ Outgoing \in Providers /\ Removing(Outgoing)
           /\ change.op = "Deconfigure" => Outgoing = change.prov
           /\ change.op = "Activate" =>
                 /\ Outgoing = change.repl /\ Outgoing # change.prov
                 /\ active[change.prov] # "none"
<1>1. CASE change.op = "Deconfigure"
  BY <1>1 DEF Inv, StepInv, DeconfigureInv, Going, Outgoing
<1>2. CASE change.op = "Activate"
  BY <1>2 DEF Inv, StepInv, ActivateInv, Going, Outgoing
<1>3. QED
  BY <1>1, <1>2

\* The intent is recorded before anything is removed.
LEMMA IntentKeeps ==
    ASSUME Inv, Step("intent"), Continue,
           cleanup' = IF NoCleanup(Outgoing) THEN [cleanup EXCEPT ![Outgoing] = "waiting"]
                      ELSE cleanup,
           UNCHANGED <<active, staged, conn, migrated, groups, inflight, change, overlap, unread>>
    PROVE  /\ CredInv' /\ DataInv' /\ StepInv'
           /\ cleanup' \in [Providers -> {"none", "waiting", "ready", "users"}]
<1>1. /\ at = "intent" /\ change.op \in {"Deconfigure", "Activate"} /\ status = "open"
      /\ change.prov \in Providers
  BY StepFacts DEF StepNames, Owners
<1>2. at' = "uncredential" /\ status' = "open"
  BY <1>1, ContinueFacts DEF StepNames, Follows
<1>3. PICK o \in Providers : o = Outgoing
  BY <1>1, OutgoingFacts
<1>4. /\ ~Staged(o)
      /\ change.op = "Deconfigure" => o = change.prov
      /\ change.op = "Activate" =>
            o = change.repl /\ o # change.prov /\ active[change.prov] # "none"
  BY <1>1, <1>3, OutgoingFacts DEF Removing
<1>5. /\ cleanup \in [Providers -> {"none", "waiting", "ready", "users"}]
      /\ cleanup' \in [Providers -> {"none", "waiting", "ready", "users"}]
      /\ cleanup'[o] = IF cleanup[o] = "none" THEN "waiting" ELSE cleanup[o]
      /\ \A p \in Providers : p # o => cleanup'[p] = cleanup[p]
  BY <1>3 DEF Inv, TypeOK, NoCleanup
<1>6. ScimInv' /\ StrandInv'
  BY <1>1, <1>2 DEF Inv, CredInv, ScimInv, StrandInv, Stranded, Open, Staged
<1>7. OneInv' /\ StagedInv'
  BY <1>1, <1>2 DEF Inv, CredInv, OneInv, StagedInv, Open, Staged
<1>8. FreshInv' /\ GroupsInv' /\ CleanupNotBlocked'
  BY <1>1, <1>5 DEF Inv, DataInv, FreshInv, GroupsInv, Brought, CleanupNotBlocked
<1>9. CleanupInv'
  BY <1>1, <1>2, <1>4, <1>5 DEF Inv, DataInv, CleanupInv, NoCleanup, Open, Staged
<1>10. active[o] # "none" => cleanup'[o] = "waiting" \/ overlap[o] = TRUE
  BY <1>5 DEF Inv, DataInv, CleanupInv, NoCleanup
<1>11. StepInv'
  <2>1. ConfigureInv' /\ StageInv' /\ MigrateInv' /\ UnstageInv'
    BY <1>1 DEF ConfigureInv, StageInv, MigrateInv, UnstageInv, Going
  <2>2. Removing(o)'
    BY <1>2, <1>4, <1>10 DEF Removing, Staged
  <2>3. DeconfigureInv'
    BY <1>4, <2>2 DEF DeconfigureInv, Going
  <2>4. ActivateInv'
    BY <1>1, <1>2, <1>4, <2>2 DEF Inv, StepInv, ActivateInv, Going, Staged
  <2>5. QED
    BY <2>1, <2>3, <2>4 DEF StepInv
<1>12. QED
  BY <1>5, <1>6, <1>7, <1>8, <1>9, <1>11 DEF CredInv, DataInv

\* The credential goes while the intent waits; its connection is not yet
\* deleted, which the open change answers for.
LEMMA UncredentialKeeps ==
    ASSUME Inv, Step("uncredential"), Continue,
           active' = [active EXCEPT ![Outgoing] = "none"],
           UNCHANGED <<staged, conn, migrated, groups, inflight, cleanup, change, overlap, unread>>
    PROVE  /\ CredInv' /\ DataInv' /\ StepInv'
           /\ active' \in [Providers -> {"none"} \cup Kinds]
<1>1. /\ at = "uncredential" /\ change.op \in {"Deconfigure", "Activate"}
      /\ status = "open" /\ change.prov \in Providers
  BY StepFacts DEF StepNames, Owners
<1>2. at' = "disconnect" /\ status' = "open"
  BY <1>1, ContinueFacts DEF StepNames, Follows
<1>3. PICK o \in Providers : o = Outgoing
  BY <1>1, OutgoingFacts
<1>4. /\ ~Staged(o)
      /\ active[o] # "none" => cleanup[o] = "waiting" \/ overlap[o] = TRUE
      /\ change.op = "Deconfigure" => o = change.prov
      /\ change.op = "Activate" =>
            o = change.repl /\ o # change.prov /\ active[change.prov] # "none"
  BY <1>1, <1>3, OutgoingFacts DEF Removing
<1>5. /\ active \in [Providers -> {"none"} \cup Kinds]
      /\ active' \in [Providers -> {"none"} \cup Kinds]
      /\ active'[o] = "none"
      /\ \A p \in Providers : p # o => active'[p] = active[p]
  BY <1>3 DEF Inv, TypeOK
<1>6. ScimInv'
  BY <1>1, <1>5 DEF Inv, CredInv, ScimInv, Open
<1>7. StrandInv'
  <2>1. Stranded' /\ ~Stranded => conn = o
    BY <1>5 DEF Inv, TypeOK, Stranded, Staged
  <2>2. Stranded => conn = o \/ unread = TRUE
    BY <1>1, <1>4 DEF Inv, CredInv, StrandInv, Open
  <2>3. QED
    BY <1>1, <1>2, <1>4, <1>5, <2>1, <2>2 DEF StrandInv, Open
<1>8. OneInv' /\ StagedInv'
  BY <1>1, <1>2, <1>5 DEF Inv, CredInv, OneInv, StagedInv, Open, Staged
<1>9. FreshInv' /\ GroupsInv' /\ CleanupNotBlocked'
  BY <1>1, <1>4, <1>5 DEF Inv, DataInv, FreshInv, GroupsInv, Brought, CleanupNotBlocked
<1>10. CleanupInv'
  BY <1>1, <1>2, <1>4, <1>5 DEF Inv, DataInv, CleanupInv, NoCleanup, Open, Staged
<1>11. StepInv'
  <2>1. ConfigureInv' /\ StageInv' /\ MigrateInv' /\ UnstageInv'
    BY <1>1 DEF ConfigureInv, StageInv, MigrateInv, UnstageInv, Going
  <2>2. Removing(o)'
    BY <1>2, <1>4, <1>5 DEF Removing, Staged
  <2>3. DeconfigureInv'
    BY <1>4, <2>2 DEF DeconfigureInv, Going
  <2>4. ActivateInv'
    BY <1>1, <1>2, <1>4, <1>5, <2>2 DEF Inv, StepInv, ActivateInv, Going, Staged
  <2>5. QED
    BY <2>1, <2>3, <2>4 DEF StepInv
<1>12. QED
  BY <1>5, <1>6, <1>7, <1>8, <1>9, <1>10, <1>11 DEF CredInv, DataInv

\* The connection goes, with the group data it brought.
LEMMA DisconnectKeeps ==
    ASSUME Inv, Step("disconnect"), Continue,
           IF conn = Outgoing THEN Disconnect(Outgoing)
             ELSE UNCHANGED <<conn, migrated, groups, inflight>>,
           UNCHANGED <<active, staged, cleanup, change, overlap, unread>>
    PROVE  /\ CredInv' /\ DataInv' /\ StepInv'
           /\ conn' \in Providers \cup {None} /\ migrated' \in BOOLEAN
           /\ groups' \in [Providers -> {"none", "stray", "served"}]
           /\ inflight' \in [Providers -> {"none", "stray", "served", "pushed"}]
<1>1. /\ at = "disconnect" /\ change.op \in {"Deconfigure", "Activate"}
      /\ status = "open" /\ change.prov \in Providers
  BY StepFacts DEF StepNames, Owners
<1>2. at' = "ready" /\ status' = "open"
  BY <1>1, ContinueFacts DEF StepNames, Follows
<1>3. PICK o \in Providers : o = Outgoing
  BY <1>1, OutgoingFacts
<1>4. /\ ~Staged(o) /\ active[o] = "none"
      /\ change.op = "Deconfigure" => o = change.prov
      /\ change.op = "Activate" =>
            o = change.repl /\ o # change.prov /\ active[change.prov] # "none"
  BY <1>1, <1>3, OutgoingFacts DEF Removing
<1>5. /\ conn' = IF conn = o THEN None ELSE conn
      /\ conn' \in Providers \cup {None} /\ conn' # o
      /\ groups' \in [Providers -> {"none", "stray", "served"}]
      /\ inflight' \in [Providers -> {"none", "stray", "served", "pushed"}]
      /\ \A p \in Providers : Brought(p)' => Brought(p)
  BY <1>3, NoneAssumption DEF Inv, TypeOK, Disconnect, Brought
<1>6. migrated' \in BOOLEAN
  BY Zenon DEF Inv, TypeOK, Disconnect
<1>7. ScimInv'
  BY <1>1, <1>4, <1>5, NoneAssumption DEF Inv, CredInv, ScimInv, Open, Staged
<1>8. Stranded' => unread = TRUE
  <2>1. Stranded => conn = o \/ unread = TRUE
    BY <1>1, <1>4 DEF Inv, CredInv, StrandInv, Open
  <2>2. QED
    BY <1>5, <2>1 DEF Stranded, Staged
<1>9. OneInv' /\ StagedInv'
  BY <1>1, <1>2 DEF Inv, CredInv, OneInv, StagedInv, Open, Staged
<1>10. FreshInv' /\ GroupsInv' /\ CleanupNotBlocked'
  BY <1>1, <1>5, NoneAssumption DEF Inv, DataInv, FreshInv, GroupsInv, CleanupNotBlocked
<1>11. CleanupInv'
  BY <1>1, <1>2 DEF Inv, DataInv, CleanupInv, NoCleanup, Open, Staged
<1>12. StepInv'
  <2>1. ConfigureInv' /\ StageInv' /\ MigrateInv' /\ UnstageInv'
    BY <1>1 DEF ConfigureInv, StageInv, MigrateInv, UnstageInv, Going
  <2>2. Removing(o)'
    BY <1>2, <1>4, <1>5 DEF Removing, Staged
  <2>3. DeconfigureInv'
    BY <1>4, <2>2 DEF DeconfigureInv, Going
  <2>4. ActivateInv'
    BY <1>1, <1>2, <1>4, <2>2 DEF Inv, StepInv, ActivateInv, Going, Staged
  <2>5. QED
    BY <2>1, <2>3, <2>4 DEF StepInv
<1>13. QED
  BY <1>5, <1>6, <1>7, <1>8, <1>9, <1>10, <1>11, <1>12 DEF CredInv, DataInv, StrandInv

\* The cleanup may start: nothing of the provider is left but its data.
LEMMA ReadyKeeps ==
    ASSUME Inv, Step("ready"), Continue,
           cleanup' = IF cleanup[Outgoing] = "waiting"
                        THEN [cleanup EXCEPT ![Outgoing] = "ready"] ELSE cleanup,
           UNCHANGED <<active, staged, conn, migrated, groups, inflight, change, overlap, unread>>
    PROVE  /\ CredInv' /\ DataInv' /\ StepInv'
           /\ cleanup' \in [Providers -> {"none", "waiting", "ready", "users"}]
<1>1. /\ at = "ready" /\ change.op \in {"Deconfigure", "Activate"} /\ status = "open"
      /\ change.prov \in Providers
  BY StepFacts DEF StepNames, Owners
<1>2. /\ change.op = "Deconfigure" => at' = "finish"
      /\ change.op = "Activate" => at' = "unstage"
      /\ status' = "open"
  BY <1>1, ContinueFacts DEF StepNames, Follows
<1>3. PICK o \in Providers : o = Outgoing
  BY <1>1, OutgoingFacts
<1>4. /\ ~Staged(o) /\ active[o] = "none" /\ conn # o
      /\ change.op = "Deconfigure" => o = change.prov
      /\ change.op = "Activate" =>
            o = change.repl /\ o # change.prov /\ active[change.prov] # "none"
  BY <1>1, <1>3, OutgoingFacts DEF Removing
<1>5. /\ cleanup \in [Providers -> {"none", "waiting", "ready", "users"}]
      /\ cleanup' \in [Providers -> {"none", "waiting", "ready", "users"}]
      /\ cleanup'[o] = IF cleanup[o] = "waiting" THEN "ready" ELSE cleanup[o]
      /\ \A p \in Providers : p # o => cleanup'[p] = cleanup[p]
  BY <1>3 DEF Inv, TypeOK
<1>6. ScimInv'
  BY <1>1 DEF Inv, CredInv, ScimInv, Open
<1>7. Stranded' => unread = TRUE
  BY <1>1, <1>4 DEF Inv, CredInv, StrandInv, Stranded, Open, Staged
<1>8. OneInv' /\ StagedInv'
  BY <1>1, <1>2, <1>4 DEF Inv, CredInv, OneInv, StagedInv, Open, Staged
<1>9. FreshInv' /\ GroupsInv' /\ CleanupNotBlocked'
  BY <1>1, <1>4, <1>5 DEF Inv, DataInv, FreshInv, GroupsInv, Brought, CleanupNotBlocked
<1>10. CleanupInv'
  BY <1>1, <1>2, <1>4, <1>5 DEF Inv, DataInv, CleanupInv, NoCleanup, Open, Staged
<1>11. StepInv'
  <2>1. ConfigureInv' /\ StageInv' /\ MigrateInv' /\ UnstageInv'
    BY <1>1 DEF ConfigureInv, StageInv, MigrateInv, UnstageInv, Going
  <2>2. Removing(o)'
    BY <1>1, <1>2, <1>4 DEF Removing, Staged
  <2>3. DeconfigureInv'
    BY <1>4, <2>2 DEF DeconfigureInv, Going
  <2>4. ActivateInv'
    BY <1>1, <1>2, <1>4, <2>2 DEF Inv, StepInv, ActivateInv, Going, Staged
  <2>5. QED
    BY <2>1, <2>3, <2>4 DEF StepInv
<1>12. QED
  BY <1>5, <1>6, <1>7, <1>8, <1>9, <1>10, <1>11 DEF CredInv, DataInv, StrandInv

\* The staged provider's connection goes before the staging.
LEMMA DisconnectStagedKeeps ==
    ASSUME Inv, Step("disconnectStaged"), Continue,
           IF conn = change.prov /\ Staged(change.prov) /\ active[change.prov] = "none"
             THEN Disconnect(change.prov) ELSE UNCHANGED <<conn, migrated, groups, inflight>>,
           UNCHANGED <<active, staged, cleanup, change, overlap, unread>>
    PROVE  /\ CredInv' /\ DataInv' /\ StepInv'
           /\ conn' \in Providers \cup {None} /\ migrated' \in BOOLEAN
           /\ groups' \in [Providers -> {"none", "stray", "served"}]
           /\ inflight' \in [Providers -> {"none", "stray", "served", "pushed"}]
<1>1. /\ at = "disconnectStaged" /\ change.op = "Unstage" /\ status = "open"
      /\ change.prov \in Providers
  BY StepFacts DEF StepNames, Owners
<1>2. at' = "discard" /\ status' = "open"
  BY <1>1, ContinueFacts DEF StepNames, Follows
<1>3. PICK p \in Providers : p = change.prov
  BY <1>1
<1>4. /\ conn' = IF conn = p /\ Staged(p) /\ active[p] = "none" THEN None ELSE conn
      /\ conn' \in Providers \cup {None}
      /\ groups' \in [Providers -> {"none", "stray", "served"}]
      /\ inflight' \in [Providers -> {"none", "stray", "served", "pushed"}]
      /\ \A q \in Providers : Brought(q)' => Brought(q)
  BY <1>3, NoneAssumption DEF Inv, TypeOK, Disconnect, Brought
<1>5. migrated' \in BOOLEAN
  BY Zenon DEF Inv, TypeOK, Disconnect
<1>6. ScimInv'
  BY <1>1, <1>2, <1>3, <1>4, NoneAssumption DEF Inv, CredInv, ScimInv, Open
<1>7. Stranded' => unread = TRUE
  BY <1>1, <1>4 DEF Inv, CredInv, StrandInv, Stranded, Open, Staged
<1>8. OneInv' /\ StagedInv'
  BY <1>1, <1>2 DEF Inv, CredInv, OneInv, StagedInv, Open, Staged
<1>9. FreshInv' /\ GroupsInv' /\ CleanupNotBlocked'
  BY <1>1, <1>4, NoneAssumption DEF Inv, DataInv, FreshInv, GroupsInv, CleanupNotBlocked
<1>10. CleanupInv'
  BY <1>1, <1>2 DEF Inv, DataInv, CleanupInv, NoCleanup, Open, Staged
<1>11. StepInv'
  BY <1>1, <1>2, <1>3, <1>4, NoneAssumption DEF StepInv, ConfigureInv, StageInv, MigrateInv,
     UnstageInv, DeconfigureInv, ActivateInv, Going, Staged
<1>12. QED
  BY <1>4, <1>5, <1>6, <1>7, <1>8, <1>9, <1>10, <1>11 DEF CredInv, DataInv, StrandInv

\* The staged configuration goes: after a switch its provider serves, and
\* when it is discarded its connection is gone or serves the active one.
LEMMA UnstageKeeps ==
    ASSUME Inv, Step("unstage") \/ Step("discard"), Continue,
           staged' = [staged EXCEPT ![change.prov] = "none"],
           UNCHANGED <<active, conn, migrated, groups, inflight, cleanup, change, overlap, unread>>
    PROVE  /\ CredInv' /\ DataInv' /\ StepInv'
           /\ staged' \in [Providers -> {"none"} \cup Kinds]
<1>1. /\ \/ at = "unstage" /\ change.op = "Activate"
         \/ at = "discard" /\ change.op = "Unstage"
      /\ status = "open" /\ change.prov \in Providers
  BY StepFacts DEF StepNames, Owners
<1>2. at' = "finish" /\ status' = "open"
  BY <1>1, ContinueFacts DEF StepNames, Follows
<1>3. PICK p \in Providers : p = change.prov
  BY <1>1
<1>4. /\ staged' \in [Providers -> {"none"} \cup Kinds]
      /\ staged'[p] = "none"
      /\ \A q \in Providers : q # p => staged'[q] = staged[q]
  BY <1>3 DEF Inv, TypeOK
<1>5. change.op = "Activate" =>
          /\ active[p] # "none" /\ change.repl \in Providers /\ change.repl # p
          /\ active[change.repl] = "none" /\ ~Staged(change.repl) /\ conn # change.repl
          /\ unread = TRUE \/ \A q \in Providers : active[q] # "none" => q = p
  BY <1>1, <1>3 DEF Inv, StepInv, ActivateInv, Removing, Going
<1>6. change.op = "Unstage" /\ conn = p /\ Staged(p) => active[p] # "none"
  BY <1>1, <1>3 DEF Inv, StepInv, UnstageInv, Going
<1>7. ScimInv'
  BY <1>1, <1>3, <1>4 DEF Inv, CredInv, ScimInv, Open
<1>8. Stranded' => unread = TRUE
  <2>1. Stranded => unread = TRUE
    BY <1>1, <1>3, <1>5 DEF Inv, CredInv, StrandInv, Open
  <2>2. QED
    BY <1>1, <1>4, <1>5, <1>6, <2>1 DEF Inv, TypeOK, Stranded, Staged
<1>9. OneInv' /\ StagedInv'
  BY <1>1, <1>3, <1>4, <1>5 DEF Inv, CredInv, OneInv, StagedInv, Open, Staged
<1>10. FreshInv' /\ GroupsInv' /\ CleanupNotBlocked'
  BY <1>1 DEF Inv, DataInv, FreshInv, GroupsInv, Brought, CleanupNotBlocked
<1>11. CleanupInv'
  BY <1>1, <1>2, <1>3, <1>4 DEF Inv, DataInv, CleanupInv, NoCleanup, Open, Staged
<1>12. StepInv'
  BY <1>1, <1>2, <1>3, <1>4, <1>5 DEF StepInv, ConfigureInv, StageInv, MigrateInv,
     UnstageInv, DeconfigureInv, ActivateInv, Removing, Going, Staged
<1>13. QED
  BY <1>4, <1>7, <1>8, <1>9, <1>10, <1>11, <1>12 DEF CredInv, DataInv, StrandInv

\* Every step of the controller keeps the invariant.
LEMMA WorkKeepsInv ==
    ASSUME Inv, Work
    PROVE  Inv'
<1>1. /\ change # NoChange /\ UNCHANGED <<change, req, login, counts, overlap, unread>>
      /\ change' = change /\ overlap' = overlap /\ unread' = unread
  BY DEF Work, history
<1> DEFINE Types ==
      /\ active' \in [Providers -> {"none"} \cup Kinds]
      /\ staged' \in [Providers -> {"none"} \cup Kinds]
      /\ conn' \in Providers \cup {None} /\ migrated' \in BOOLEAN
      /\ groups' \in [Providers -> {"none", "stray", "served"}]
      /\ inflight' \in [Providers -> {"none", "stray", "served", "pushed"}]
      /\ cleanup' \in [Providers -> {"none", "waiting", "ready", "users"}]
<1>2. /\ active \in [Providers -> {"none"} \cup Kinds]
      /\ staged \in [Providers -> {"none"} \cup Kinds]
      /\ conn \in Providers \cup {None}
      /\ groups \in [Providers -> {"none", "stray", "served"}]
      /\ inflight \in [Providers -> {"none", "stray", "served", "pushed"}]
      /\ cleanup \in [Providers -> {"none", "waiting", "ready", "users"}]
  BY DEF Inv, TypeOK
<1>3. migrated \in BOOLEAN /\ unread \in BOOLEAN /\ unread' \in BOOLEAN
  BY <1>1 DEF Inv, TypeOK
<1>4. ASSUME NEW s \in StepNames, Step(s), s # "finish", Continue, Types,
             CredInv', DataInv', StepInv'
      PROVE  Inv'
  <2>1. status' = "open" /\ plan' \in Seq(StepNames) /\ PlanInv' /\ ChangeInv'
    BY <1>1, <1>4, ContinueFacts
  <2>2. TypeOK' /\ ReqInv'
    BY <1>1, <1>3, <1>4, <2>1, WorkTypes
  <2>3. QED
    BY <1>4, <2>1, <2>2 DEF Inv
<1>5. ASSUME Settled, plan' = << >>, status' \in {"applied", "refused"},
             UNCHANGED <<active, staged, conn, migrated, groups, inflight, cleanup>>
      PROVE  Inv'
  <2>1. CredInv' /\ DataInv' /\ StepInv'
    BY <1>1, <1>5, SettledStays, EndKeeps
  <2>2. plan' \in Seq(StepNames) /\ PlanInv'
    BY <1>5, EndFacts
  <2>3. ChangeInv'
    BY <1>1 DEF Inv, ChangeInv
  <2>4. Types
    BY <1>2, <1>3, <1>5, Zenon
  <2>5. TypeOK' /\ ReqInv'
    BY <1>1, <1>3, <1>5, <2>2, <2>4, WorkTypes
  <2>6. QED
    BY <2>1, <2>2, <2>3, <2>5 DEF Inv
<1>6. change.prov \in Providers
  BY <1>1 DEF Inv, ChangeInv
<1>7. CASE EnsureSCIMFirstConnection(change.prov)
  <2>1. Step("connect") /\ UNCHANGED <<active, staged, groups, inflight, cleanup>>
    BY <1>7 DEF EnsureSCIMFirstConnection, creds, data
  <2>2. CASE conn = change.prov \/ ConnectionAllowed(change.prov)
    <3>1. conn' = change.prov /\ Continue /\ migrated' = migrated
      BY <1>7, <2>2 DEF EnsureSCIMFirstConnection
    <3>2. CredInv' /\ DataInv' /\ StepInv'
      BY <1>1, <2>1, <2>2, <3>1, ConnectKeeps
    <3>3. Types
      BY <1>2, <1>3, <1>6, <2>1, <3>1, Zenon
    <3>4. QED
      BY <1>4, <2>1, <3>1, <3>2, <3>3 DEF StepNames
  <2>3. CASE ~(conn = change.prov \/ ConnectionAllowed(change.prov))
    <3>1. Refuse /\ UNCHANGED <<conn, migrated>>
      BY <1>7, <2>3 DEF EnsureSCIMFirstConnection, scim
    <3>2. Settled
      BY <2>1, <2>3, ConnectRefusedSettled
    <3>3. QED
      BY <1>5, <2>1, <3>1, <3>2 DEF Refuse
  <2>4. QED
    BY <2>2, <2>3
<1>8. CASE EnableConnection(change.prov)
  <2>1. /\ Step("migrate") /\ UNCHANGED <<active, staged, groups, inflight, cleanup>>
        /\ conn' = change.prov /\ migrated' = TRUE /\ Continue
    BY <1>8 DEF EnableConnection, creds, data
  <2>2. CredInv' /\ DataInv' /\ StepInv'
    BY <1>1, <2>1, MigrateKeeps
  <2>3. Types
    BY <1>2, <1>6, <2>1, Zenon
  <2>4. QED
    BY <1>4, <2>1, <2>2, <2>3 DEF StepNames
<1>9. CASE Promote(change.prov)
  <2>1. Continue /\ UNCHANGED <<conn, migrated, groups, inflight, cleanup>>
    BY <1>9 DEF Promote, scim, data
  <2>2. CASE Step("configure") /\ staged' = staged
             /\ active' = [active EXCEPT ![change.prov] = StoredKind(change.prov, change.kind)]
    <3>1. /\ CredInv' /\ DataInv' /\ StepInv'
          /\ active' \in [Providers -> {"none"} \cup Kinds]
      BY <1>1, <2>1, <2>2, ConfigureKeeps
    <3>2. Types
      BY <1>2, <1>3, <2>1, <2>2, <3>1, Zenon
    <3>3. QED
      BY <1>4, <2>1, <2>2, <3>1, <3>2 DEF StepNames
  <2>3. CASE Step("promote") /\ staged' = staged
             /\ active' = [active EXCEPT ![change.prov] =
                              StoredKind(change.prov, staged[change.prov])]
    <3>1. /\ CredInv' /\ DataInv' /\ StepInv'
          /\ active' \in [Providers -> {"none"} \cup Kinds]
      BY <1>1, <2>1, <2>3, PromoteKeeps
    <3>2. Types
      BY <1>2, <1>3, <2>1, <2>3, <3>1, Zenon
    <3>3. QED
      BY <1>4, <2>1, <2>3, <3>1, <3>2 DEF StepNames
  <2>4. CASE Step("stage") /\ active' = active
             /\ staged' = [staged EXCEPT ![change.prov] = StoredKind(change.prov, change.kind)]
    <3>1. /\ CredInv' /\ DataInv' /\ StepInv'
          /\ staged' \in [Providers -> {"none"} \cup Kinds]
      BY <1>1, <2>1, <2>4, StageKeeps
    <3>2. Types
      BY <1>2, <1>3, <2>1, <2>4, <3>1, Zenon
    <3>3. QED
      BY <1>4, <2>1, <2>4, <3>1, <3>2 DEF StepNames
  <2>5. QED
    BY <1>9, <2>2, <2>3, <2>4 DEF Promote
<1>10. CASE EnsureCleanup(Outgoing)
  <2>1. /\ Step("intent") /\ Continue
        /\ UNCHANGED <<active, staged, conn, migrated, groups, inflight>>
        /\ cleanup' = IF NoCleanup(Outgoing) THEN [cleanup EXCEPT ![Outgoing] = "waiting"]
                      ELSE cleanup
    BY <1>10 DEF EnsureCleanup, creds, scim, data
  <2>2. /\ CredInv' /\ DataInv' /\ StepInv'
        /\ cleanup' \in [Providers -> {"none", "waiting", "ready", "users"}]
    BY <1>1, <2>1, IntentKeeps
  <2>3. Types
    BY <1>2, <1>3, <2>1, <2>2, Zenon
  <2>4. QED
    BY <1>4, <2>1, <2>2, <2>3 DEF StepNames
<1>11. CASE DeleteCredential(Outgoing)
  <2>1. /\ Step("uncredential") /\ Continue
        /\ active' = [active EXCEPT ![Outgoing] = "none"]
        /\ UNCHANGED <<staged, conn, migrated, groups, inflight, cleanup>>
    BY <1>11 DEF DeleteCredential, scim, data
  <2>2. /\ CredInv' /\ DataInv' /\ StepInv'
        /\ active' \in [Providers -> {"none"} \cup Kinds]
    BY <1>1, <2>1, UncredentialKeeps
  <2>3. Types
    BY <1>2, <1>3, <2>1, <2>2, Zenon
  <2>4. QED
    BY <1>4, <2>1, <2>2, <2>3 DEF StepNames
<1>12. CASE DeleteConnection(Outgoing)
  <2>1. /\ Step("disconnect") /\ Continue /\ UNCHANGED <<active, staged, cleanup>>
        /\ IF conn = Outgoing THEN Disconnect(Outgoing)
             ELSE UNCHANGED <<conn, migrated, groups, inflight>>
    BY <1>12 DEF DeleteConnection, creds, scim, data
  <2>2. /\ CredInv' /\ DataInv' /\ StepInv'
        /\ conn' \in Providers \cup {None} /\ migrated' \in BOOLEAN
        /\ groups' \in [Providers -> {"none", "stray", "served"}]
        /\ inflight' \in [Providers -> {"none", "stray", "served", "pushed"}]
    BY <1>1, <2>1, DisconnectKeeps
  <2>3. Types
    BY <1>2, <2>1, <2>2, Zenon
  <2>4. QED
    BY <1>4, <2>1, <2>2, <2>3 DEF StepNames
<1>13. CASE DeleteStagedConnection(change.prov)
  <2>1. /\ Step("disconnectStaged") /\ Continue /\ UNCHANGED <<active, staged, cleanup>>
        /\ IF conn = change.prov /\ Staged(change.prov) /\ active[change.prov] = "none"
             THEN Disconnect(change.prov) ELSE UNCHANGED <<conn, migrated, groups, inflight>>
    BY <1>13 DEF DeleteStagedConnection, creds, scim, data
  <2>2. /\ CredInv' /\ DataInv' /\ StepInv'
        /\ conn' \in Providers \cup {None} /\ migrated' \in BOOLEAN
        /\ groups' \in [Providers -> {"none", "stray", "served"}]
        /\ inflight' \in [Providers -> {"none", "stray", "served", "pushed"}]
    BY <1>1, <2>1, DisconnectStagedKeeps
  <2>3. Types
    BY <1>2, <2>1, <2>2, Zenon
  <2>4. QED
    BY <1>4, <2>1, <2>2, <2>3 DEF StepNames
<1>14. CASE markAuthProviderCleanupReady(Outgoing)
  <2>1. /\ Step("ready") /\ Continue
        /\ UNCHANGED <<active, staged, conn, migrated, groups, inflight>>
        /\ cleanup' = IF cleanup[Outgoing] = "waiting"
                        THEN [cleanup EXCEPT ![Outgoing] = "ready"] ELSE cleanup
    BY <1>14 DEF markAuthProviderCleanupReady, creds, scim, data
  <2>2. /\ CredInv' /\ DataInv' /\ StepInv'
        /\ cleanup' \in [Providers -> {"none", "waiting", "ready", "users"}]
    BY <1>1, <2>1, ReadyKeeps
  <2>3. Types
    BY <1>2, <1>3, <2>1, <2>2, Zenon
  <2>4. QED
    BY <1>4, <2>1, <2>2, <2>3 DEF StepNames
<1>15. CASE Unstage(change.prov)
  <2>1. /\ Step("unstage") \/ Step("discard")
        /\ staged' = [staged EXCEPT ![change.prov] = "none"]
        /\ UNCHANGED <<active, conn, migrated, groups, inflight, cleanup>>
    BY <1>15 DEF Unstage, scim, data
  <2>2. CASE Step("discard") /\ ~Staged(change.prov)
    <3>1. Refuse
      BY <1>15, <2>2 DEF Unstage
    <3>2. Settled
      BY <2>2, DiscardRefusedSettled
    <3>3. staged' = staged
      BY <1>2, <1>6, <2>1, <2>2 DEF Staged
    <3>4. QED
      BY <1>5, <2>1, <3>1, <3>2, <3>3 DEF Refuse
  <2>3. CASE ~(Step("discard") /\ ~Staged(change.prov))
    <3>1. Continue
      BY <1>15, <2>3 DEF Unstage
    <3>2. /\ CredInv' /\ DataInv' /\ StepInv'
          /\ staged' \in [Providers -> {"none"} \cup Kinds]
      BY <1>1, <2>1, <3>1, UnstageKeeps
    <3>3. Types
      BY <1>2, <1>3, <2>1, <3>2, Zenon
    <3>4. QED
      BY <1>4, <2>1, <3>1, <3>2, <3>3 DEF StepNames
  <2>4. QED
    BY <2>2, <2>3
<1>16. CASE Finish
  <2>1. /\ Step("finish") /\ status' = "applied" /\ plan' = << >>
        /\ UNCHANGED <<active, staged, conn, migrated, groups, inflight, cleanup>>
    BY <1>16 DEF Finish, creds, scim, data
  <2>2. Settled
    BY <2>1, FinishSettled
  <2>3. QED
    BY <1>5, <2>1, <2>2
<1>17. QED
  BY <1>7, <1>8, <1>9, <1>10, <1>11, <1>12, <1>13, <1>14, <1>15, <1>16 DEF Work

-----------------------------------------------------------------------------
(* The start of Reconcile *)

\* A provider that has a credential is configured, and only such a one, and
\* one is found unless it is overlooked.
LEMMA ConfiguredFacts ==
    ASSUME Inv
    PROVE  /\ \A p \in Providers : Configured(p) <=> active[p] # "none"
           /\ \A c \in ConfiguredProviders :
                 \/ c = None
                 \/ c \in Providers /\ active[c] # "none"
           /\ change.op \notin {"Unstage", "Deconfigure"} =>
                 (~Overlooked(None) => \A p \in Providers : active[p] = "none")
<1>1. \A p \in Providers : Configured(p) <=> active[p] # "none"
  BY DEF Inv, TypeOK, CredInv, ScimInv, Configured, Kinds
<1>2. QED
  BY <1>1 DEF ConfiguredProviders, Overlooked

\* Whether a change has overlooked a provider.
LEMMA UnreadFacts ==
    ASSUME Inv, NEW c, unread' = (unread \/ Overlooked(c))
    PROVE  /\ unread' \in BOOLEAN
           /\ unread = TRUE => unread' = TRUE
           /\ Overlooked(c) => unread' = TRUE
<1>1. unread \in BOOLEAN
  BY DEF Inv, TypeOK
<1>2. Overlooked(c) \in BOOLEAN
  BY Zenon DEF Overlooked
<1>3. QED
  BY <1>1, <1>2, Zenon

\* What is found when a change begins leaves it settled if it is refused: a
\* change that has something to answer for is never refused, unless it
\* overlooks the provider in use.
LEMMA RefusedSettled ==
    ASSUME Inv, change # NoChange, NEW c \in ConfiguredProviders,
           Refused(change.op, change.prov, change.kind, change.repl, c),
           unread' = (unread \/ Overlooked(c)),
           UNCHANGED <<active, staged, conn, cleanup, overlap>>
    PROVE  Settled'
<1>1. /\ change.op \in AllOps /\ change.prov \in Providers
      /\ change.repl \in Providers \cup {None}
  BY DEF Inv, ChangeInv
<1>2. (unread = TRUE => unread' = TRUE) /\ (Overlooked(c) => unread' = TRUE)
  BY UnreadFacts
<1>3. change.op # "Unstage"
  BY DEF Refused
<1>4. StagedConnected
  BY <1>3 DEF Inv, CredInv, ScimInv, StagedConnected, Open
<1>5. CASE unread' = TRUE
  <2>1. NoneStranded' /\ OneActive'
    BY <1>5 DEF NoneStranded, OneActive
  <2>2. CleanInUse'
    BY <1>5 DEF Inv, DataInv, CleanupInv, CleanInUse, Staged, NoCleanup
  <2>3. StagedConnected'
    BY <1>4 DEF StagedConnected
  <2>4. QED
    BY <2>1, <2>2, <2>3 DEF Settled
<1>6. CASE ~(unread' = TRUE)
  <2>1. ~(unread = TRUE) /\ ~Overlooked(c)
    BY <1>2, <1>6
  <2>2. \/ c = None
        \/ c \in Providers /\ active[c] # "none"
    BY ConfiguredFacts
  <2>3. c = None /\ change.op # "Deconfigure" => \A p \in Providers : active[p] = "none"
    BY <1>3, <2>1, ConfiguredFacts
  <2>4. ASSUME ~Stranded,
               \A p, q \in Providers : active[p] # "none" /\ active[q] # "none" => p = q,
               \A p \in Providers :
                   (active[p] # "none" \/ Staged(p)) /\ ~NoCleanup(p) => overlap[p] = TRUE
        PROVE  Settled'
    BY <1>4, <2>4 DEF Settled, NoneStranded, OneActive, CleanInUse, StagedConnected, Stranded,
       Staged, NoCleanup
  <2>5. CASE change.op \in {"Configure", "Stage", "Migrate", "Deconfigure"}
    <3>1. \A p, q \in Providers : active[p] # "none" /\ active[q] # "none" => p = q
      BY <2>1, <2>5 DEF Inv, CredInv, OneInv, Open
    <3>2. ~Stranded
      <4>1. CASE change.op = "Configure"
        <5>1. \/ c \notin {None, change.prov}
              \/ conn # change.prov /\ active[change.prov] # "none"
          BY <4>1 DEF Refused, configureRefused, NeedsConnection
        <5>2. QED
          BY <1>1, <2>1, <2>2, <4>1, <5>1 DEF Inv, CredInv, StrandInv, Open
      <4>2. CASE change.op = "Stage"
        <5>1. c \in {None, change.prov} \/ \E q \in Providers \ {change.prov} : Staged(q)
          BY <4>2 DEF Refused
        <5>2. QED
          BY <1>1, <2>1, <2>2, <2>3, <3>1, <4>2, <5>1, NoneAssumption
             DEF Inv, CredInv, StrandInv, Stranded, Open
      <4>3. CASE change.op = "Migrate"
        BY <2>1, <4>3 DEF Inv, CredInv, StrandInv, Open
      <4>4. CASE change.op = "Deconfigure"
        <5>1. Staged(change.prov)
          BY <4>4 DEF Refused
        <5>2. QED
          BY <2>1, <4>4, <5>1 DEF Inv, CredInv, StrandInv, Stranded, Open
      <4>5. QED
        BY <2>5, <4>1, <4>2, <4>3, <4>4
    <3>3. ASSUME NEW p \in Providers, active[p] # "none" \/ Staged(p), ~NoCleanup(p)
          PROVE  overlap[p] = TRUE
      <4>1. change.op = "Deconfigure" => Staged(change.prov)
        BY DEF Refused
      <4>2. QED
        BY <2>1, <2>5, <3>3, <4>1 DEF Inv, DataInv, CleanupInv, Open
    <3>4. QED
      BY <2>4, <3>1, <3>2, <3>3
  <2>6. CASE change.op = "Activate"
    <3>1. change.repl \in {None, change.prov} \/ switchRefused(c, change.prov, change.repl)
      BY <2>6 DEF Refused
    <3>2. \A p, q \in Providers : active[p] # "none" /\ active[q] # "none" => p = q
      <4>1. SUFFICES ASSUME NEW p \in Providers, NEW q \in Providers, p # q,
                            active[p] # "none", active[q] # "none"
                     PROVE  FALSE
        OBVIOUS
      <4>2. /\ p \in {change.prov, change.repl} /\ q \in {change.prov, change.repl}
            /\ Staged(change.prov)
        BY <2>1, <4>1 DEF Inv, CredInv, OneInv
      <4>3. /\ change.repl \in Providers /\ change.repl # change.prov
            /\ active[change.prov] # "none" /\ active[change.repl] # "none"
        BY <1>1, <4>1, <4>2
      <4>4. ~Staged(change.repl)
        BY <1>1, <4>2, <4>3 DEF Inv, CredInv, StagedInv
      <4>5. c \in Providers /\ active[c] # "none"
        BY <1>1, <2>2, <2>3, <2>6, <4>3
      <4>6. c \in {change.prov, change.repl}
        BY <1>1, <2>1, <4>3, <4>5 DEF Inv, CredInv, OneInv
      <4>7. QED
        BY <3>1, <4>2, <4>3, <4>4, <4>6, NoneAssumption DEF switchRefused
    <3>3. ~Stranded
      <4>1. SUFFICES ASSUME Stranded PROVE FALSE
        OBVIOUS
      <4>2. /\ change.repl = conn /\ change.prov # conn /\ conn # None
            /\ active[change.prov] # "none" /\ active[conn] = "none" /\ ~Staged(conn)
        BY <2>1, <2>6, <4>1 DEF Inv, CredInv, StrandInv, Stranded, Open
      <4>3. c = change.prov
        BY <1>1, <2>2, <2>3, <2>6, <3>2, <4>2
      <4>4. QED
        BY <3>1, <4>2, <4>3 DEF switchRefused
    <3>4. \A p \in Providers :
              (active[p] # "none" \/ Staged(p)) /\ ~NoCleanup(p) => overlap[p] = TRUE
      BY <1>1, <2>1, <2>6, <3>2 DEF Inv, DataInv, CleanupInv, Open
    <3>5. QED
      BY <2>4, <3>2, <3>3, <3>4
  <2>7. QED
    BY <1>1, <1>3, <2>5, <2>6 DEF AllOps, Ops
<1>7. QED
  BY <1>5, <1>6

\* What the invariant asks of the steps of a plan that is accepted.
LEMMA AcceptedKeeps ==
    ASSUME Inv, NEW pl, Shape(change.op, pl), At(pl) # "finish", plan' = pl,
           change # NoChange, status = "open", plan = << >>,
           UNCHANGED <<active, staged, conn, migrated, groups, inflight, cleanup, change,
                       status, overlap>>,
           unread = TRUE => unread' = TRUE
    PROVE  /\ at' = At(pl) /\ at' # "idle" /\ plan' \in Seq(StepNames)
           /\ PlanInv' /\ CredInv' /\ DataInv'
<1>1. pl \in Seq(StepNames) /\ At(pl) # "idle"
  BY ShapeSteps
<1>2. at' = At(pl)
  BY DEF at
<1>3. PlanInv'
  BY DEF PlanInv
<1>4. ScimInv' /\ StrandInv' /\ OneInv' /\ StagedInv'
  BY <1>2 DEF Inv, CredInv, ScimInv, StrandInv, OneInv, StagedInv, Stranded, Open, Staged
<1>5. DataInv'
  BY DEF Inv, DataInv, FreshInv, CleanupInv, GroupsInv, Brought, CleanupNotBlocked, NoCleanup, Open,
     Staged
<1>6. QED
  BY <1>1, <1>2, <1>3, <1>4, <1>5 DEF CredInv

\* The first steps of a Configure.
LEMMA ConfigurePlan ==
    ASSUME NEW p, NEW k, NEW o
    PROVE  /\ Plan("Configure", p, k, o) \in ConfigurePlans
           /\ At(Plan("Configure", p, k, o)) =
                 IF NeedsConnection(p, k) THEN "connect" ELSE "configure"
<1>1. Plan("Configure", p, k, o) = Prepare(p, k) \o <<"configure", "finish">>
  BY DEF Plan
<1>2. CASE NeedsConnection(p, k)
  <2>1. Plan("Configure", p, k, o) = <<"connect", "configure", "finish">>
    BY <1>1, <1>2, ConfigureCat DEF Prepare
  <2>2. QED
    BY <1>2, <2>1 DEF ConfigurePlans, At
<1>3. CASE ~NeedsConnection(p, k)
  <2>1. Plan("Configure", p, k, o) = << >> \o <<"configure", "finish">>
    BY <1>1, <1>3 DEF Prepare
  <2>2. Plan("Configure", p, k, o) = <<"configure", "finish">>
    BY <2>1
  <2>3. QED
    BY <1>3, <2>2 DEF ConfigurePlans, At
<1>4. QED
  BY <1>2, <1>3

\* The first steps of a Stage.
LEMMA StagePlan ==
    ASSUME NEW p, NEW k, NEW o
    PROVE  /\ Plan("Stage", p, k, o) \in StagePlans
           /\ At(Plan("Stage", p, k, o)) =
                 IF NeedsConnection(p, k) THEN "connect" ELSE "stage"
<1>1. Plan("Stage", p, k, o) = Prepare(p, k) \o <<"stage", "finish">>
  BY DEF Plan
<1>2. CASE NeedsConnection(p, k)
  <2>1. Plan("Stage", p, k, o) = <<"connect", "stage", "finish">>
    BY <1>1, <1>2, StageCat DEF Prepare
  <2>2. QED
    BY <1>2, <2>1 DEF StagePlans, At
<1>3. CASE ~NeedsConnection(p, k)
  <2>1. Plan("Stage", p, k, o) = << >> \o <<"stage", "finish">>
    BY <1>1, <1>3 DEF Prepare
  <2>2. Plan("Stage", p, k, o) = <<"stage", "finish">>
    BY <2>1
  <2>3. QED
    BY <1>3, <2>2 DEF StagePlans, At
<1>4. QED
  BY <1>2, <1>3

\* The first step of a switch: a staged configuration has its connection.
LEMMA SwitchPlan ==
    ASSUME NEW p, NEW o, Staged(p) => ~NeedsConnection(p, staged[p])
    PROVE  /\ switchSteps(p, o) \in ActivatePlans
           /\ At(switchSteps(p, o)) = IF Staged(p) THEN "promote" ELSE "intent"
<1>1. deconfigureAuthProvider(o) = <<"intent", "uncredential", "disconnect", "ready">>
  BY DEF deconfigureAuthProvider
<1>2. CASE Staged(p)
  <2>1. Prepare(p, staged[p]) \o <<"promote">> = <<"promote">>
    BY <1>2 DEF Prepare
  <2>2. switchSteps(p, o) =
           (<<"promote">> \o <<"intent", "uncredential", "disconnect", "ready">>)
               \o <<"unstage", "finish">>
    BY <1>1, <1>2, <2>1 DEF switchSteps
  <2>3. switchSteps(p, o) =
           <<"promote", "intent", "uncredential", "disconnect", "ready", "unstage",
             "finish">>
    BY <2>2, PromoteCat, SwitchCat
  <2>4. QED
    BY <1>2, <2>3 DEF ActivatePlans, At
<1>3. CASE ~Staged(p)
  <2>1. << >> \o <<"intent", "uncredential", "disconnect", "ready">>
           = <<"intent", "uncredential", "disconnect", "ready">>
    OBVIOUS
  <2>2. switchSteps(p, o) =
           (<< >> \o <<"intent", "uncredential", "disconnect", "ready">>)
               \o <<"unstage", "finish">>
    BY <1>1, <1>3 DEF switchSteps
  <2>3. switchSteps(p, o) =
           <<"intent", "uncredential", "disconnect", "ready", "unstage", "finish">>
    BY <2>1, <2>2, ResumeCat
  <2>4. QED
    BY <1>3, <2>3 DEF ActivatePlans, At
<1>4. QED
  BY <1>2, <1>3

\* No plan begins with its last step.
LEMMA FirstStep ==
    ASSUME Inv, change # NoChange
    PROVE  At(Plan(change.op, change.prov, change.kind, change.repl)) # "finish"
<1>1. change.op \in AllOps /\ change.prov \in Providers
  BY DEF Inv, ChangeInv
<1>2. CASE change.op \in {"Configure", "Stage"}
  BY <1>2, ConfigurePlan, StagePlan
<1>3. CASE change.op = "Activate"
  <2>1. Staged(change.prov) => ~NeedsConnection(change.prov, staged[change.prov])
    BY <1>1, <1>3 DEF Inv, CredInv, ScimInv, Open, NeedsConnection
  <2>2. QED
    BY <1>3, <2>1, SwitchPlan DEF Plan
<1>4. CASE change.op = "Migrate"
  BY <1>4 DEF Plan, At
<1>5. CASE change.op = "Unstage"
  BY <1>5 DEF Plan, unstageSteps, At
<1>6. CASE change.op = "Deconfigure"
  BY <1>6, DeconfigureCat DEF Plan, deconfigureAuthProvider, At
<1>7. QED
  BY <1>1, <1>2, <1>3, <1>4, <1>5, <1>6 DEF AllOps, Ops

\* The start of Reconcile finds what the first steps rely on, or refuses.
LEMMA BeginKeepsInv ==
    ASSUME Inv, Begin
    PROVE  Inv'
<1>1. /\ change # NoChange /\ status = "open" /\ plan = << >>
      /\ UNCHANGED <<active, staged, conn, migrated, groups, inflight, cleanup, change, req, login,
                     counts, overlap>>
  BY DEF Begin, creds, scim, data
<1>2. PICK c \in ConfiguredProviders :
          /\ unread' = (unread \/ Overlooked(c))
          /\ IF Refused(change.op, change.prov, change.kind, change.repl, c)
               THEN Refuse
               ELSE /\ plan' = Plan(change.op, change.prov, change.kind, change.repl)
                    /\ UNCHANGED status
  BY DEF Begin
<1>3. /\ change.op \in AllOps /\ change.prov \in Providers /\ WellFormed(change)
      /\ change.repl \in Providers \cup {None}
  BY <1>1 DEF Inv, ChangeInv
<1>4. /\ active' \in [Providers -> {"none"} \cup Kinds]
      /\ staged' \in [Providers -> {"none"} \cup Kinds]
      /\ conn' \in Providers \cup {None}
      /\ groups' \in [Providers -> {"none", "stray", "served"}]
      /\ inflight' \in [Providers -> {"none", "stray", "served", "pushed"}]
      /\ cleanup' \in [Providers -> {"none", "waiting", "ready", "users"}]
  BY <1>1 DEF Inv, TypeOK
<1>5. migrated' \in BOOLEAN /\ unread' \in BOOLEAN
  BY <1>1, <1>2, UnreadFacts DEF Inv, TypeOK
<1>6. ChangeInv'
  BY <1>1 DEF Inv, ChangeInv
<1>7. CASE Refused(change.op, change.prov, change.kind, change.repl, c)
  <2>1. plan' = << >> /\ status' = "refused"
    BY <1>2, <1>7 DEF Refuse
  <2>2. CredInv' /\ DataInv' /\ StepInv'
    BY <1>1, <1>2, <1>7, <2>1, RefusedSettled, EndKeeps
  <2>3. plan' \in Seq(StepNames) /\ PlanInv'
    BY <2>1, EndFacts
  <2>4. TypeOK' /\ ReqInv'
    BY <1>1, <1>4, <1>5, <2>1, <2>3, WorkTypes
  <2>5. QED
    BY <1>6, <2>2, <2>3, <2>4 DEF Inv
<1>8. CASE ~Refused(change.op, change.prov, change.kind, change.repl, c)
  <2>1. PICK pl : pl = Plan(change.op, change.prov, change.kind, change.repl)
    OBVIOUS
  <2>2. plan' = pl /\ status' = status
    BY <1>2, <1>8, <2>1
  <2>3. /\ \/ c = None
           \/ c \in Providers /\ active[c] # "none"
        /\ c = None /\ change.op = "Configure" /\ ~(unread' = TRUE) =>
              \A p \in Providers : active[p] = "none"
        /\ unread = TRUE => unread' = TRUE
    BY <1>2, ConfiguredFacts, UnreadFacts
  <2>4. ASSUME Shape(change.op, pl), At(pl) # "finish",
               at' = At(pl) => StepInv'
        PROVE  Inv'
    <3>1. /\ at' = At(pl) /\ plan' \in Seq(StepNames)
          /\ PlanInv' /\ CredInv' /\ DataInv'
      BY <1>1, <2>2, <2>3, <2>4, AcceptedKeeps
    <3>2. TypeOK' /\ ReqInv'
      BY <1>1, <1>4, <1>5, <2>2, <3>1, WorkTypes
    <3>3. QED
      BY <1>6, <2>4, <3>1, <3>2 DEF Inv
  <2>5. CASE change.op = "Configure"
    <3>1. /\ c \in {None, change.prov}
          /\ ~(NeedsConnection(change.prov, change.kind) /\ active[change.prov] # "none")
      BY <1>8, <2>5 DEF Refused, configureRefused
    <3>2. /\ pl \in ConfigurePlans
          /\ At(pl) = IF NeedsConnection(change.prov, change.kind) THEN "connect"
                      ELSE "configure"
      BY <2>1, <2>5, ConfigurePlan
    <3>3. unread' = TRUE \/ \A p \in Providers : p # change.prov => active[p] = "none"
      BY <1>3, <2>3, <2>5, <3>1, NoneAssumption DEF Inv, CredInv, OneInv, Open
    <3>4. at' = At(pl) => StepInv'
      BY <1>1, <2>5, <3>1, <3>2, <3>3 DEF StepInv, ConfigureInv, StageInv, MigrateInv,
         UnstageInv, DeconfigureInv, ActivateInv, Going, NeedsConnection
    <3>5. QED
      BY <2>4, <2>5, <3>2, <3>4 DEF Shape
  <2>6. CASE change.op = "Stage"
    <3>1. /\ c \notin {None, change.prov}
          /\ ~\E q \in Providers \ {change.prov} : Staged(q)
      BY <1>8, <2>6 DEF Refused
    <3>2. /\ pl \in StagePlans
          /\ At(pl) = IF NeedsConnection(change.prov, change.kind) THEN "connect" ELSE "stage"
      BY <2>1, <2>6, StagePlan
    <3>3. \E p \in Providers : p # change.prov /\ active[p] # "none"
      BY <2>3, <3>1
    <3>4. at' = At(pl) => StepInv'
      BY <1>1, <2>6, <3>1, <3>2, <3>3 DEF StepInv, ConfigureInv, StageInv, MigrateInv,
         UnstageInv, DeconfigureInv, ActivateInv, Going, NeedsConnection, Staged
    <3>5. QED
      BY <2>4, <2>6, <3>2, <3>4 DEF Shape
  <2>7. CASE change.op = "Activate"
    <3>1. /\ change.repl \notin {None, change.prov}
          /\ ~switchRefused(c, change.prov, change.repl)
      BY <1>8, <2>7 DEF Refused
    <3>2. Staged(change.prov) => ~NeedsConnection(change.prov, staged[change.prov])
      BY <1>3, <2>7 DEF Inv, CredInv, ScimInv, Open, NeedsConnection
    <3>3. /\ pl \in ActivatePlans
          /\ At(pl) = IF Staged(change.prov) THEN "promote" ELSE "intent"
      BY <2>1, <2>7, <3>2, SwitchPlan DEF Plan
    <3>4. /\ change.repl \in Providers /\ change.repl # change.prov
          /\ c \in {change.prov, change.repl}
          /\ ~Staged(change.prov) => c = change.prov /\ active[change.repl] = "none"
      BY <1>3, <3>1 DEF switchRefused
    <3>5. ~Staged(change.repl)
      BY <1>3, <3>1, <3>4 DEF switchRefused, Inv, CredInv, StagedInv
    <3>6. \/ unread' = TRUE
          \/ \A p \in Providers : active[p] # "none" => p \in {change.prov, change.repl}
      BY <1>3, <2>3, <3>4, NoneAssumption DEF Inv, CredInv, OneInv
    <3>7. ~Staged(change.prov) => active[change.prov] # "none"
      BY <1>3, <2>3, <3>4, NoneAssumption
    <3>8. ASSUME at' = At(pl)
          PROVE  StepInv'
      <4>1. at' \in {"promote", "intent"}
        BY <3>3, <3>8
      <4>2. Removing(change.repl)'
        BY <1>1, <3>5, <4>1 DEF Removing, Staged
      <4>3. ActivateInv'
        <5>1. (at' = "promote" => Staged(change.prov)) /\ (at' # "promote" => ~Staged(change.prov))
          BY <3>3, <3>8
        <5>2. QED
          BY <1>1, <3>4, <3>6, <3>7, <4>2, <5>1 DEF ActivateInv, Staged
      <4>4. QED
        BY <1>1, <2>7, <4>3 DEF StepInv, ConfigureInv, StageInv, MigrateInv, UnstageInv,
           DeconfigureInv, Going
    <3>9. At(pl) # "finish"
      BY <3>3
    <3>10. QED
      BY <2>4, <2>7, <3>3, <3>8, <3>9 DEF Shape
  <2>8. CASE change.op = "Migrate"
    <3>1. /\ c = change.prov /\ NoCleanup(change.prov)
          /\ conn \in {None, change.prov}
      BY <1>8, <2>8 DEF Refused
    <3>2. pl = <<"migrate", "finish">>
      BY <2>1, <2>8 DEF Plan
    <3>3. pl \in MigratePlans /\ At(pl) = "migrate"
      BY <3>2 DEF MigratePlans, At
    <3>4. at' = At(pl) => StepInv'
      BY <1>1, <1>3, <2>3, <2>8, <3>1, <3>3, NoneAssumption DEF StepInv, ConfigureInv,
         StageInv, MigrateInv, UnstageInv, DeconfigureInv, ActivateInv, Going, NoCleanup
    <3>5. QED
      BY <2>4, <2>8, <3>3, <3>4 DEF Shape
  <2>9. CASE change.op = "Unstage"
    <3>1. pl = <<"disconnectStaged", "discard", "finish">>
      BY <2>1, <2>9 DEF Plan, unstageSteps
    <3>2. pl \in UnstagePlans /\ At(pl) = "disconnectStaged"
      BY <3>1 DEF UnstagePlans, At
    <3>3. at' = At(pl) => StepInv'
      BY <1>1, <2>9, <3>2 DEF StepInv, ConfigureInv, StageInv, MigrateInv, UnstageInv,
         DeconfigureInv, ActivateInv, Going
    <3>4. QED
      BY <2>4, <2>9, <3>2, <3>3 DEF Shape
  <2>10. CASE change.op = "Deconfigure"
    <3>1. ~Staged(change.prov)
      BY <1>8, <2>10 DEF Refused
    <3>2. pl = <<"intent", "uncredential", "disconnect", "ready", "finish">>
      BY <2>1, <2>10, DeconfigureCat DEF Plan, deconfigureAuthProvider
    <3>3. pl \in DeconfigurePlans /\ At(pl) = "intent"
      BY <3>2 DEF DeconfigurePlans, At
    <3>4. at' = At(pl) => StepInv'
      BY <1>1, <2>10, <3>1, <3>3 DEF StepInv, ConfigureInv, StageInv, MigrateInv, UnstageInv,
         DeconfigureInv, ActivateInv, Removing, Going, Staged
    <3>5. QED
      BY <2>4, <2>10, <3>3, <3>4 DEF Shape
  <2>11. QED
    BY <1>3, <2>5, <2>6, <2>7, <2>8, <2>9, <2>10 DEF AllOps, Ops
<1>9. QED
  BY <1>7, <1>8

\* A settled change is deleted.
LEMMA RemoveKeepsInv ==
    ASSUME Inv, Remove
    PROVE  Inv'
<1>1. /\ status # "open" /\ change' = NoChange /\ status' = "open"
      /\ UNCHANGED <<active, staged, conn, migrated, groups, inflight, cleanup, plan, req, login,
                     counts, overlap, unread>>
  BY DEF Remove, creds, scim, data, history
<1>2. plan = << >>
  BY <1>1 DEF Inv, TypeOK
<1>3. plan' = << >>
  BY <1>1, <1>2
<1>4. CredInv' /\ DataInv' /\ StepInv'
  BY <1>1, <1>3, ClosedSettled, SettledStays, EndKeeps
<1>5. PlanInv' /\ plan' \in Seq(StepNames)
  BY <1>3, EndFacts
<1>6. TypeOK' /\ ReqInv' /\ ChangeInv'
  BY <1>1, <1>3, <1>5 DEF Inv, TypeOK, ReqInv, ChangeInv, login, counts
<1>7. QED
  BY <1>4, <1>5, <1>6 DEF Inv

\* A step fails: what the change answers for, its retry does.
LEMMA FailKeepsInv ==
    ASSUME Inv, Fail
    PROVE  Inv'
<1>1. /\ plan' = << >> /\ faults < MaxFaults /\ faults' = faults + 1
      /\ UNCHANGED <<active, staged, conn, migrated, groups, inflight, cleanup, change, status, req,
                     login, submitted, overlap, unread>>
  BY DEF Fail, creds, scim, data, history
<1>2. at' = "idle" /\ plan' \in Seq(StepNames) /\ PlanInv'
  BY <1>1, EndFacts
<1>3. ScimInv' /\ StrandInv' /\ OneInv' /\ StagedInv'
  BY <1>1, <1>2 DEF Inv, CredInv, ScimInv, StrandInv, OneInv, StagedInv, Stranded, Open,
     Staged
<1>4. DataInv'
  BY <1>1 DEF Inv, DataInv, FreshInv, CleanupInv, GroupsInv, Brought, CleanupNotBlocked, NoCleanup,
     Open, Staged
<1>5. StepInv'
  BY <1>2 DEF StepInv, ConfigureInv, StageInv, MigrateInv, UnstageInv, DeconfigureInv,
     ActivateInv, Going
<1>6. TypeOK'
  BY <1>1, <1>2, BoundsAssumption DEF Inv, TypeOK, login
<1>7. ReqInv' /\ ChangeInv'
  BY <1>1 DEF Inv, ReqInv, ChangeInv
<1>8. QED
  BY <1>2, <1>3, <1>4, <1>5, <1>6, <1>7 DEF Inv, CredInv

-----------------------------------------------------------------------------
(* The handlers, the logins and the cleanups *)

\* A step that touches neither the stored state nor the change.
LEMMA FrameKeeps ==
    ASSUME Inv, UNCHANGED <<active, staged, conn, migrated, change, status, plan, overlap, unread>>
    PROVE  /\ PlanInv' /\ ChangeInv' /\ CredInv' /\ at' = at
           /\ UNCHANGED <<groups, inflight, cleanup>> => DataInv' /\ StepInv'
           /\ UNCHANGED cleanup => StepInv' /\ FreshInv' /\ CleanupInv' /\ CleanupNotBlocked'
<1>1. at' = at
  BY DEF at, At
<1>2. PlanInv' /\ ChangeInv'
  BY <1>1 DEF Inv, PlanInv, ChangeInv
<1>3. ScimInv' /\ StrandInv' /\ OneInv' /\ StagedInv'
  BY <1>1 DEF Inv, CredInv, ScimInv, StrandInv, OneInv, StagedInv, Stranded, Open, Staged
<1>4. ASSUME UNCHANGED cleanup
      PROVE  StepInv' /\ FreshInv' /\ CleanupInv' /\ CleanupNotBlocked'
  <2>1. FreshInv' /\ CleanupInv' /\ CleanupNotBlocked'
    BY <1>4 DEF Inv, DataInv, FreshInv, CleanupInv, CleanupNotBlocked, NoCleanup, Open,
       Staged
  <2>2. ConfigureInv' /\ StageInv' /\ MigrateInv' /\ UnstageInv'
    BY <1>1, <1>4 DEF Inv, StepInv, ConfigureInv, StageInv, MigrateInv, UnstageInv, Going,
       Staged, NoCleanup
  <2>3. DeconfigureInv' /\ ActivateInv'
    BY <1>1, <1>4 DEF Inv, StepInv, DeconfigureInv, ActivateInv, Removing, Going, Staged
  <2>4. QED
    BY <2>1, <2>2, <2>3 DEF StepInv
<1>5. UNCHANGED <<groups, inflight, cleanup>> => GroupsInv'
  BY DEF Inv, DataInv, GroupsInv, Brought
<1>6. QED
  BY <1>1, <1>2, <1>3, <1>4, <1>5 DEF CredInv, DataInv

\* The checks, the waits and the logins.
LEMMA RequestFrame ==
    ASSUME Inv, UNCHANGED <<creds, scim, data, cleanup, object, counts, history>>,
           verifying' \in Providers \cup {None}, cache' \in Providers \cup {None}, ReqInv'
    PROVE  Inv'
<1>1. UNCHANGED <<active, staged, conn, migrated, change, status, plan, overlap, unread,
                  groups, inflight, cleanup, submitted, faults>>
  BY DEF creds, scim, data, object, counts, history
<1>2. PlanInv' /\ ChangeInv' /\ CredInv' /\ DataInv' /\ StepInv'
  BY <1>1, FrameKeeps
<1>3. TypeOK'
  BY <1>1 DEF Inv, TypeOK
<1>4. QED
  BY <1>2, <1>3 DEF Inv

\* A request is free again, or waits for its change.
LEMMA ReqReset ==
    ASSUME ReqInv, NEW h \in Requests, NEW r \in {Idle, [pc |-> "wait"]},
           req' = [req EXCEPT ![h] = r]
    PROVE  ReqInv'
<1>1. r.pc # "submit"
  BY DEF Idle
<1>2. req' \in [Requests -> {Idle, [pc |-> "wait"]} \cup Submitting]
  BY DEF ReqInv
<1>3. \A g \in Requests : req'[g] = IF g = h THEN r ELSE req[g]
  BY DEF ReqInv
<1>4. QED
  BY <1>1, <1>2, <1>3 DEF ReqInv

\* A handler has checked and is about to submit.
LEMMA ReqChecked ==
    ASSUME ReqInv, NEW h \in Requests, NEW r \in Submitting, WellFormed(r),
           r.op \in {"Configure", "Stage"} => r.clean = TRUE,
           req' = [req EXCEPT ![h] = r]
    PROVE  ReqInv'
<1>1. req' \in [Requests -> {Idle, [pc |-> "wait"]} \cup Submitting]
  BY DEF ReqInv
<1>2. \A g \in Requests : req'[g] = IF g = h THEN r ELSE req[g]
  BY DEF ReqInv
<1>3. QED
  BY <1>1, <1>2 DEF ReqInv

\* A handler that configures or stages found no cleanup pending.
LEMMA CheckKeepsInv ==
    ASSUME Inv, NEW h \in Requests, NEW p \in Providers, NEW op \in Ops,
           NEW k \in Kinds \cup {"none"}, Check(h, op, p, k)
    PROVE  Inv'
<1>1. PICK b : b = (op \in {"Configure", "Stage"} /\ NoCleanup(p))
  OBVIOUS
<1>2. b \in BOOLEAN
  BY <1>1, Zenon
<1>3. PICK r : r = [pc |-> "submit", op |-> op, prov |-> p, kind |-> k,
                    repl |-> None, clean |-> b]
  OBVIOUS
<1>4. r \in Submitting
  BY <1>2, <1>3, Zenon DEF Submitting, AllOps
<1>5. r.op = op /\ r.kind = k /\ r.clean = b
  BY <1>3
<1>6. op \in {"Configure", "Stage"} => k \in Kinds /\ NoCleanup(p)
  BY DEF Check, Checked, ensureNoPendingAuthProviderCleanup
<1>7. WellFormed(r)
  BY <1>5, <1>6 DEF WellFormed
<1>8. op \in {"Configure", "Stage"} => b = TRUE
  BY <1>1, <1>6, Zenon
<1>9. ReqInv'
  <2>1. req' = [req EXCEPT ![h] = r]
    BY <1>1, <1>3, Zenon DEF Check
  <2>2. r.op \in {"Configure", "Stage"} => r.clean = TRUE
    BY <1>5, <1>8
  <2>3. QED
    BY <1>4, <1>7, <2>1, <2>2, ReqChecked DEF Inv
<1>10. QED
  BY <1>9, RequestFrame DEF Check, login, Inv, TypeOK

\* Activate names the provider it found configured.
LEMMA CheckActivateKeepsInv ==
    ASSUME Inv, NEW h \in Requests, NEW p \in Providers, CheckActivate(h, p)
    PROVE  Inv'
<1>1. PICK c \in ConfiguredProviders :
          req' = [req EXCEPT ![h] =
             [pc |-> "submit", op |-> "Activate", prov |-> p, kind |-> "none",
              repl |-> c, clean |-> FALSE]]
  BY DEF CheckActivate
<1>2. c \in Providers \cup {None}
  BY ConfiguredFacts
<1>3. PICK r : r = [pc |-> "submit", op |-> "Activate", prov |-> p, kind |-> "none",
                    repl |-> c, clean |-> FALSE]
  OBVIOUS
<1>4. r \in Submitting
  BY <1>2, <1>3, Zenon DEF Submitting, AllOps
<1>5. r.op = "Activate"
  BY <1>3
<1>6. ReqInv'
  <2>1. req' = [req EXCEPT ![h] = r]
    BY <1>1, <1>3
  <2>2. WellFormed(r)
    BY <1>5 DEF WellFormed
  <2>3. QED
    BY <1>4, <1>5, <2>1, <2>2, ReqChecked DEF Inv
<1>7. QED
  BY <1>6, RequestFrame DEF CheckActivate, login, Inv, TypeOK

\* A request stops waiting for its change.
LEMMA WaitKeepsInv ==
    ASSUME Inv, NEW h \in Requests, Applied(h) \/ GiveUp(h)
    PROVE  Inv'
<1>1. req' = [req EXCEPT ![h] = Idle]
  BY DEF Applied, GiveUp
<1>2. ReqInv'
  BY <1>1, ReqReset DEF Inv
<1>3. cache' \in Providers \cup {None} /\ verifying' \in Providers \cup {None}
  BY DEF Applied, GiveUp, login, Inv, TypeOK
<1>4. UNCHANGED <<creds, scim, data, cleanup, object, counts, history>>
  BY DEF Applied, GiveUp
<1>5. QED
  BY <1>2, <1>3, <1>4, RequestFrame

\* A verification login begins, and comes back.
LEMMA LoginKeepsInv ==
    ASSUME Inv, NEW p \in Providers, Verify(p) \/ redirect(p)
    PROVE  Inv'
<1>1. ReqInv'
  BY DEF Verify, redirect, Inv, ReqInv
<1>2. verifying' \in Providers \cup {None} /\ cache' \in Providers \cup {None}
  BY DEF Verify, redirect, Inv, TypeOK
<1>3. UNCHANGED <<creds, scim, data, cleanup, object, counts, history>>
  BY DEF Verify, redirect
<1>4. QED
  BY <1>1, <1>2, <1>3, RequestFrame

\* Group data is asked for and stored: that of a serving provider is asked for
\* only while it serves.
LEMMA GroupDataKeepsInv ==
    ASSUME Inv, NEW p \in Providers, GroupData(p)
    PROVE  Inv'
<1>1. UNCHANGED <<active, staged, conn, migrated, change, status, plan, overlap, unread,
                  cleanup, req, login, submitted, faults>>
  BY DEF GroupData, refreshGroups, connection, Brings, persistGroups, pushGroup, creds, scim,
     object, counts, history
<1>2. /\ PlanInv' /\ ChangeInv' /\ CredInv' /\ StepInv' /\ FreshInv' /\ CleanupInv'
      /\ CleanupNotBlocked'
  BY <1>1, FrameKeeps
<1>3. /\ groups \in [Providers -> {"none", "stray", "served"}]
      /\ inflight \in [Providers -> {"none", "stray", "served", "pushed"}]
  BY DEF Inv, TypeOK
<1>4. /\ groups' \in [Providers -> {"none", "stray", "served"}]
      /\ inflight' \in [Providers -> {"none", "stray", "served", "pushed"}]
      /\ \A q \in Providers : Brought(q)' => Brought(q) \/ active[q] # "none"
  <2>1. ASSUME NEW d \in {"stray", "served", "pushed"}, Brings(p, d),
               d # "stray" => active[p] # "none"
        PROVE  /\ groups' \in [Providers -> {"none", "stray", "served"}]
               /\ inflight' \in [Providers -> {"none", "stray", "served", "pushed"}]
               /\ \A q \in Providers : Brought(q)' => Brought(q) \/ active[q] # "none"
    BY <1>3, <2>1 DEF Brings, Brought
  <2>2. CASE refreshGroups(p) \/ connection(p)
    BY <2>1, <2>2, ConfiguredFacts DEF refreshGroups, connection
  <2>3. CASE persistGroups(p)
    BY <1>3, <2>3 DEF persistGroups, Brought
  <2>4. CASE pushGroup(p)
    BY <1>3, <2>4 DEF pushGroup, Brought
  <2>5. QED
    BY <2>2, <2>3, <2>4 DEF GroupData
<1>5. GroupsInv'
  BY <1>1, <1>4 DEF Inv, DataInv, GroupsInv
<1>6. TypeOK' /\ ReqInv'
  BY <1>1, <1>4 DEF Inv, TypeOK, ReqInv, login
<1>7. QED
  BY <1>2, <1>5, <1>6 DEF Inv, DataInv

\* A cleanup that is ready deletes the data, and ends once its users are done.
LEMMA CleanupKeepsInv ==
    ASSUME Inv, NEW p \in Providers, Cleanup(p)
    PROVE  Inv'
<1>1. UNCHANGED <<active, staged, conn, migrated, change, status, plan, overlap, unread, req,
                  login, submitted, faults>>
  BY DEF Cleanup, CleanupData, CleanupUsers, creds, scim, object, counts, history
<1>2. PlanInv' /\ ChangeInv' /\ CredInv' /\ at' = at
  BY <1>1, FrameKeeps
<1>3. /\ cleanup' \in [Providers -> {"none", "waiting", "ready", "users"}]
      /\ groups' \in [Providers -> {"none", "stray", "served"}]
      /\ inflight' \in [Providers -> {"none", "stray", "served", "pushed"}]
      /\ \A q \in Providers : q # p => cleanup'[q] = cleanup[q] /\ (Brought(q)' => Brought(q))
      /\ \/ cleanup[p] = "ready" /\ cleanup'[p] = "users" /\ ~Brought(p)'
         \/ cleanup[p] = "users" /\ cleanup'[p] = "none" /\ (Brought(p)' => Brought(p))
  BY DEF Cleanup, CleanupData, CleanupUsers, Inv, TypeOK, Brought, data
<1>4. FreshInv'
  BY <1>1, <1>3 DEF Inv, DataInv, FreshInv, ChangeInv, NoChange, NoCleanup
<1>5. CleanupInv'
  BY <1>1, <1>3 DEF Inv, DataInv, CleanupInv, NoCleanup, Open, Staged
<1>6. GroupsInv' /\ CleanupNotBlocked'
  BY <1>1, <1>3 DEF Inv, DataInv, GroupsInv, CleanupNotBlocked
<1>7. ConfigureInv' /\ StageInv' /\ UnstageInv'
  BY <1>1, <1>2 DEF Inv, StepInv, ConfigureInv, StageInv, UnstageInv, Going, Staged
<1>8. MigrateInv'
  BY <1>1, <1>2, <1>3 DEF Inv, StepInv, MigrateInv, ChangeInv, NoChange, Going, NoCleanup
<1>9. ASSUME NEW o \in Providers, Removing(o)
      PROVE  Removing(o)'
  BY <1>1, <1>2, <1>3, <1>9 DEF Removing, Staged
<1>10. DeconfigureInv'
  BY <1>1, <1>2, <1>9 DEF Inv, StepInv, DeconfigureInv, ChangeInv, NoChange, Going
<1>11. ActivateInv'
  BY <1>1, <1>2, <1>9 DEF Inv, StepInv, ActivateInv, Going, Staged
<1>12. TypeOK' /\ ReqInv'
  BY <1>1, <1>3 DEF Inv, TypeOK, ReqInv, login
<1>13. QED
  BY <1>2, <1>4, <1>5, <1>6, <1>7, <1>8, <1>10, <1>11, <1>12 DEF Inv, DataInv, StepInv

\* Without a change the state is settled.
LEMMA RestSettled ==
    ASSUME Inv, change = NoChange
    PROVE  Settled
<1>1. change.op = "none"
  BY DEF NoChange
<1>2. NoneStranded /\ StagedConnected
  BY <1>1 DEF Inv, CredInv, StrandInv, ScimInv, NoneStranded, StagedConnected,
     Open
<1>3. OneActive
  BY <1>1 DEF Inv, CredInv, OneInv, OneActive, Open
<1>4. CleanInUse
  BY <1>1 DEF Inv, DataInv, CleanupInv, CleanInUse, Open
<1>5. QED
  BY <1>2, <1>3, <1>4 DEF Settled

\* A change is created: a cleanup that began since its handler looked for one
\* is recorded as overlapping.
LEMMA SubmitKeepsInv ==
    ASSUME Inv, NEW h \in Requests, Submit(h)
    PROVE  Inv'
<1>1. /\ req[h].pc = "submit"
      /\ UNCHANGED <<active, staged, conn, migrated, groups, inflight, cleanup, status, plan,
                     login, faults, unread>>
  BY DEF Submit, creds, scim, data
<1>2. req[h] \in Submitting
  BY <1>1 DEF Inv, ReqInv, Idle
<1>3. CASE change # NoChange
  <2>1. req' = [req EXCEPT ![h] = Idle] /\ UNCHANGED <<change, submitted, overlap>>
    BY <1>3 DEF Submit
  <2>2. ReqInv'
    BY <2>1, ReqReset DEF Inv
  <2>3. QED
    BY <1>1, <2>1, <2>2, RequestFrame DEF creds, scim, data, object, counts, history,
       login, Inv, TypeOK
<1>4. CASE change = NoChange
  <2>1. /\ submitted < MaxChanges /\ submitted' = submitted + 1
        /\ change' = [op |-> req[h].op, prov |-> req[h].prov,
                      kind |-> req[h].kind, repl |-> req[h].repl]
        /\ req' = [req EXCEPT ![h] =
              IF req[h].op \in {"Stage", "Unstage", "Activate"}
                THEN [pc |-> "wait"] ELSE Idle]
        /\ overlap' = [overlap EXCEPT ![req[h].prov] =
              @ \/ (req[h].clean /\ ~NoCleanup(req[h].prov))]
    BY <1>4 DEF Submit
  <2>2. Settled /\ plan = << >> /\ status = "open"
    <3>1. change.op \notin AllOps
      BY <1>4 DEF NoChange, AllOps, Ops
    <3>2. status = "open"
      BY <3>1 DEF Inv, ChangeInv
    <3>3. plan = << >>
      BY <1>4 DEF Inv, TypeOK
    <3>4. QED
      BY <1>4, <3>2, <3>3, RestSettled
  <2>3. /\ req[h].op \in AllOps /\ req[h].prov \in Providers
        /\ req[h].kind \in Kinds \cup {"none"} /\ req[h].repl \in Providers \cup {None}
    BY <1>2 DEF Submitting
  <2>4. /\ req[h].op \in {"Configure", "Stage"} => req[h].kind \in Kinds
        /\ req[h].op \in {"Configure", "Stage"} => req[h].clean = TRUE
    BY <1>1 DEF Inv, ReqInv, WellFormed
  <2>5. change'.op = req[h].op /\ change'.prov = req[h].prov /\ change'.kind = req[h].kind
    BY <2>1
  <2>6. ChangeInv'
    <3>1. change' \in [op : AllOps, prov : Providers, kind : Kinds \cup {"none"},
                       repl : Providers \cup {None}]
      BY <2>1, <2>3
    <3>2. WellFormed(change')
      BY <2>4, <2>5 DEF WellFormed
    <3>3. QED
      BY <3>1, <3>2 DEF ChangeInv, WellFormed
  <2>7. ReqInv'
    <3>1. PICK r \in {Idle, [pc |-> "wait"]} : req' = [req EXCEPT ![h] = r]
      BY <2>1
    <3>2. QED
      BY <3>1, ReqReset DEF Inv
  <2>8. overlap \in [Providers -> BOOLEAN]
    BY DEF Inv, TypeOK
  <2>9. overlap' \in [Providers -> BOOLEAN]
    BY <2>1, <2>3, <2>8, Zenon
  <2>10. \A p \in Providers : overlap[p] = TRUE => overlap'[p] = TRUE
    BY <2>1, <2>3, <2>8
  <2>11. req[h].op \in {"Configure", "Stage"} =>
             NoCleanup(req[h].prov) \/ overlap'[req[h].prov] = TRUE
    BY <2>1, <2>3, <2>4, <2>8
  <2>12. plan' = << >> /\ status' = "open"
    BY <1>1, <2>2
  <2>13. at' = "idle" /\ PlanInv'
    BY <2>12, EndFacts
  <2>14. ScimInv' /\ StrandInv' /\ OneInv' /\ StagedInv'
    BY <1>1, <2>2 DEF Inv, CredInv, ScimInv, StrandInv, OneInv, StagedInv, Stranded, Staged,
       Settled, NoneStranded, OneActive, StagedConnected
  <2>15. FreshInv'
    BY <1>1, <2>5, <2>11 DEF FreshInv, NoCleanup
  <2>16. CleanupInv'
    BY <1>1, <2>2, <2>10 DEF CleanupInv, Settled, CleanInUse, NoCleanup, Staged
  <2>17. GroupsInv' /\ CleanupNotBlocked'
    BY <1>1, <2>10 DEF Inv, DataInv, GroupsInv, Brought, CleanupNotBlocked
  <2>18. StepInv'
    BY <2>13 DEF StepInv, ConfigureInv, StageInv, MigrateInv, UnstageInv, DeconfigureInv,
       ActivateInv, Going
  <2>19. TypeOK'
    <3>1. submitted' \in 0 .. MaxChanges
      BY <2>1, BoundsAssumption DEF Inv, TypeOK
    <3>2. QED
      BY <1>1, <2>9, <2>12, <3>1 DEF Inv, TypeOK, login
  <2>20. QED
    BY <2>6, <2>7, <2>13, <2>14, <2>15, <2>16, <2>17, <2>18, <2>19 DEF Inv, CredInv, DataInv
<1>5. QED
  BY <1>3, <1>4

-----------------------------------------------------------------------------
(* The invariant holds *)

\* At rest nothing is stranded and nothing is pending.
LEMMA InitInv == Init => Inv
<1>1. SUFFICES ASSUME Init PROVE Inv
  OBVIOUS
<1>2. PICK s \in Providers \cup {None}, t \in Providers \cup {None} :
          \E k, l \in Kinds :
              /\ s = t => s = None
              /\ s = None => t = None
              /\ active = [p \in Providers |-> IF p = s THEN k ELSE "none"]
              /\ staged = [p \in Providers |-> IF p = t THEN l ELSE "none"]
              /\ conn = IF s # None /\ k = "scim" THEN s
                        ELSE IF t # None /\ l = "scim" THEN t ELSE None
              /\ (t # None /\ l = "scim") => conn = t
  BY <1>1 DEF Init
<1>3. PICK k \in Kinds, l \in Kinds :
              /\ s = t => s = None
              /\ s = None => t = None
              /\ active = [p \in Providers |-> IF p = s THEN k ELSE "none"]
              /\ staged = [p \in Providers |-> IF p = t THEN l ELSE "none"]
              /\ conn = IF s # None /\ k = "scim" THEN s
                        ELSE IF t # None /\ l = "scim" THEN t ELSE None
              /\ (t # None /\ l = "scim") => conn = t
  BY <1>2
<1>4. /\ groups = [p \in Providers |-> "none"]
      /\ inflight = [p \in Providers |-> "none"]
      /\ cleanup = [p \in Providers |-> "none"]
      /\ change = NoChange /\ status = "open" /\ plan = << >>
      /\ req = [h \in Requests |-> Idle]
      /\ verifying = None /\ cache = None
      /\ submitted = 0 /\ faults = 0
  BY <1>1 DEF Init
<1>5. /\ \A p \in Providers : active[p] = IF p = s THEN k ELSE "none"
      /\ \A p \in Providers : staged[p] = IF p = t THEN l ELSE "none"
      /\ k # "none" /\ l # "none"
      /\ active \in [Providers -> {"none"} \cup Kinds]
      /\ staged \in [Providers -> {"none"} \cup Kinds]
      /\ conn \in Providers \cup {None}
  BY <1>3 DEF Kinds
<1>6. migrated \in BOOLEAN /\ overlap \in [Providers -> BOOLEAN] /\ unread \in BOOLEAN
  BY <1>1, Zenon DEF Init
<1>7. at = "idle" /\ change.op = "none"
  BY <1>4 DEF at, At, NoChange
<1>8. TypeOK
  BY <1>4, <1>5, <1>6, BoundsAssumption DEF TypeOK
<1>9. ChangeInv /\ ReqInv /\ PlanInv
  BY <1>4, <1>7 DEF ChangeInv, ReqInv, PlanInv, Idle
<1>10. ScimInv /\ StrandInv /\ OneInv /\ StagedInv
  BY <1>3, <1>5, NoneAssumption DEF ScimInv, StrandInv, Stranded, OneInv, StagedInv, Staged
<1>11. DataInv
  BY <1>4, <1>7 DEF DataInv, FreshInv, CleanupInv, GroupsInv, Brought, CleanupNotBlocked, NoCleanup
<1>12. StepInv
  BY <1>7 DEF StepInv, ConfigureInv, StageInv, MigrateInv, UnstageInv, DeconfigureInv,
     ActivateInv, Going
<1>13. QED
  BY <1>8, <1>9, <1>10, <1>11, <1>12 DEF Inv, CredInv

\* Every step of every actor keeps the invariant.
LEMMA NextKeepsInv == Inv /\ [Next]_vars => Inv'
<1>1. SUFFICES ASSUME Inv, [Next]_vars PROVE Inv'
  OBVIOUS
<1>2. ASSUME NEW h \in Requests, Request(h) PROVE Inv'
  <2>1. ASSUME NEW p \in Providers, NEW op \in Ops, NEW k \in Kinds \cup {"none"},
               Check(h, op, p, k)
        PROVE  Inv'
    BY <1>1, <2>1, CheckKeepsInv
  <2>2. ASSUME NEW p \in Providers, CheckActivate(h, p) PROVE Inv'
    BY <1>1, <2>2, CheckActivateKeepsInv
  <2>3. CASE Submit(h)
    BY <1>1, <2>3, SubmitKeepsInv
  <2>4. CASE Applied(h) \/ GiveUp(h)
    BY <1>1, <2>4, WaitKeepsInv
  <2>5. QED
    BY <1>2, <2>1, <2>2, <2>3, <2>4 DEF Request
<1>3. ASSUME NEW p \in Providers, Verify(p) \/ redirect(p) \/ Cleanup(p) \/ GroupData(p)
      PROVE  Inv'
  BY <1>1, <1>3, LoginKeepsInv, GroupDataKeepsInv, CleanupKeepsInv
<1>4. CASE Reconcile
  BY <1>1, <1>4, BeginKeepsInv, WorkKeepsInv, RemoveKeepsInv DEF Reconcile
<1>5. CASE Fail
  BY <1>1, <1>5, FailKeepsInv
<1>6. CASE UNCHANGED vars
  <2>1. UNCHANGED <<creds, scim, data, cleanup, object, req, login, counts, history>>
    BY <1>6 DEF vars
  <2>2. ReqInv'
    BY <1>1, <2>1 DEF Inv, ReqInv
  <2>3. QED
    BY <1>1, <2>1, <2>2, RequestFrame DEF login, Inv, TypeOK
<1>7. QED
  BY <1>1, <1>2, <1>3, <1>4, <1>5, <1>6 DEF Next

\* The controller's invariant holds in every reachable state.
THEOREM Invariance == Spec => []Inv
<1>1. Init => Inv
  BY InitInv
<1>2. Inv /\ [Next]_vars => Inv'
  BY NextKeepsInv
<1>3. QED
  BY <1>1, <1>2, PTL DEF Spec

-----------------------------------------------------------------------------
(* The properties *)

\* Types; the controller has steps left only on an open change.
THEOREM TypeCorrect == Spec => []TypeOK
<1>1. Inv => TypeOK
  BY DEF Inv
<1>2. QED
  BY <1>1, Invariance, PTL

\* A configuration without directory credentials, serving or staged, always
\* has the SCIM connection (setup.go, reconcileAuthProvider).
THEOREM ScimAlwaysConnected == Spec => []ScimHasConnection
<1>1. Inv => ScimHasConnection
  <2>1. SUFFICES ASSUME Inv, NEW p \in Providers
                 PROVE  /\ active[p] = "scim" => conn = p
                        /\ staged[p] = "scim" => conn = p \/ Doing("Unstage", p)
    BY DEF ScimHasConnection
  <2>2. change = NoChange => change.op = "none"
    BY DEF NoChange
  <2>3. QED
    BY <2>1, <2>2 DEF Inv, CredInv, ScimInv, Open, Doing
<1>2. QED
  BY <1>1, Invariance, PTL

\* The one SCIM connection never outlives what it is for: no retry of the
\* change that answers for it is refused, unless one overlooks the provider in
\* use because its credential could not be read (isAuthProviderConfigured).
THEOREM ConnectionNeverStranded == Spec => []NoStrandedConnection
<1>1. Inv => NoStrandedConnection
  BY RestSettled DEF NoStrandedConnection, Settled, NoneStranded, Stranded
<1>2. QED
  BY <1>1, Invariance, PTL

\* At most one provider is configured, except during a switch, and at most one
\* is staged, whatever requests passed their checks at the same time and
\* although any handler may have overlooked the provider in use: only the
\* controller's own look, failing on a credential, lets a second one in.
THEOREM OneServesOneStaged == Spec => []OneOfEach
<1>1. Inv => OneOfEach
  <2>1. change = NoChange => change.op = "none"
    BY DEF NoChange
  <2>2. QED
    BY <2>1 DEF Inv, CredInv, OneInv, StagedInv, Open, OneOfEach
<1>2. QED
  BY <1>1, Invariance, PTL

\* Group data of a provider that no longer serves has a cleanup that has yet
\* to delete it, also when it is stored long after it was asked for: a cleanup
\* misses only what it overtook between refreshGroups and persistGroups.
THEOREM GroupDataHasCleanup == Spec => []GroupsHaveCleanup
<1>1. Inv => GroupsHaveCleanup
  BY DEF Inv, DataInv, GroupsInv, Brought, GroupsHaveCleanup
<1>2. QED
  BY <1>1, Invariance, PTL

\* A cleanup that may start is never held up by a connection of its provider.
THEOREM CleanupNeverBlocked == Spec => []CleanupNotBlocked
<1>1. Inv => CleanupNotBlocked
  BY DEF Inv, DataInv
<1>2. QED
  BY <1>1, Invariance, PTL

\* Only the steps that store or delete a credential change which providers
\* have one: they leave one that serves, or belong to a deconfiguration.
LEMMA WorkKeepsServing ==
    ASSUME Inv, Work, NEW p \in Providers, active[p] # "none", change.op # "Deconfigure"
    PROVE  \E q \in Providers : active'[q] # "none"
<1>1. change' = change /\ change # NoChange
  BY DEF Work
<1>2. change.prov \in Providers
  BY <1>1 DEF Inv, ChangeInv
<1>3. active \in [Providers -> {"none"} \cup Kinds]
  BY DEF Inv, TypeOK
<1>4. CASE active' = active
  BY <1>4
<1>5. ASSUME NEW k \in Kinds, active' = [active EXCEPT ![change.prov] = k]
      PROVE  \E q \in Providers : active'[q] # "none"
  BY <1>2, <1>3, <1>5 DEF Kinds
<1>6. CASE Step("configure")
           /\ active' = [active EXCEPT ![change.prov] = StoredKind(change.prov, change.kind)]
  <2>1. at = "configure" /\ change.op = "Configure" /\ change.kind \in Kinds
    BY <1>6, StepFacts DEF StepNames, Owners, WellFormed
  <2>2. StoredKind(change.prov, change.kind) \in Kinds
    BY <2>1 DEF StoredKind, Kinds
  <2>3. QED
    BY <1>5, <1>6, <2>2
<1>7. CASE Step("promote")
           /\ active' = [active EXCEPT ![change.prov] =
                            StoredKind(change.prov, staged[change.prov])]
  <2>1. at = "promote" /\ change.op = "Activate"
    BY <1>7, StepFacts DEF StepNames, Owners
  <2>2. staged[change.prov] \in Kinds
    BY <1>2, <2>1 DEF Inv, TypeOK, StepInv, ActivateInv, Going, Staged
  <2>3. StoredKind(change.prov, staged[change.prov]) \in Kinds
    BY <2>2 DEF StoredKind, Kinds
  <2>4. QED
    BY <1>5, <1>7, <2>3
<1>8. CASE DeleteCredential(Outgoing)
  <2>1. Step("uncredential") /\ active' = [active EXCEPT ![Outgoing] = "none"]
    BY <1>8 DEF DeleteCredential
  <2>2. at = "uncredential" /\ change.op = "Activate"
    BY <2>1, StepFacts DEF StepNames, Owners
  <2>3. Outgoing # change.prov /\ active[change.prov] # "none"
    BY <1>2, <2>2, OutgoingFacts
  <2>4. active'[change.prov] # "none"
    BY <1>2, <1>3, <2>1, <2>3
  <2>5. QED
    BY <1>2, <2>4
<1>9. \/ active' = active
      \/ Promote(change.prov)
      \/ DeleteCredential(Outgoing)
  BY DEF Work, EnsureSCIMFirstConnection, EnableConnection, EnsureCleanup, DeleteConnection,
     DeleteStagedConnection, markAuthProviderCleanupReady, Unstage, Finish, creds
<1>10. QED
  BY <1>4, <1>6, <1>7, <1>8, <1>9 DEF Promote

\* A switch keeps someone serving at every step: only a deconfiguration takes
\* the last provider away.
THEOREM SwitchKeepsServing == Spec => ServingKept
<1>1. ASSUME Inv, Inv', [Next]_vars
      PROVE  [(\E p \in Providers : Configured(p)) =>
                 \/ (\E p \in Providers : Configured(p))'
                 \/ change # NoChange /\ change.op = "Deconfigure"]_vars
  <2>1. SUFFICES ASSUME Next, NEW p \in Providers, Configured(p),
                        ~(change # NoChange /\ change.op = "Deconfigure")
                 PROVE  (\E q \in Providers : Configured(q))'
    BY <1>1
  <2>2. active[p] # "none"
    BY <1>1, <2>1, ConfiguredFacts
  <2>3. change.op # "Deconfigure"
    BY <2>1 DEF NoChange
  <2>4. \E q \in Providers : active'[q] # "none"
    <3>1. CASE Work
      BY <1>1, <2>2, <2>3, <3>1, WorkKeepsServing
    <3>2. CASE ~Work
      <4>1. active' = active
        BY <2>1, <3>2 DEF Next, Request, Check, CheckActivate, Submit, Applied, GiveUp, Verify,
           redirect, Cleanup, CleanupData, CleanupUsers, GroupData, refreshGroups, connection,
           Brings, persistGroups, pushGroup, Reconcile, Begin, Remove, Fail, creds
      <4>2. QED
        BY <2>2, <4>1
    <3>3. QED
      BY <3>1, <3>2
  <2>5. PICK q \in Providers : active'[q] # "none"
    BY <2>4
  <2>6. active'[q] = "dir" \/ (active'[q] = "scim" /\ conn' = q)
    BY <1>1, <2>5 DEF Inv, TypeOK, CredInv, ScimInv, Kinds
  <2>7. QED
    BY <2>6 DEF Configured
<1>2. QED
  BY <1>1, Invariance, PTL DEF Spec, ServingKept

\* A cleanup deletes no group data of a provider that serves, unless it began
\* between a request's check for one and the submission of its change.
THEOREM CleanupSparesServed == Spec => CleanupSparesServing
<1>1. ASSUME Inv
      PROVE  [\A p \in Providers :
                 cleanup[p] = "ready" /\ cleanup'[p] = "users" =>
                     active[p] = "none" \/ overlap[p]]_vars
  BY <1>1 DEF Inv, DataInv, CleanupInv, NoCleanup
<1>2. QED
  BY <1>1, Invariance, PTL DEF CleanupSparesServing
-----------------------------------------------------------------------------
(* What an applied change has done *)

\* The outcome that each desired state asks for.
Achieved ==
    /\ change.op = "Configure" => active[change.prov] # "none"
    /\ change.op = "Stage" => Staged(change.prov)
    /\ change.op = "Unstage" => ~Staged(change.prov)
    /\ change.op = "Migrate" =>
          active[change.prov] # "none" /\ conn = change.prov /\ migrated = TRUE
    /\ change.op = "Deconfigure" =>
          active[change.prov] = "none" /\ ~Staged(change.prov) /\ conn # change.prov
    /\ change.op = "Activate" =>
          /\ active[change.prov] # "none" /\ ~Staged(change.prov)
          /\ active[change.repl] = "none" /\ conn # change.repl

DoneInv == at = "finish" \/ status = "applied" => Achieved

\* Every step of the controller either is not the last one or completes the
\* outcome.
LEMMA WorkAchieves ==
    ASSUME Inv, DoneInv, Work
    PROVE  DoneInv'
<1>1. change' = change /\ change # NoChange
  BY DEF Work
<1>2. change.prov \in Providers /\ change.op \in AllOps
  BY <1>1 DEF Inv, ChangeInv
<1>3. ASSUME NEW s \in StepNames, Step(s), s # "finish", Continue,
             Follows(change.op, s) # "finish"
      PROVE  DoneInv'
  BY <1>1, <1>3, ContinueFacts DEF DoneInv
<1>4. ASSUME Refuse
      PROVE  DoneInv'
  BY <1>4, EndFacts DEF Refuse, DoneInv
<1>5. CASE EnsureSCIMFirstConnection(change.prov)
  BY <1>3, <1>4, <1>5 DEF EnsureSCIMFirstConnection, StepNames, Follows
<1>6. CASE EnableConnection(change.prov)
  <2>1. /\ Step("migrate") /\ active' = active
        /\ conn' = change.prov /\ migrated' = TRUE
    BY <1>6 DEF EnableConnection, creds, data
  <2>2. change.op = "Migrate" /\ at = "migrate"
    BY <2>1, StepFacts DEF StepNames, Owners
  <2>3. active[change.prov] # "none"
    BY <2>2 DEF Inv, StepInv, MigrateInv, Going
  <2>4. QED
    BY <1>1, <2>1, <2>2, <2>3 DEF DoneInv, Achieved
<1>7. CASE Promote(change.prov)
  <2>1. /\ Continue /\ UNCHANGED <<conn, migrated, groups, inflight, cleanup>>
        /\ overlap' = overlap
        /\ unread' = unread
    BY <1>7 DEF Promote, scim, data, history, Work
  <2>2. CASE Step("configure") /\ staged' = staged
             /\ active' = [active EXCEPT ![change.prov] = StoredKind(change.prov, change.kind)]
    <3>1. change.op = "Configure" /\ at = "configure"
      BY <2>2, StepFacts DEF StepNames, Owners
    <3>2. at' = "finish"
      BY <1>1, <2>1, <2>2, ContinueFacts DEF StepNames, Follows
    <3>3. StepInv'
      BY <1>1, <2>1, <2>2, ConfigureKeeps
    <3>4. QED
      BY <1>1, <3>1, <3>2, <3>3 DEF StepInv, ConfigureInv, Going, DoneInv, Achieved
  <2>3. CASE Step("promote")
    BY <1>3, <2>1, <2>3 DEF StepNames, Follows
  <2>4. CASE Step("stage") /\ active' = active
             /\ staged' = [staged EXCEPT ![change.prov] = StoredKind(change.prov, change.kind)]
    <3>1. change.op = "Stage" /\ at = "stage"
      BY <2>4, StepFacts DEF StepNames, Owners
    <3>2. at' = "finish"
      BY <1>1, <2>1, <2>4, ContinueFacts DEF StepNames, Follows
    <3>3. StepInv'
      BY <1>1, <2>1, <2>4, StageKeeps
    <3>4. QED
      BY <1>1, <3>1, <3>2, <3>3 DEF StepInv, StageInv, Going, DoneInv, Achieved, Staged
  <2>5. QED
    BY <1>7, <2>2, <2>3, <2>4 DEF Promote
<1>8. CASE EnsureCleanup(Outgoing)
  BY <1>3, <1>8 DEF EnsureCleanup, StepNames, Follows
<1>9. CASE DeleteCredential(Outgoing)
  BY <1>3, <1>9 DEF DeleteCredential, StepNames, Follows
<1>10. CASE DeleteConnection(Outgoing)
  BY <1>3, <1>10 DEF DeleteConnection, StepNames, Follows
<1>11. CASE DeleteStagedConnection(change.prov)
  BY <1>3, <1>11 DEF DeleteStagedConnection, StepNames, Follows
<1>12. CASE markAuthProviderCleanupReady(Outgoing)
  <2>1. Step("ready") /\ Continue /\ UNCHANGED <<active, staged, conn>>
    BY <1>12 DEF markAuthProviderCleanupReady, creds, scim, data
  <2>2. at = "ready" /\ change.op \in {"Deconfigure", "Activate"}
    BY <2>1, StepFacts DEF StepNames, Owners
  <2>3. CASE change.op = "Activate"
    BY <1>3, <2>1, <2>3 DEF StepNames, Follows
  <2>4. CASE change.op = "Deconfigure"
    <3>1. Removing(change.prov)
      BY <2>2, <2>4 DEF Inv, StepInv, DeconfigureInv, Going
    <3>2. active[change.prov] = "none" /\ ~Staged(change.prov) /\ conn # change.prov
      BY <2>2, <3>1 DEF Removing
    <3>3. QED
      BY <1>1, <2>1, <2>4, <3>2 DEF DoneInv, Achieved, Staged
  <2>5. QED
    BY <2>2, <2>3, <2>4
<1>13. CASE Unstage(change.prov)
  <2>1. /\ Step("unstage") \/ Step("discard")
        /\ staged' = [staged EXCEPT ![change.prov] = "none"]
        /\ UNCHANGED <<active, conn>>
    BY <1>13 DEF Unstage, scim, data
  <2>2. \/ at = "unstage" /\ change.op = "Activate"
        \/ at = "discard" /\ change.op = "Unstage"
    BY <2>1, StepFacts DEF StepNames, Owners
  <2>3. staged'[change.prov] = "none"
    BY <1>2, <2>1 DEF Inv, TypeOK
  <2>4. change.op = "Activate" =>
            /\ active[change.prov] # "none" /\ active[change.repl] = "none"
            /\ conn # change.repl
    BY <2>2 DEF Inv, StepInv, ActivateInv, Removing, Going
  <2>5. QED
    BY <1>1, <2>1, <2>2, <2>3, <2>4 DEF DoneInv, Achieved, Staged
<1>14. CASE Finish
  <2>1. Step("finish") /\ UNCHANGED <<active, staged, conn, migrated>>
    BY <1>14 DEF Finish, creds, scim, data
  <2>2. Achieved
    BY <2>1, StepFacts DEF StepNames, DoneInv
  <2>3. Achieved'
    BY <1>1, <2>1, <2>2 DEF Achieved, Staged
  <2>4. QED
    BY <2>3 DEF DoneInv
<1>15. QED
  BY <1>5, <1>6, <1>7, <1>8, <1>9, <1>10, <1>11, <1>12, <1>13, <1>14 DEF Work

\* Nobody else touches what a change has done before it is removed.
LEMMA OthersAchieve ==
    ASSUME Inv, DoneInv, [Next]_vars, ~Work
    PROVE  DoneInv'
<1>1. CASE UNCHANGED <<creds, scim, object>>
  <2>1. UNCHANGED <<active, staged, conn, migrated, change, status, plan>>
    BY <1>1 DEF creds, scim, object
  <2>2. at' = at
    BY <2>1 DEF at, At
  <2>3. QED
    BY <2>1, <2>2 DEF DoneInv, Achieved, Staged
<1>2. ASSUME NEW h \in Requests, Submit(h)
      PROVE  DoneInv'
  <2>1. UNCHANGED <<creds, scim, status, plan>>
    BY <1>2 DEF Submit
  <2>2. CASE change = NoChange
    <3>1. change.op \notin AllOps
      BY <2>2 DEF NoChange, AllOps, Ops
    <3>2. status = "open"
      BY <3>1 DEF Inv, ChangeInv
    <3>3. plan' = << >>
      BY <2>1, <2>2 DEF Inv, TypeOK
    <3>4. QED
      BY <2>1, <3>2, <3>3, EndFacts DEF DoneInv
  <2>3. CASE change # NoChange
    BY <1>1, <1>2, <2>1, <2>3 DEF Submit, object
  <2>4. QED
    BY <2>2, <2>3
<1>3. CASE Begin
  <2>1. /\ change # NoChange /\ status = "open" /\ plan = << >>
        /\ UNCHANGED <<active, staged, conn, migrated, change>>
    BY <1>3 DEF Begin, creds, scim
  <2>2. PICK c \in ConfiguredProviders :
            IF Refused(change.op, change.prov, change.kind, change.repl, c)
              THEN Refuse
              ELSE /\ plan' = Plan(change.op, change.prov, change.kind, change.repl)
                   /\ UNCHANGED status
    BY <1>3 DEF Begin
  <2>3. CASE Refuse
    BY <2>3, EndFacts DEF Refuse, DoneInv
  <2>4. CASE plan' = Plan(change.op, change.prov, change.kind, change.repl)
             /\ status' = status
    <3>1. At(plan') # "finish"
      BY <2>1, <2>4, FirstStep
    <3>2. at' # "finish"
      BY <3>1 DEF at
    <3>3. QED
      BY <2>1, <2>4, <3>2 DEF DoneInv
  <2>5. QED
    BY <2>2, <2>3, <2>4
<1>4. CASE Remove
  <2>1. change'.op = "none"
    BY <1>4 DEF Remove, NoChange
  <2>2. QED
    BY <2>1 DEF DoneInv, Achieved
<1>5. CASE Fail
  <2>1. plan' = << >> /\ status = "open" /\ status' = status
    BY <1>5 DEF Fail, Inv, TypeOK
  <2>2. QED
    BY <2>1, EndFacts DEF DoneInv
<1>6. \/ UNCHANGED <<creds, scim, object>>
      \/ \E h \in Requests : Submit(h)
      \/ Begin \/ Remove \/ Fail
  BY DEF Next, Request, Check, CheckActivate, Applied, GiveUp, Verify, redirect,
     Cleanup, CleanupData, CleanupUsers, GroupData, refreshGroups, connection, Brings,
     persistGroups, pushGroup, Reconcile, vars
<1>7. QED
  BY <1>1, <1>2, <1>3, <1>4, <1>5, <1>6

\* A change that is applied has the outcome it asked for, through whatever
\* faults, retries and other requests it came, and until it is removed: the
\* Applied that waitForProviderConfigurationChange waits for is true.
THEOREM AppliedMeansDone == Spec => [](status = "applied" => Achieved)
<1>1. Init => DoneInv
  BY DEF Init, DoneInv, at, At
<1>2. Inv /\ DoneInv /\ [Next]_vars => DoneInv'
  BY WorkAchieves, OthersAchieve
<1>3. DoneInv => (status = "applied" => Achieved)
  BY DEF DoneInv
<1>4. QED
  BY <1>1, <1>2, <1>3, Invariance, PTL DEF Spec

\* A change that is no longer open, applied or refused, has left nothing for
\* another to answer for: no staging without its connection, no connection
\* that serves nothing, no second configured provider, no cleanup of a
\* provider in use but one that overlapped its request.  Where the controller
\* has overlooked the provider in use, all that may be left is a connection, a
\* second provider, or a cleanup that only waits and so deletes nothing.
THEOREM ChangeEndsSettled == Spec => [](status # "open" => Settled)
<1>1. Inv => (status # "open" => Settled)
  BY ClosedSettled
<1>2. QED
  BY <1>1, Invariance, PTL
=============================================================================
