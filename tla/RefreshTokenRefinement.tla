----------------------- MODULE RefreshTokenRefinement -----------------------
(***************************************************************************)
(* RefreshToken implements TokenChain when the replicas' clocks agree, for *)
(* any number of handlers: every step of the token endpoint is a step of   *)
(* the single chain of tokens, or none that the chain sees.                *)
(***************************************************************************)
EXTENDS RefreshTokenProofs

\* What the chain sees of a handler: a token while it is at work and an answer
\* while it has one.
SeenInv(h) ==
    /\ pc[h] = "idle" => presented[h] = None
    /\ ~ Answering(h) => answer[h] = None

\* A handler whose copy is no longer the record finds its predecessor's window
\* over: the update that made the copy stale waited for that.
WindowInv(h) ==
    pc[h] \in {"user", "mint", "rotate"} => copy[h].rv = rec.rv \/ now >= copy[h].until

RefInv ==
    /\ \A t \in Tokens : succ[t] # t
    /\ \A h \in Handlers : SeenInv(h) /\ WindowInv(h)

\* Every handler's clock shows the same time.
LEMMA OneClock ==
    ASSUME MaxSkew = 0, TypeOK, NEW h \in Handlers
    PROVE  clock(h) = now
BY ConstantsAssumption DEF clock, TypeOK

LEMMA RefInit ==
    ASSUME Init PROVE RefInv
<1>1. \A t \in Tokens : succ[t] # t
  BY DEF Init, Tokens, None
<1>2. \A h \in Handlers : pc[h] = "idle" /\ presented[h] = None /\ answer[h] = None
  BY DEF Init
<1> QED
  BY <1>1, <1>2 DEF RefInv, SeenInv, WindowInv

-----------------------------------------------------------------------------
(* What each step does *)

\* A handler that returns is seen no more.
LEMMA ReturnClears ==
    ASSUME TypeOK, NEW h \in Handlers, Return(h)
    PROVE  /\ pc'[h] = "idle" /\ presented'[h] = None /\ answer'[h] = None /\ Alone(h)
           /\ presented' = [presented EXCEPT ![h] = None]
           /\ answer' = [answer EXCEPT ![h] = None]
BY DEF TypeOK, Return, Alone, Idles

\* The steps by which h goes on with what it has presented.
Moves(h) ==
    \/ Get(h) /\ ~ Return(h)
    \/ CheckAccess(h) \/ (Mint(h) /\ ~ Return(h))
    \/ NewCandidate(h) \/ UpdateRefused(h) \/ RegetRetries(h) \/ CheckOwner(h)

Answers(h) == Recover(h) \/ KeepCurrent(h) \/ RegetConfirms(h)

Commits(h) == UpdateAnswered(h) \/ UpdateAnswerLost(h)

Returns(h) ==
    /\ Return(h)
    /\ Get(h) \/ Mint(h) \/ Refuse(h) \/ RegetFails(h) \/ Delete(h) \/ Write(h) \/ Fail(h)

LEMMA StepKinds ==
    ASSUME NEW h \in Handlers, Step(h)
    PROVE  Moves(h) \/ Answers(h) \/ Commits(h) \/ Returns(h)
BY DEF Step, Moves, Answers, Commits, Returns, Refuse, RegetFails, Delete, Write, Fail

LEMMA MovesEffect ==
    ASSUME Inv, NEW h \in Handlers, Moves(h)
    PROVE  /\ Alone(h) /\ UNCHANGED <<now, stored, rec, succ, presented, answer>>
           /\ pc[h] # "idle" /\ pc'[h] # "idle" /\ (Answering(h)' => Answering(h))
           /\ pc'[h] \in {"user", "mint", "rotate"} =>
                 copy'[h] = rec \/ (pc[h] \in {"user", "mint"} /\ copy'[h] = copy[h])
<1>0. TypeOK
  BY DEF Inv
<1>1. CASE Get(h) /\ ~ Return(h)
  BY <1>0, <1>1 DEF Get, Goto, Alone, Idles, Answering, TypeOK, env, grant
<1>2. CASE CheckAccess(h) \/ (Mint(h) /\ ~ Return(h))
  BY <1>0, <1>2 DEF CheckAccess, Mint, Goto, Alone, Idles, Answering, TypeOK, env, grant
<1>3. CASE NewCandidate(h)
  BY <1>0, <1>3 DEF NewCandidate, Goto, Alone, Idles, Answering, TypeOK, env
<1>4. CASE UpdateRefused(h) \/ RegetRetries(h) \/ CheckOwner(h)
  BY <1>0, <1>4
     DEF UpdateRefused, RegetRetries, CheckOwner, Goto, Alone, Idles, Answering, TypeOK, env, grant
<1> QED
  BY <1>1, <1>2, <1>3, <1>4 DEF Moves

LEMMA AnswersEffect ==
    ASSUME Inv, NEW h \in Handlers, Answers(h)
    PROVE  /\ Alone(h) /\ UNCHANGED <<now, stored, rec, succ, presented>>
           /\ pc[h] \in {"rotate", "reget"} /\ pc'[h] = "owner"
<1>0. TypeOK
  BY DEF Inv
<1> QED
  BY <1>0 DEF Answers, Recover, KeepCurrent, RegetConfirms, Goto, Alone, Idles, TypeOK, env, grant

LEMMA CommitsEffect ==
    ASSUME Inv, NEW h \in Handlers, Commits(h)
    PROVE  /\ Alone(h) /\ UNCHANGED <<now, presented>> /\ Commit(h)
           /\ pc[h] = "update" /\ pc'[h] \in {"owner", "reget"}
           /\ \/ pc'[h] = "owner" /\ answer' = [answer EXCEPT ![h] = cand[h]]
              \/ UNCHANGED answer
<1>0. TypeOK
  BY DEF Inv
<1>1. Commit(h) /\ UNCHANGED <<now, presented>>
  BY DEF Commits, UpdateAnswered, UpdateAnswerLost, env
<1>2. CASE UpdateAnswered(h)
  BY <1>0, <1>1, <1>2 DEF UpdateAnswered, Goto, Alone, Idles, TypeOK
<1>3. CASE UpdateAnswerLost(h)
  BY <1>0, <1>1, <1>3 DEF UpdateAnswerLost, Goto, Alone, Idles, TypeOK
<1> QED
  BY <1>2, <1>3 DEF Commits

LEMMA ReturnsEffect ==
    ASSUME Inv, NEW h \in Handlers, Returns(h)
    PROVE  /\ UNCHANGED <<now, rec, succ>> /\ stored' \in {stored, FALSE}
           /\ pc[h] # "idle"
BY DEF Returns, Get, Mint, Refuse, RegetFails, Delete, Write, Fail, env, grant

-----------------------------------------------------------------------------
(* The additional invariant *)

\* A step of h that commits nothing has only to keep the invariant of h.
LEMMA QuietKeepsRef ==
    ASSUME RefInv, NEW h \in Handlers, Alone(h), UNCHANGED <<now, rec, succ>>,
           SeenInv(h)', WindowInv(h)'
    PROVE  RefInv'
<1>1. ASSUME NEW g \in Handlers, g # h PROVE SeenInv(g)' /\ WindowInv(g)'
  BY <1>1 DEF RefInv, SeenInv, WindowInv, Alone, Idles, Answering
<1> QED
  BY <1>1 DEF RefInv

LEMMA StepKeepsRef ==
    ASSUME MaxSkew = 0, Inv, RefInv, NEW h \in Handlers, Step(h)
    PROVE  RefInv'
<1>0. TypeOK /\ SeenInv(h) /\ WindowInv(h) /\ HandlerInv(h)
  BY DEF Inv, RefInv
<1>1. CASE Moves(h)
  <2>1. /\ Alone(h) /\ UNCHANGED <<now, stored, rec, succ, presented, answer>>
        /\ pc[h] # "idle" /\ pc'[h] # "idle" /\ (Answering(h)' => Answering(h))
        /\ pc'[h] \in {"user", "mint", "rotate"} =>
              copy'[h] = rec \/ (pc[h] \in {"user", "mint"} /\ copy'[h] = copy[h])
    BY <1>1, MovesEffect
  <2>2. SeenInv(h)'
    <3>1. CASE CheckOwner(h)
      BY <1>0, <2>1, <3>1 DEF CheckOwner, Goto, SeenInv, Answering, TypeOK
    <3>2. CASE ~ CheckOwner(h)
      <4>1. ~ Answering(h)
        BY <1>1, <3>2 DEF Moves, Get, CheckAccess, Mint, NewCandidate, UpdateRefused,
                          RegetRetries, Goto, Answering
      <4> QED
        BY <1>0, <2>1, <4>1 DEF SeenInv
    <3> QED
      BY <3>1, <3>2
  <2>3. WindowInv(h)'
    BY <1>0, <2>1 DEF WindowInv
  <2> QED
    BY <2>1, <2>2, <2>3, QuietKeepsRef
<1>2. CASE Answers(h)
  <2>1. /\ Alone(h) /\ UNCHANGED <<now, rec, succ>> /\ pc'[h] = "owner"
    BY <1>2, AnswersEffect
  <2>2. SeenInv(h)' /\ WindowInv(h)'
    BY <2>1 DEF SeenInv, WindowInv, Answering
  <2> QED
    BY <2>1, <2>2, QuietKeepsRef
<1>3. CASE Returns(h)
  <2>1. /\ Alone(h) /\ UNCHANGED <<now, rec, succ>>
        /\ pc'[h] = "idle" /\ presented'[h] = None /\ answer'[h] = None
    BY <1>0, <1>3, ReturnsEffect, ReturnClears DEF Returns
  <2>2. SeenInv(h)' /\ WindowInv(h)'
    BY <2>1 DEF SeenInv, WindowInv, Answering
  <2> QED
    BY <2>1, <2>2, QuietKeepsRef
<1>4. CASE Commits(h)
  <2>1. /\ Alone(h) /\ UNCHANGED <<now, presented>> /\ Commit(h)
        /\ pc[h] = "update" /\ pc'[h] \in {"owner", "reget"}
        /\ \/ pc'[h] = "owner" /\ answer' = [answer EXCEPT ![h] = cand[h]]
           \/ UNCHANGED answer
    BY <1>4, CommitsEffect
  <2>2. /\ succ' = [succ EXCEPT ![presented[h]] = cand[h]]
        /\ presented[h] = CurrentHash(rec) /\ presented[h] \in Tokens
        /\ cand[h] \in Tokens /\ clock(h) >= rec.until
    BY <2>1, CommitGrows
  <2>3. \A t \in Tokens : succ'[t] # t
    <3>1. cand[h] # presented[h]
      BY <1>0, <2>1, <2>2 DEF HandlerInv, UpdateInv
    <3> QED
      BY <1>0, <2>2, <3>1 DEF RefInv, TypeOK
  <2>4. SeenInv(h)' /\ WindowInv(h)'
    <3>1. answer[h] = None
      BY <1>0, <2>1 DEF SeenInv, Answering
    <3> QED
      BY <2>1, <3>1 DEF SeenInv, WindowInv, Answering
  <2>5. ASSUME NEW g \in Handlers, g # h PROVE SeenInv(g)' /\ WindowInv(g)'
    <3>1. Idles(g) /\ SeenInv(g) /\ WindowInv(g) /\ CopyInv(g)
      BY <2>1, <2>5 DEF Alone, RefInv, Inv, HandlerInv
    <3>2. SeenInv(g)'
      BY <3>1 DEF Idles, SeenInv, Answering
    <3>3. now >= rec.until
      BY <1>0, <2>2, OneClock
    <3>4. pc[g] \in {"user", "mint", "rotate"} => now >= copy[g].until
      BY <3>1, <3>3 DEF WindowInv, CopyInv
    <3> QED
      BY <2>1, <3>1, <3>2, <3>4 DEF Idles, WindowInv
  <2> QED
    BY <2>3, <2>4, <2>5 DEF RefInv
<1> QED
  BY <1>1, <1>2, <1>3, <1>4, StepKinds

LEMMA RefNext ==
    ASSUME MaxSkew = 0, Inv, RefInv, [Next]_vars
    PROVE  RefInv'
<1>0. TypeOK
  BY DEF Inv
<1>1. ASSUME NEW h \in Handlers, NEW t \in Tokens, Present(h, t) PROVE RefInv'
  <2>1. /\ Alone(h) /\ UNCHANGED <<now, rec, succ, answer>>
        /\ pc[h] = "idle" /\ pc'[h] = "get"
    BY <1>0, <1>1 DEF Present, Goto, Alone, Idles, TypeOK, env, grant
  <2>2. SeenInv(h)' /\ WindowInv(h)'
    BY <2>1 DEF RefInv, SeenInv, WindowInv, Answering
  <2> QED
    BY <2>1, <2>2, QuietKeepsRef
<1>2. CASE Tick
  <2>1. now \in Nat /\ now' = now + 1 /\ UNCHANGED <<grant, local>>
    BY <1>0, <1>2, ConstantsAssumption DEF Tick, TypeOK
  <2>2. \A h \in Handlers : copy[h].until \in Nat
    BY <1>0 DEF TypeOK, Record
  <2> QED
    BY <2>1, <2>2 DEF RefInv, SeenInv, WindowInv, Answering, grant, local
<1>3. CASE \/ Revoke \/ UNCHANGED vars
           \/ \E s \in UserStates : SetUser(s)
           \/ \E a \in BOOLEAN : SetAccess(a)
  <2>1. UNCHANGED <<now, rec, succ, local>>
    BY <1>3 DEF Revoke, SetUser, SetAccess, vars, env, grant
  <2> QED
    BY <2>1 DEF RefInv, SeenInv, WindowInv, Answering, local
<1> QED
  BY <1>1, <1>2, <1>3, StepKeepsRef DEF Next

-----------------------------------------------------------------------------
(* Every step is a step of the chain *)

\* The newest token of the chain is the record's current one.
LEMMA CopyIsNewest ==
    ASSUME MaxSkew = 0, Inv, RefInv, NEW h \in Handlers, pc[h] = "rotate",
           now < copy[h].until
    PROVE  copy[h] = rec
<1>1. now \in Nat /\ copy[h].until \in Nat
  BY ConstantsAssumption DEF Inv, TypeOK, Record
<1> QED
  BY <1>1 DEF RefInv, WindowInv, Inv, HandlerInv, CopyInv

LEMMA AnswersMap ==
    ASSUME MaxSkew = 0, Inv, RefInv, NEW h \in Handlers, Answers(h)
    PROVE  Chain!Answer(h)
<1>0. TypeOK /\ HandlerInv(h) /\ SeenInv(h) /\ clock(h) = now
  BY OneClock DEF Inv, RefInv
<1>1. /\ UNCHANGED <<stored, rec, succ, presented>> /\ pc[h] \in {"rotate", "reget"}
  BY AnswersEffect
<1>2. presented[h] # None /\ presented[h] \in Tokens /\ answer[h] = None
  BY <1>0, <1>1, HashesAreTokens DEF HandlerInv, PresentedInv, SeenInv, Answering
<1>3. /\ answer' = [answer EXCEPT ![h] = CurrentHash(rec)]
      /\ presented[h] = CurrentHash(rec) \/ succ[presented[h]] = CurrentHash(rec)
  <2>1. CASE Recover(h)
    <3>1. /\ pc[h] = "rotate" /\ presented[h] = copy[h].prev
          /\ copy[h].enc.plain = copy[h].cur
          /\ presented[h] = CurrentHash(copy[h]) \/ now < copy[h].until
          /\ answer' = [answer EXCEPT ![h] = copy[h].enc.plain]
      BY <1>0, <2>1 DEF Recover, Goto, validRefreshToken, CanRecover
    <3>2. copy[h].cur # None /\ succ[presented[h]] = copy[h].cur
      BY <1>0, <1>2, <3>1 DEF HandlerInv, CopyInv
    <3>3. CurrentHash(copy[h]) = copy[h].cur
      BY <3>2 DEF CurrentHash
    <3>4. presented[h] # copy[h].cur
      BY <1>2, <3>2 DEF RefInv
    <3>5. copy[h] = rec
      BY <3>1, <3>3, <3>4, CopyIsNewest
    <3> QED
      BY <3>1, <3>2, <3>3, <3>5
  <2>2. CASE KeepCurrent(h)
    <3>1. /\ pc[h] = "rotate" /\ now < copy[h].until
          /\ presented[h] = CurrentHash(copy[h])
          /\ answer' = [answer EXCEPT ![h] = presented[h]]
      BY <1>0, <2>2 DEF KeepCurrent, Goto, validRefreshToken
    <3>2. copy[h] = rec
      BY <3>1, CopyIsNewest
    <3> QED
      BY <3>1, <3>2
  <2>3. CASE RegetConfirms(h)
    <3>1. /\ pc[h] = "reget" /\ rec.cur = cand[h]
          /\ answer' = [answer EXCEPT ![h] = cand[h]]
      BY <2>3 DEF RegetConfirms, Goto
    <3>2. succ[presented[h]] = cand[h] /\ cand[h] \in 1 .. minted
      BY <1>0, <3>1 DEF HandlerInv, RegetInv, CandidateInv, HasCandidate
    <3>3. CurrentHash(rec) = cand[h]
      BY <3>1, <3>2 DEF CurrentHash, None
    <3> QED
      BY <3>1, <3>2, <3>3
  <2> QED
    BY <2>1, <2>2, <2>3 DEF Answers
<1>4. UNCHANGED CurrentHash(rec)
  BY <1>1 DEF CurrentHash
<1> QED
  BY <1>1, <1>2, <1>3, <1>4 DEF Chain!Answer, Chain!None, None

LEMMA CommitsMap ==
    ASSUME Inv, RefInv, NEW h \in Handlers, Commits(h)
    PROVE  \E t \in Tokens : Chain!Grow(h, t)
<1>0. TypeOK /\ HandlerInv(h) /\ SeenInv(h)
  BY DEF Inv, RefInv
<1>1. /\ UNCHANGED presented /\ Commit(h) /\ pc[h] = "update"
      /\ \/ answer' = [answer EXCEPT ![h] = cand[h]]
         \/ UNCHANGED answer
  BY CommitsEffect
<1>2. /\ succ' = [succ EXCEPT ![presented[h]] = cand[h]]
      /\ presented[h] = CurrentHash(rec) /\ cand[h] \in Tokens
  BY <1>1, CommitGrows
<1>3. /\ cand[h] # CurrentHash(rec) /\ succ[cand[h]] = None /\ copy[h].cur = cand[h]
      /\ answer[h] = None
  BY <1>0, <1>1 DEF HandlerInv, UpdateInv, SeenInv, Answering
<1>4. stored /\ stored' /\ stored' = stored
  BY <1>0, <1>1 DEF Commit, CanCommit, TypeOK
<1>5. CurrentHash(rec)' = cand[h]
  <2>1. rec'.cur = copy[h].cur
    BY <1>0, <1>1 DEF Commit, TypeOK, Record
  <2>2. cand[h] # None
    BY <1>2 DEF Tokens, None
  <2> QED
    BY <1>3, <2>1, <2>2 DEF CurrentHash
<1>6. Chain!Grow(h, cand[h])
  BY <1>1, <1>2, <1>3, <1>4, <1>5 DEF Chain!Grow, Chain!None, None
<1> QED
  BY <1>2, <1>6

LEMMA ReturnsMap ==
    ASSUME Inv, NEW h \in Handlers, Returns(h)
    PROVE  Chain!Finish(h)
<1>0. TypeOK /\ HandlerInv(h)
  BY DEF Inv
<1>1. UNCHANGED <<rec, succ>> /\ stored' \in {stored, FALSE} /\ presented[h] # None
  BY <1>0, ReturnsEffect DEF HandlerInv, PresentedInv
<1>2. presented' = [presented EXCEPT ![h] = None] /\ answer' = [answer EXCEPT ![h] = None]
  BY <1>0, ReturnClears DEF Returns
<1>3. UNCHANGED CurrentHash(rec)
  BY <1>1 DEF CurrentHash
<1> QED
  BY <1>1, <1>2, <1>3 DEF Chain!Finish, Chain!None, None

LEMMA StepMaps ==
    ASSUME MaxSkew = 0, Inv, RefInv, [Next]_vars
    PROVE  [Chain!Next]_(Chain!vars)
<1>0. TypeOK
  BY DEF Inv
<1>1. ASSUME NEW h \in Handlers, NEW t \in Tokens, Present(h, t) PROVE Chain!Ask(h)
  <2>1. /\ pc[h] = "idle" /\ presented' = [presented EXCEPT ![h] = t]
        /\ UNCHANGED <<stored, rec, succ, answer>>
    BY <1>1 DEF Present, Goto, grant
  <2>2. presented[h] = None
    BY <2>1 DEF RefInv, SeenInv
  <2>3. UNCHANGED CurrentHash(rec)
    BY <2>1 DEF CurrentHash
  <2> QED
    BY <2>1, <2>2, <2>3 DEF Chain!Ask, Chain!None, None
<1>2. ASSUME UNCHANGED <<stored, rec, succ, presented, answer>> PROVE UNCHANGED Chain!vars
  <2>1. UNCHANGED CurrentHash(rec)
    BY <1>2 DEF CurrentHash
  <2> QED
    BY <1>2, <2>1 DEF Chain!vars
<1>3. ASSUME NEW h \in Handlers, Step(h) PROVE [Chain!Next]_(Chain!vars)
  <2>1. CASE Moves(h)
    BY <1>2, <2>1, MovesEffect
  <2>2. CASE Answers(h)
    BY <2>2, AnswersMap DEF Chain!Next
  <2>3. CASE Commits(h)
    BY <2>3, CommitsMap DEF Chain!Next
  <2>4. CASE Returns(h)
    BY <2>4, ReturnsMap DEF Chain!Next
  <2> QED
    BY <1>3, <2>1, <2>2, <2>3, <2>4, StepKinds
<1>4. CASE Revoke
  <2>1. stored /\ stored' = FALSE /\ UNCHANGED <<rec, succ, presented, answer>>
    BY <1>4 DEF Revoke, local
  <2>2. UNCHANGED CurrentHash(rec)
    BY <2>1 DEF CurrentHash
  <2> QED
    BY <2>1, <2>2 DEF Chain!Revoke, Chain!Next
<1>5. CASE \/ Tick \/ UNCHANGED vars
           \/ \E s \in UserStates : SetUser(s)
           \/ \E a \in BOOLEAN : SetAccess(a)
  <2>1. UNCHANGED <<stored, rec, succ, presented, answer>>
    BY <1>5 DEF Tick, SetUser, SetAccess, vars, grant, local
  <2> QED
    BY <1>2, <2>1
<1> QED
  BY <1>1, <1>3, <1>4, <1>5 DEF Next, Chain!Next

LEMMA InitMaps ==
    ASSUME Init PROVE Chain!Init
<1>1. CurrentHash(rec) = First
  BY DEF Init, CurrentHash
<1> QED
  BY <1>1 DEF Init, Chain!Init, Chain!None, None

\* With synchronised clocks, whatever is lost, retried or refused between the
\* replicas, the clients see one chain of tokens: every answer of the token
\* endpoint is its newest token, and a revoked grant never grows again.
THEOREM EndpointImplementsChain ==
    ASSUME MaxSkew = 0
    PROVE  Spec => ImplementsChain
<1>1. Init => RefInv /\ Chain!Init
  BY RefInit, InitMaps
<1>2. Inv /\ RefInv /\ [Next]_vars => RefInv'
  BY RefNext
<1>3. Inv /\ RefInv /\ [Next]_vars => [Chain!Next]_(Chain!vars)
  BY StepMaps
<1> QED
  BY <1>1, <1>2, <1>3, Invariance, PTL DEF Spec, ImplementsChain, Chain!Spec
=============================================================================
