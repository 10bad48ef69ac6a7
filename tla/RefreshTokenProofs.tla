------------------------- MODULE RefreshTokenProofs -------------------------
(***************************************************************************)
(* Proofs about RefreshToken, for every set of handlers, every skew of     *)
(* their clocks and every bound.                                           *)
(***************************************************************************)
EXTENDS RefreshToken, TLAPS

\* The stored record: the chain's end has no successor and is a generated
\* secret, secrets not yet generated have none, and the predecessor leads to
\* the current token and opens its recovery value.
ChainInv ==
    /\ CurrentHash(rec) <= minted
    /\ succ[CurrentHash(rec)] = None
    /\ \A t \in Tokens : t > minted => succ[t] = None
    /\ rec.prev # None =>
        /\ rec.cur # None
        /\ succ[rec.prev] = rec.cur
        /\ CanRecover(rec, rec.prev)

\* A handler before its rotation: its copy is some version the record had,
\* and the record itself if no other version was committed since.
CopyInv(h) ==
    pc[h] \in {"user", "mint", "rotate"} =>
        /\ copy[h].rv <= rec.rv
        /\ copy[h].rv = rec.rv => copy[h] = rec
        /\ copy[h].prev # None =>
            copy[h].cur # None /\ succ[copy[h].prev] = copy[h].cur

\* A handler with a candidate no update has committed yet.  If its update can
\* commit, it replaces the end of the chain and the window is over.
UpdateInv(h) ==
    pc[h] = "update" =>
        /\ cand[h] # CurrentHash(rec)
        /\ succ[cand[h]] = None
        /\ copy[h].cur = cand[h]
        /\ copy[h].prev = presented[h]
        /\ CanRecover(copy[h], presented[h])
        /\ copy[h].rv <= rec.rv
        /\ copy[h].rv = rec.rv =>
            presented[h] = CurrentHash(rec) /\ clock(h) >= rec.until

\* A handler whose update failed: a candidate found current was committed.
RegetInv(h) ==
    pc[h] = "reget" /\ rec.cur = cand[h] => succ[presented[h]] = cand[h]

HasCandidate(h) == pc[h] \in {"update", "reget"}

CandidateInv(h) == HasCandidate(h) => cand[h] \in 1 .. minted

PresentedInv(h) == pc[h] # "idle" => presented[h] # None

AnswerInv(h) == Answering(h) =>
    \/ answer[h] = presented[h]
    \/ answer[h] # None /\ succ[presented[h]] = answer[h]

HandlerInv(h) ==
    /\ CopyInv(h) /\ UpdateInv(h) /\ RegetInv(h)
    /\ CandidateInv(h) /\ PresentedInv(h) /\ AnswerInv(h)

CandidatesDiffer ==
    \A g, h \in Handlers :
        g # h /\ HasCandidate(g) /\ HasCandidate(h) => cand[g] # cand[h]

Inv ==
    /\ TypeOK
    /\ ChainInv
    /\ \A h \in Handlers : HandlerInv(h)
    /\ CandidatesDiffer

-----------------------------------------------------------------------------
(* Type correctness *)

\* What Return leaves of a handler is well typed.
LEMMA ReturnType ==
    ASSUME TypeOK, NEW h \in Handlers, Return(h)
    PROVE  /\ pc' \in [Handlers -> PCs]
           /\ presented' \in [Handlers -> 0 .. MaxToken]
           /\ copy' \in [Handlers -> Record]
           /\ cand' \in [Handlers -> 0 .. MaxToken]
           /\ answer' \in [Handlers -> 0 .. MaxToken]
           /\ tries' \in [Handlers -> 0 .. Steps]
           /\ conflict' \in [Handlers -> BOOLEAN]
<1>1. MaxToken \in Nat /\ Steps \in Nat
  BY ConstantsAssumption
<1>2. [cur |-> None, prev |-> None, until |-> 0, enc |-> Unsealed, rv |-> 0] \in Record
  BY <1>1 DEF Record, Sealed, Unsealed, None
<1> QED
  BY <1>1, <1>2 DEF TypeOK, Return, PCs, None

\* A rotated copy is a record.
LEMMA RotatedType ==
    ASSUME NEW r \in Record, NEW t \in 0 .. MaxToken, NEW n \in 0 .. MaxToken,
           NEW time \in Nat
    PROVE  /\ Rotated(r, t, n, time) \in Record
           /\ Rotated(r, t, n, time).cur = n
           /\ Rotated(r, t, n, time).prev = t
           /\ Rotated(r, t, n, time).rv = r.rv
           /\ CanRecover(Rotated(r, t, n, time), t)
<1>1. time + Window \in Nat
  BY ConstantsAssumption
<1> DEFINE e == [key |-> t, plain |-> n, cur |-> n, prev |-> t, until |-> time + Window]
<1>2. e \in Sealed
  BY <1>1 DEF Sealed
<1>3. Rotated(r, t, n, time) \in Record
  BY <1>1, <1>2 DEF Rotated, Record
<1>4. /\ Rotated(r, t, n, time).cur = n
      /\ Rotated(r, t, n, time).prev = t
      /\ Rotated(r, t, n, time).rv = r.rv
      /\ Rotated(r, t, n, time).until = time + Window
      /\ Rotated(r, t, n, time).enc = e
  BY DEF Rotated, Record
<1>5. /\ e.key = t /\ e.plain = n /\ e.cur = n
      /\ e.prev = t /\ e.until = time + Window
  OBVIOUS
<1>6. CanRecover(Rotated(r, t, n, time), t)
  BY <1>4, <1>5 DEF CanRecover
<1> QED
  BY <1>3, <1>4, <1>6

\* The initial state is well typed.
LEMMA TypeInit == Init => TypeOK
<1> SUFFICES ASSUME Init PROVE TypeOK
  OBVIOUS
<1>1. MaxToken \in Nat \ {0} /\ Steps \in Nat /\ MaxTime \in Nat
  BY ConstantsAssumption
<1>2. rec \in Record
  BY <1>1 DEF Init, Record, Sealed, Unsealed, None
<1> QED
  BY <1>1, <1>2 DEF Init, TypeOK, Tokens, First, None, UserStates, PCs

\* A handler that writes has an answer: what a client holds is a token.
Answered == \A h \in Handlers : pc[h] = "write" => answer[h] # None

\* Every step keeps the state well typed; a write needs an answer to hand out.
LEMMA TypeNext == TypeOK /\ Answered /\ [Next]_vars => TypeOK'
<1> SUFFICES ASSUME TypeOK, Answered, [Next]_vars PROVE TypeOK'
  OBVIOUS
<1> USE ConstantsAssumption
<1>1. ASSUME NEW h \in Handlers, NEW t \in Tokens, Present(h, t)
      PROVE  TypeOK'
  BY <1>1 DEF TypeOK, Present, Goto, PCs, Tokens, env, grant
<1>2. ASSUME NEW h \in Handlers, Get(h) PROVE TypeOK'
  <2>1. CASE Return(h)
    BY <1>2, <2>1, ReturnType DEF TypeOK, Get, env, grant
  <2>2. CASE ~ Return(h)
    BY <1>2, <2>2 DEF TypeOK, Get, Goto, PCs, env, grant
  <2> QED
    BY <2>1, <2>2
<1>3. ASSUME NEW h \in Handlers, CheckAccess(h) PROVE TypeOK'
  BY <1>3 DEF TypeOK, CheckAccess, Goto, PCs, env, grant
<1>4. ASSUME NEW h \in Handlers, Mint(h) PROVE TypeOK'
  <2>1. CASE Return(h)
    BY <1>4, <2>1, ReturnType DEF TypeOK, Mint, env, grant
  <2>2. CASE ~ Return(h)
    BY <1>4, <2>2 DEF TypeOK, Mint, Goto, PCs, env, grant
  <2> QED
    BY <2>1, <2>2
<1>5. ASSUME NEW h \in Handlers, Refuse(h) \/ RegetFails(h) \/ Fail(h) PROVE TypeOK'
  <2>1. Return(h) /\ UNCHANGED <<env, grant>>
    BY <1>5 DEF Refuse, RegetFails, Fail
  <2> QED
    BY <2>1, ReturnType DEF TypeOK, env, grant
<1>6. ASSUME NEW h \in Handlers, Recover(h) PROVE TypeOK'
  <2>1. copy[h].enc.plain \in 0 .. MaxToken
    BY DEF TypeOK, Record, Sealed
  <2> QED
    BY <1>6, <2>1 DEF TypeOK, Recover, Goto, PCs, env, grant
<1>7. ASSUME NEW h \in Handlers, KeepCurrent(h) PROVE TypeOK'
  BY <1>7 DEF TypeOK, KeepCurrent, Goto, PCs, env, grant
<1>8. ASSUME NEW h \in Handlers, NewCandidate(h) PROVE TypeOK'
  <2>1. minted + 1 \in Tokens
    BY <1>8 DEF TypeOK, NewCandidate, Tokens
  <2>2. clock(h) \in Nat
    BY DEF TypeOK, clock
  <2>3. Rotated(copy[h], presented[h], minted + 1, clock(h)) \in Record
    <3>1. copy[h] \in Record /\ presented[h] \in 0 .. MaxToken
      BY DEF TypeOK
    <3>2. minted + 1 \in 0 .. MaxToken
      BY <2>1 DEF Tokens
    <3> QED
      BY <2>2, <3>1, <3>2, RotatedType
  <2> QED
    BY <1>8, <2>1, <2>3 DEF TypeOK, NewCandidate, Goto, PCs, Tokens, env
<1>9. ASSUME NEW h \in Handlers, Commit(h)
      PROVE  /\ stored' \in BOOLEAN /\ rec' \in Record
             /\ succ' \in [Tokens -> 0 .. MaxToken] /\ minted' \in Tokens
  <2>1. copy[h] \in Record /\ rec.rv + 1 \in Nat
    BY DEF TypeOK, Record
  <2>2. [copy[h] EXCEPT !.rv = rec.rv + 1] \in Record
    BY <2>1 DEF Record
  <2> QED
    BY <1>9, <2>2 DEF TypeOK, Commit
<1>10. ASSUME NEW h \in Handlers, UpdateAnswered(h) \/ UpdateAnswerLost(h) PROVE TypeOK'
  <2>1. Commit(h)
    BY <1>10 DEF UpdateAnswered, UpdateAnswerLost
  <2> QED
    BY <1>10, <1>9, <2>1 DEF TypeOK, UpdateAnswered, UpdateAnswerLost, Goto, PCs, env
<1>11. ASSUME NEW h \in Handlers, UpdateRefused(h) PROVE TypeOK'
  <2>1. (stored /\ copy[h].rv # rec.rv) \in BOOLEAN
    OBVIOUS
  <2> QED
    BY <1>11, <2>1 DEF TypeOK, UpdateRefused, Goto, PCs, env, grant
<1>12. ASSUME NEW h \in Handlers, RegetConfirms(h) \/ RegetRetries(h) PROVE TypeOK'
  <2>1. CASE RegetConfirms(h)
    BY <2>1 DEF TypeOK, RegetConfirms, Goto, PCs, env, grant
  <2>2. CASE RegetRetries(h)
    <3>1. tries[h] + 1 \in 0 .. Steps /\ None \in 0 .. MaxToken
      BY <2>2 DEF TypeOK, RegetRetries, None
    <3> QED
      BY <2>2, <3>1 DEF TypeOK, RegetRetries, Goto, PCs, env, grant
  <2> QED
    BY <1>12, <2>1, <2>2
<1>13. ASSUME NEW h \in Handlers, CheckOwner(h) PROVE TypeOK'
  BY <1>13 DEF TypeOK, CheckOwner, Goto, PCs, env, grant
<1>14. ASSUME NEW h \in Handlers, Delete(h) PROVE TypeOK'
  <2>1. Return(h)
    BY <1>14 DEF Delete
  <2> QED
    BY <1>14, <2>1, ReturnType DEF TypeOK, Delete, env
<1>15. ASSUME NEW h \in Handlers, Write(h) PROVE TypeOK'
  <2>1. Return(h) /\ held' = held \cup {answer[h]}
    BY <1>15 DEF Write
  <2>2. answer[h] \in Tokens
    BY <1>15 DEF Write, TypeOK, Answered, Tokens, None
  <2>3. held' \subseteq Tokens
    BY <2>1, <2>2 DEF TypeOK
  <2> QED
    BY <1>15, <2>1, <2>3, ReturnType DEF TypeOK, Write, grant
<1>16. ASSUME Tick \/ Revoke \/ (\E s \in UserStates : SetUser(s))
              \/ (\E a \in BOOLEAN : SetAccess(a))
       PROVE  TypeOK'
  <2>1. CASE Tick
    BY <2>1 DEF TypeOK, Tick, grant, local
  <2>2. CASE Revoke
    BY <2>2 DEF TypeOK, Revoke, env, local
  <2>3. CASE \E s \in UserStates : SetUser(s)
    BY <2>3 DEF TypeOK, SetUser, grant, local
  <2>4. CASE \E a \in BOOLEAN : SetAccess(a)
    BY <2>4 DEF TypeOK, SetAccess, grant, local
  <2> QED
    BY <1>16, <2>1, <2>2, <2>3, <2>4
<1>17. CASE UNCHANGED vars
  BY <1>17 DEF TypeOK, vars, env, grant, local
<1> QED
  BY <1>1, <1>2, <1>3, <1>4, <1>5, <1>6, <1>7, <1>8, <1>10, <1>11, <1>12, <1>13,
     <1>14, <1>15, <1>16, <1>17 DEF Next, Step

-----------------------------------------------------------------------------
(* The inductive invariant *)

\* The invariant holds of a grant that was never rotated.
LEMMA InvInit == Init => Inv
<1> SUFFICES ASSUME Init PROVE Inv
  OBVIOUS
<1>1. TypeOK
  BY TypeInit
<1>2. rec.cur = None /\ rec.prev = None
  BY DEF Init
<1>3. CurrentHash(rec) = First /\ First \in Tokens
  BY <1>2, ConstantsAssumption DEF CurrentHash, Tokens, First
<1>4. ChainInv
  BY <1>2, <1>3 DEF Init, ChainInv, First
<1>5. \A h \in Handlers : pc[h] = "idle"
  BY DEF Init
<1>6. \A h \in Handlers : HandlerInv(h)
  BY <1>5 DEF HandlerInv, CopyInv, UpdateInv, RegetInv, CandidateInv, PresentedInv,
              AnswerInv, HasCandidate, Answering
<1>7. CandidatesDiffer
  BY <1>5 DEF CandidatesDiffer, HasCandidate
<1> QED
  BY <1>1, <1>4, <1>6, <1>7 DEF Inv

\* The step is not g's.
Idles(g) ==
    /\ pc'[g] = pc[g] /\ presented'[g] = presented[g] /\ copy'[g] = copy[g]
    /\ cand'[g] = cand[g] /\ answer'[g] = answer[g]

\* While the record keeps its version, a handler that takes no step keeps its
\* invariant, whatever secrets are generated and however the clock advances.
LEMMA IdleHandler ==
    ASSUME Inv, NEW g \in Handlers, Idles(g), UNCHANGED <<rec, succ>>,
           now' \in Nat, now' >= now, minted' \in Nat, minted' >= minted
    PROVE  HandlerInv(g)'
<1>1. HandlerInv(g) /\ TypeOK
  BY DEF Inv
<1>2. CopyInv(g)'
  BY <1>1 DEF HandlerInv, CopyInv, Idles
<1>3. clock(g) \in Nat /\ clock(g)' \in Nat /\ clock(g)' >= clock(g) /\ rec.until \in Nat
  BY <1>1, ConstantsAssumption DEF clock, TypeOK, Record
<1>4. UpdateInv(g)'
  BY <1>1, <1>3 DEF HandlerInv, UpdateInv, Idles, CurrentHash, CanRecover
<1>5. RegetInv(g)' /\ PresentedInv(g)' /\ AnswerInv(g)'
  BY <1>1 DEF HandlerInv, RegetInv, PresentedInv, AnswerInv, Answering, Idles
<1>6. CandidateInv(g)'
  BY <1>1 DEF HandlerInv, CandidateInv, HasCandidate, Idles, TypeOK, Tokens
<1> QED
  BY <1>2, <1>4, <1>5, <1>6 DEF HandlerInv

\* Only h takes a step.
Alone(h) == \A g \in Handlers \ {h} : Idles(g)

\* A step of h that leaves the chain alone and makes no candidate has only to
\* keep the invariant of h.
LEMMA PlainStep ==
    ASSUME Inv, TypeOK', NEW h \in Handlers, Alone(h),
           UNCHANGED <<now, rec, succ, minted>>,
           HasCandidate(h)' => HasCandidate(h) /\ cand'[h] = cand[h],
           HandlerInv(h)'
    PROVE  Inv'
<1>1. ChainInv'
  BY DEF Inv, ChainInv, CurrentHash, CanRecover
<1>2. now \in Nat /\ minted \in Nat
  BY ConstantsAssumption DEF Inv, TypeOK, Tokens
<1>3. ASSUME NEW g \in Handlers PROVE HandlerInv(g)'
  <2>1. CASE g = h
    BY <2>1
  <2>2. CASE g # h
    BY <1>2, <2>2, IdleHandler DEF Alone
  <2> QED
    BY <2>1, <2>2
<1>4. CandidatesDiffer'
  BY DEF Inv, CandidatesDiffer, HasCandidate, Alone, Idles
<1> QED
  BY <1>1, <1>3, <1>4 DEF Inv

\* A handler that returns keeps nothing the invariant speaks of.
LEMMA ReturnKeepsInv ==
    ASSUME Inv, TypeOK', NEW h \in Handlers, Return(h),
           UNCHANGED <<now, rec, succ, minted>>
    PROVE  Inv'
<1>1. pc'[h] = "idle" /\ Alone(h)
  BY DEF Inv, TypeOK, Return, Alone, Idles
<1>2. HandlerInv(h)' /\ ~ HasCandidate(h)'
  BY <1>1 DEF HandlerInv, CopyInv, UpdateInv, RegetInv, CandidateInv, PresentedInv,
              AnswerInv, HasCandidate, Answering
<1> QED
  BY <1>1, <1>2, PlainStep

\* The steps before the rotation.
LEMMA ReadingKeepsInv ==
    ASSUME Inv, TypeOK', NEW h \in Handlers,
           (\E t \in Tokens : Present(h, t)) \/ Get(h) \/ CheckAccess(h) \/ Mint(h)
    PROVE  Inv'
<1>1. CASE (Get(h) \/ Mint(h)) /\ Return(h)
  BY <1>1, ReturnKeepsInv DEF Get, Mint, env, grant
<1>2. CASE \E t \in Tokens : Present(h, t)
  <2>1. PICK t \in Tokens : Present(h, t)
    BY <1>2
  <2>2. pc'[h] = "get" /\ presented'[h] = t /\ Alone(h)
    BY <2>1 DEF Inv, TypeOK, Present, Goto, Alone, Idles
  <2>3. HandlerInv(h)' /\ ~ HasCandidate(h)'
    BY <2>2 DEF HandlerInv, CopyInv, UpdateInv, RegetInv, CandidateInv, PresentedInv,
                AnswerInv, HasCandidate, Answering, Tokens, None
  <2> QED
    BY <2>1, <2>2, <2>3, PlainStep DEF Present, env, grant
<1>3. CASE Get(h) /\ ~ Return(h)
  <2>1. /\ pc[h] = "get" /\ pc'[h] = "user" /\ copy'[h] = rec
        /\ presented'[h] = presented[h] /\ Alone(h)
        /\ UNCHANGED <<now, rec, succ, minted>>
    BY <1>3 DEF Inv, TypeOK, Get, Goto, Alone, Idles, env, grant
  <2>2. CopyInv(h)'
    BY <2>1 DEF Inv, ChainInv, CopyInv, TypeOK, Record
  <2>3. HandlerInv(h)' /\ ~ HasCandidate(h)'
    BY <2>1, <2>2 DEF Inv, HandlerInv, UpdateInv, RegetInv, CandidateInv, PresentedInv,
                      AnswerInv, HasCandidate, Answering
  <2> QED
    BY <2>1, <2>3, PlainStep
<1>4. CASE CheckAccess(h) \/ (Mint(h) /\ ~ Return(h))
  <2>1. /\ pc[h] \in {"user", "mint"} /\ pc'[h] \in {"mint", "rotate", "consume"}
        /\ copy'[h] = copy[h] /\ presented'[h] = presented[h] /\ Alone(h)
        /\ UNCHANGED <<now, rec, succ, minted>>
    BY <1>4 DEF Inv, TypeOK, CheckAccess, Mint, Goto, Alone, Idles, env, grant
  <2>2. CopyInv(h)'
    BY <2>1 DEF Inv, HandlerInv, CopyInv
  <2>3. HandlerInv(h)' /\ ~ HasCandidate(h)'
    BY <2>1, <2>2 DEF Inv, HandlerInv, UpdateInv, RegetInv, CandidateInv, PresentedInv,
                      AnswerInv, HasCandidate, Answering
  <2> QED
    BY <2>1, <2>3, PlainStep
<1> QED
  BY <1>1, <1>2, <1>3, <1>4

\* The answers that need no update: the sealed successor of a predecessor, and
\* the current token itself.
LEMMA AnsweringKeepsInv ==
    ASSUME Inv, TypeOK', NEW h \in Handlers, Recover(h) \/ KeepCurrent(h)
    PROVE  Inv'
<1>1. /\ pc[h] = "rotate" /\ pc'[h] = "owner"
      /\ presented'[h] = presented[h] /\ Alone(h)
      /\ UNCHANGED <<now, rec, succ, minted>>
  BY DEF Inv, TypeOK, Recover, KeepCurrent, Goto, Alone, Idles, env, grant
<1>2. presented[h] # None
  BY <1>1 DEF Inv, HandlerInv, PresentedInv
<1>3. CASE Recover(h)
  <2>1. /\ answer'[h] = copy[h].enc.plain
        /\ presented[h] = copy[h].prev /\ copy[h].enc.plain = copy[h].cur
    BY <1>3 DEF Inv, TypeOK, Recover, CanRecover
  <2>2. copy[h].cur # None /\ succ[copy[h].prev] = copy[h].cur
    BY <1>1, <1>2, <2>1 DEF Inv, HandlerInv, CopyInv
  <2> QED
    BY <1>1, <2>1, <2>2, PlainStep
       DEF HandlerInv, CopyInv, UpdateInv, RegetInv, CandidateInv, PresentedInv,
           AnswerInv, HasCandidate, Answering, Inv
<1>4. CASE KeepCurrent(h)
  <2>1. answer'[h] = presented[h]
    BY <1>4 DEF Inv, TypeOK, KeepCurrent
  <2> QED
    BY <1>1, <1>2, <2>1, PlainStep
       DEF HandlerInv, CopyInv, UpdateInv, RegetInv, CandidateInv, PresentedInv,
           AnswerInv, HasCandidate, Answering, Inv
<1> QED
  BY <1>3, <1>4

\* A new candidate is a secret nobody has seen: no other handler has it, the
\* chain does not hold it, and its predecessor is the end of the chain if no
\* other version was committed since the handler read the record.
LEMMA CandidateKeepsInv ==
    ASSUME Inv, TypeOK', NEW h \in Handlers, NewCandidate(h)
    PROVE  Inv'
<1> DEFINE n == minted + 1
<1>1. /\ pc[h] = "rotate" /\ pc'[h] = "update"
      /\ presented'[h] = presented[h] /\ Alone(h)
      /\ UNCHANGED <<now, rec, succ>>
      /\ minted' = n /\ cand'[h] = n
      /\ copy'[h] = Rotated(copy[h], presented[h], n, clock(h))
  BY DEF Inv, TypeOK, NewCandidate, Goto, Alone, Idles, env
<1>2. minted \in Nat /\ n \in Tokens /\ now \in Nat /\ clock(h) \in Nat
  <2>1. now \in Nat /\ Skew[h] \in Nat
    BY ConstantsAssumption DEF Inv, TypeOK
  <2> QED
    BY <2>1, ConstantsAssumption DEF Inv, TypeOK, NewCandidate, Tokens, clock
<1>3. /\ copy'[h].cur = n /\ copy'[h].prev = presented[h]
      /\ copy'[h].rv = copy[h].rv /\ CanRecover(copy'[h], presented[h])
  <2>1. copy[h] \in Record /\ presented[h] \in 0 .. MaxToken /\ n \in 0 .. MaxToken
    BY <1>2 DEF Inv, TypeOK, Tokens
  <2> DEFINE r == Rotated(copy[h], presented[h], n, clock(h))
  <2>2. /\ r.cur = n /\ r.prev = presented[h]
        /\ r.rv = copy[h].rv /\ CanRecover(r, presented[h])
    BY <1>2, <2>1, RotatedType
  <2>3. copy'[h] = r
    BY <1>1
  <2> QED
    BY <2>2, <2>3, Zenon
<1>4. n # CurrentHash(rec) /\ succ[n] = None
  <2>1. CurrentHash(rec) <= minted /\ CurrentHash(rec) \in Nat
    BY ConstantsAssumption DEF Inv, ChainInv, CurrentHash, TypeOK, Record, First
  <2>2. succ[n] = None
    BY <1>2 DEF Inv, ChainInv
  <2> QED
    BY <1>2, <2>1, <2>2
<1>5. copy[h].rv <= rec.rv /\ (copy[h].rv = rec.rv => copy[h] = rec)
  BY <1>1 DEF Inv, HandlerInv, CopyInv
<1>6. presented[h] = CurrentHash(copy[h]) /\ clock(h) >= copy[h].until
  BY DEF NewCandidate, validRefreshToken
<1>7. UpdateInv(h)'
  <2>1. clock(h)' = clock(h) /\ CurrentHash(rec)' = CurrentHash(rec)
    BY <1>1 DEF clock, CurrentHash
  <2>2. CanRecover(copy[h], presented[h])'
    BY <1>1, <1>3 DEF CanRecover
  <2> QED
    BY <1>1, <1>3, <1>4, <1>5, <1>6, <2>1, <2>2 DEF UpdateInv
<1>8. HandlerInv(h)'
  BY <1>1, <1>2, <1>7 DEF Inv, HandlerInv, CopyInv, RegetInv, CandidateInv, PresentedInv,
                          AnswerInv, HasCandidate, Answering
<1>9. ASSUME NEW g \in Handlers, g # h PROVE HandlerInv(g)'
  BY <1>1, <1>2, <1>9, IdleHandler DEF Alone
<1>10. ChainInv'
  <2>1. CurrentHash(rec) \in Nat
    BY ConstantsAssumption DEF Inv, CurrentHash, TypeOK, Record, First
  <2> QED
    BY <1>1, <1>2, <2>1 DEF Inv, ChainInv, CurrentHash, CanRecover, Tokens
<1>11. CandidatesDiffer'
  <2>1. ASSUME NEW g \in Handlers, g # h, HasCandidate(g)' PROVE cand'[g] # n
    BY <1>1, <1>2, <2>1 DEF Alone, Idles, Inv, HandlerInv, CandidateInv, HasCandidate
  <2>2. ASSUME NEW f \in Handlers, NEW g \in Handlers, f # g, f # h, g # h,
               HasCandidate(f)', HasCandidate(g)'
        PROVE  cand'[f] # cand'[g]
    BY <1>1, <2>2 DEF Alone, Idles, Inv, CandidatesDiffer, HasCandidate
  <2> QED
    BY <1>1, <2>1, <2>2 DEF CandidatesDiffer
<1> QED
  BY <1>8, <1>9, <1>10, <1>11 DEF Inv

\* What a commit does: the end of the chain, and only it, gets a successor.
LEMMA CommitGrows ==
    ASSUME Inv, NEW h \in Handlers, pc[h] = "update", Commit(h)
    PROVE  /\ presented[h] = CurrentHash(rec) /\ presented[h] \in Tokens
           /\ succ[presented[h]] = None /\ clock(h) >= rec.until
           /\ cand[h] \in Tokens /\ cand[h] <= minted
           /\ cand[h] # presented[h] /\ succ[cand[h]] = None
           /\ rec'.cur = cand[h] /\ rec'.prev = presented[h]
           /\ rec'.rv = rec.rv + 1
           /\ CanRecover(rec', presented[h])
           /\ succ' = [succ EXCEPT ![presented[h]] = cand[h]]
<1>1. UpdateInv(h) /\ CandidateInv(h) /\ PresentedInv(h) /\ TypeOK
  BY DEF Inv, HandlerInv
<1>2. copy[h].rv = rec.rv
  BY DEF Commit, CanCommit
<1>3. presented[h] = CurrentHash(rec) /\ clock(h) >= rec.until
  BY <1>1, <1>2 DEF UpdateInv
<1>4. presented[h] \in Tokens /\ succ[presented[h]] = None
  BY <1>1, <1>3, ConstantsAssumption DEF Inv, ChainInv, PresentedInv, TypeOK, Tokens, None
<1>5. /\ cand[h] \in Tokens /\ cand[h] <= minted
      /\ cand[h] # presented[h] /\ succ[cand[h]] = None
  BY <1>1, <1>3, ConstantsAssumption DEF UpdateInv, CandidateInv, HasCandidate, TypeOK, Tokens
<1>6. /\ rec'.cur = copy[h].cur /\ rec'.prev = copy[h].prev /\ rec'.until = copy[h].until
      /\ rec'.enc = copy[h].enc /\ rec'.rv = rec.rv + 1
  <2>1. copy[h] \in Record
    BY <1>1 DEF TypeOK
  <2>2. rec' = [copy[h] EXCEPT !.rv = rec.rv + 1]
    BY DEF Commit
  <2> QED
    BY <2>1, <2>2 DEF Record
<1>7. CanRecover(rec', presented[h])
  BY <1>1, <1>6 DEF UpdateInv, CanRecover
<1> QED
  BY <1>1, <1>3, <1>4, <1>5, <1>6, <1>7 DEF UpdateInv, Commit

\* A commit makes every other handler's copy stale and leaves its candidate
\* out of the chain; no successor that was committed is lost.
LEMMA CommitKeepsOthers ==
    ASSUME Inv, NEW h \in Handlers, pc[h] = "update", Commit(h),
           UNCHANGED now, NEW g \in Handlers, g # h, Idles(g)
    PROVE  HandlerInv(g)'
<1> DEFINE p == presented[h]
           c == cand[h]
<1>1. /\ p = CurrentHash(rec) /\ p \in Tokens /\ succ[p] = None
      /\ rec'.cur = c /\ c \in Tokens /\ rec'.rv = rec.rv + 1
      /\ succ' = [succ EXCEPT ![p] = c]
  BY CommitGrows
<1>2. HandlerInv(g) /\ TypeOK /\ UNCHANGED minted
  BY DEF Inv, Commit
<1>3. \A t \in Tokens : t # p => succ'[t] = succ[t]
  BY <1>1, <1>2 DEF TypeOK
<1>4. \A t \in Tokens : succ[t] # None => succ'[t] = succ[t]
  BY <1>1, <1>3
<1>5. /\ rec.rv \in Nat /\ copy[g] \in Record /\ copy[g].rv \in Nat
      /\ copy[g].prev \in 0 .. MaxToken /\ presented[g] \in 0 .. MaxToken
      /\ cand[g] \in 0 .. MaxToken
  BY <1>2 DEF TypeOK, Record
<1>6. CopyInv(g)'
  <2>1. copy[g].prev # None => copy[g].prev \in Tokens
    BY <1>5 DEF Tokens, None
  <2> QED
    BY <1>1, <1>2, <1>4, <1>5, <2>1 DEF HandlerInv, CopyInv, Idles, None
<1>7. CandidateInv(g)' /\ PresentedInv(g)'
  BY <1>2 DEF HandlerInv, CandidateInv, PresentedInv, HasCandidate, Idles
<1>8. HasCandidate(g) => cand[g] # c /\ cand[g] \in Tokens
  <2>1. HasCandidate(g) => cand[g] # c
    BY DEF Inv, CandidatesDiffer, HasCandidate
  <2>2. HasCandidate(g) => cand[g] # None
    BY <1>2 DEF HandlerInv, CandidateInv, TypeOK, Tokens, None
  <2> QED
    BY <1>5, <2>1, <2>2 DEF Tokens, None
<1>9. UpdateInv(g)'
  <2>1. SUFFICES ASSUME pc[g] = "update" PROVE UpdateInv(g)'
    BY DEF UpdateInv, Idles
  <2>2. CurrentHash(rec)' = c
    BY <1>1 DEF CurrentHash, Tokens, None
  <2>3. cand[g] # c /\ cand[g] \in Tokens /\ cand[g] # p
    BY <1>1, <1>2, <1>8, <2>1 DEF HasCandidate, HandlerInv, UpdateInv
  <2>4. succ'[cand[g]] = None
    BY <1>2, <1>3, <2>1, <2>3 DEF HandlerInv, UpdateInv
  <2>5. copy[g].rv <= rec.rv
    BY <1>2, <2>1 DEF HandlerInv, UpdateInv
  <2>6. copy[g].rv < rec'.rv
    BY <1>1, <1>5, <2>5
  <2>7. copy[g].rv <= rec'.rv /\ copy[g].rv # rec'.rv
    BY <1>1, <1>5, <2>6
  <2>8. /\ copy[g].cur = cand[g] /\ copy[g].prev = presented[g]
        /\ CanRecover(copy[g], presented[g])
    BY <1>2, <2>1 DEF HandlerInv, UpdateInv
  <2> QED
    BY <2>2, <2>3, <2>4, <2>7, <2>8 DEF UpdateInv, Idles, CanRecover
<1>10. RegetInv(g)'
  BY <1>1, <1>8 DEF RegetInv, HasCandidate, Idles
<1>11. AnswerInv(g)'
  <2>1. SUFFICES ASSUME Answering(g) PROVE AnswerInv(g)'
    BY DEF AnswerInv, Answering, Idles
  <2>2. presented[g] \in Tokens
    BY <1>2, <1>5, <2>1 DEF HandlerInv, PresentedInv, Answering, Tokens, None
  <2> QED
    BY <1>2, <1>4, <2>1, <2>2 DEF HandlerInv, AnswerInv, Answering, Idles
<1> QED
  BY <1>6, <1>7, <1>9, <1>10, <1>11 DEF HandlerInv

\* The three outcomes of Storage.Update.
LEMMA UpdateKeepsInv ==
    ASSUME Inv, TypeOK', NEW h \in Handlers, UpdateAnswered(h) \/ UpdateAnswerLost(h)
    PROVE  Inv'
<1> DEFINE p == presented[h]
           c == cand[h]
<1>1. /\ pc[h] = "update" /\ Commit(h) /\ Alone(h) /\ UNCHANGED <<now, minted>>
      /\ presented'[h] = p /\ cand'[h] = c
      /\ \/ pc'[h] = "owner" /\ answer'[h] = c
         \/ pc'[h] = "reget"
  BY DEF Inv, TypeOK, UpdateAnswered, UpdateAnswerLost, Goto, Commit, Alone, Idles, env
<1>2. /\ p = CurrentHash(rec) /\ p \in Tokens /\ succ[p] = None
      /\ c \in Tokens /\ c <= minted /\ c # p /\ succ[c] = None
      /\ rec'.cur = c /\ rec'.prev = p /\ CanRecover(rec', p)
      /\ succ' = [succ EXCEPT ![p] = c]
  BY <1>1, CommitGrows
<1>3. succ'[p] = c /\ (\A t \in Tokens : t # p => succ'[t] = succ[t])
  BY <1>2 DEF Inv, TypeOK
<1>4. CurrentHash(rec)' = c /\ c # None /\ p # None
  BY <1>2 DEF CurrentHash, Tokens, None
<1>5. ChainInv'
  <2>1. p <= minted
    BY <1>2 DEF Inv, ChainInv
  <2>2. \A t \in Tokens : t > minted => succ'[t] = None
    BY <1>2, <1>3, <2>1 DEF Inv, ChainInv, TypeOK, Tokens
  <2>3. succ'[c] = None
    BY <1>2, <1>3
  <2>4. CanRecover(rec, rec.prev)'
    BY <1>2 DEF CanRecover
  <2> QED
    BY <1>1, <1>2, <1>3, <1>4, <2>2, <2>3, <2>4 DEF ChainInv
<1>6. HandlerInv(h)'
  <2>1. c \in 1 .. minted'
    BY <1>1 DEF Inv, HandlerInv, CandidateInv, HasCandidate
  <2> QED
    BY <1>1, <1>3, <1>4, <2>1
       DEF HandlerInv, CopyInv, UpdateInv, RegetInv, CandidateInv, PresentedInv,
           AnswerInv, HasCandidate, Answering
<1>7. ASSUME NEW g \in Handlers, g # h PROVE HandlerInv(g)'
  BY <1>1, <1>7, CommitKeepsOthers DEF Alone
<1>8. CandidatesDiffer'
  BY <1>1 DEF Inv, CandidatesDiffer, HasCandidate, Alone, Idles
<1> QED
  BY <1>5, <1>6, <1>7, <1>8 DEF Inv

\* The steps after an update, and those of a refused owner.
LEMMA ConfirmingKeepsInv ==
    ASSUME Inv, TypeOK', NEW h \in Handlers,
           UpdateRefused(h) \/ RegetConfirms(h) \/ RegetRetries(h) \/ CheckOwner(h)
    PROVE  Inv'
<1>1. /\ Alone(h) /\ presented'[h] = presented[h]
      /\ UNCHANGED <<now, rec, succ, minted>>
  BY DEF Inv, TypeOK, UpdateRefused, RegetConfirms, RegetRetries, CheckOwner,
         Goto, Alone, Idles, env, grant
<1>2. CASE UpdateRefused(h)
  <2>1. pc[h] = "update" /\ pc'[h] = "reget" /\ cand'[h] = cand[h]
    BY <1>2 DEF Inv, TypeOK, UpdateRefused, Goto
  <2>2. rec.cur # cand[h]
    BY <2>1 DEF Inv, HandlerInv, UpdateInv, CandidateInv, HasCandidate, CurrentHash,
                TypeOK, Tokens, None
  <2>3. HandlerInv(h)'
    BY <1>1, <2>1, <2>2
       DEF Inv, HandlerInv, CopyInv, UpdateInv, RegetInv, CandidateInv, PresentedInv,
           AnswerInv, HasCandidate, Answering
  <2>4. HasCandidate(h)
    BY <2>1 DEF HasCandidate
  <2> QED
    BY <1>1, <2>1, <2>3, <2>4, PlainStep
<1>3. CASE RegetConfirms(h)
  <2>1. /\ pc[h] = "reget" /\ pc'[h] = "owner" /\ answer'[h] = cand[h]
        /\ rec.cur = cand[h]
    BY <1>3 DEF Inv, TypeOK, RegetConfirms, Goto
  <2>2. cand[h] # None /\ succ[presented[h]] = cand[h]
    BY <2>1 DEF Inv, HandlerInv, RegetInv, CandidateInv, HasCandidate, TypeOK, Tokens, None
  <2>3. HandlerInv(h)' /\ ~ HasCandidate(h)'
    BY <1>1, <2>1, <2>2
       DEF Inv, HandlerInv, CopyInv, UpdateInv, RegetInv, CandidateInv, PresentedInv,
           AnswerInv, HasCandidate, Answering
  <2> QED
    BY <1>1, <2>3, PlainStep
<1>4. CASE RegetRetries(h)
  <2>1. pc[h] = "reget" /\ pc'[h] = "get"
    BY <1>4 DEF Inv, TypeOK, RegetRetries, Goto
  <2>2. HandlerInv(h)' /\ ~ HasCandidate(h)'
    BY <1>1, <2>1
       DEF Inv, HandlerInv, CopyInv, UpdateInv, RegetInv, CandidateInv, PresentedInv,
           AnswerInv, HasCandidate, Answering
  <2> QED
    BY <1>1, <2>2, PlainStep
<1>5. CASE CheckOwner(h)
  <2>1. pc[h] = "owner" /\ pc'[h] \in {"revoke", "write"} /\ answer'[h] = answer[h]
    BY <1>5 DEF Inv, TypeOK, CheckOwner, Goto
  <2>2. HandlerInv(h)' /\ ~ HasCandidate(h)'
    BY <1>1, <2>1
       DEF Inv, HandlerInv, CopyInv, UpdateInv, RegetInv, CandidateInv, PresentedInv,
           AnswerInv, HasCandidate, Answering
  <2> QED
    BY <1>1, <2>2, PlainStep
<1> QED
  BY <1>2, <1>3, <1>4, <1>5

\* The surroundings change neither the chain nor any handler.
LEMMA SurroundingsKeepInv ==
    ASSUME Inv, TypeOK',
           \/ Tick \/ Revoke \/ UNCHANGED vars
           \/ \E s \in UserStates : SetUser(s)
           \/ \E a \in BOOLEAN : SetAccess(a)
    PROVE  Inv'
<1>1. /\ UNCHANGED <<rec, succ, minted>> /\ UNCHANGED local
      /\ now' \in Nat /\ now' >= now
  <2>1. now \in Nat
    BY ConstantsAssumption DEF Inv, TypeOK
  <2>2. CASE Tick
    BY <2>1, <2>2 DEF Tick, grant
  <2>3. CASE Revoke
    BY <2>1, <2>3 DEF Revoke, env
  <2>4. CASE UNCHANGED vars
    BY <2>1, <2>4 DEF vars, env, grant, local
  <2>5. CASE \E s \in UserStates : SetUser(s)
    BY <2>1, <2>5 DEF SetUser, grant
  <2>6. CASE \E a \in BOOLEAN : SetAccess(a)
    BY <2>1, <2>6 DEF SetAccess, grant
  <2> QED
    BY <2>2, <2>3, <2>4, <2>5, <2>6
<1>2. \A g \in Handlers : Idles(g)
  BY <1>1 DEF local, Idles
<1>3. minted \in Nat
  BY DEF Inv, TypeOK, Tokens
<1>4. \A g \in Handlers : HandlerInv(g)'
  BY <1>1, <1>2, <1>3, IdleHandler
<1>5. ChainInv'
  BY <1>1 DEF Inv, ChainInv, CurrentHash, CanRecover
<1>6. CandidatesDiffer'
  BY <1>1 DEF Inv, CandidatesDiffer, HasCandidate, local
<1> QED
  BY <1>4, <1>5, <1>6 DEF Inv

\* Every step keeps the invariant, by the lemma of its group of actions.
LEMMA InvNext == Inv /\ [Next]_vars => Inv'
<1> SUFFICES ASSUME Inv, [Next]_vars PROVE Inv'
  OBVIOUS
<1>1. Answered
  BY DEF Inv, HandlerInv, AnswerInv, PresentedInv, Answering, Answered
<1>2. TypeOK'
  BY <1>1, TypeNext DEF Inv
<1>3. ASSUME NEW h \in Handlers,
             Refuse(h) \/ RegetFails(h) \/ Fail(h) \/ Delete(h) \/ Write(h)
      PROVE  Inv'
  <2>1. Return(h) /\ UNCHANGED <<now, rec, succ, minted>>
    BY <1>3 DEF Refuse, RegetFails, Fail, Delete, Write, env, grant
  <2> QED
    BY <1>2, <2>1, ReturnKeepsInv
<1>4. ASSUME NEW h \in Handlers, Step(h) \/ \E t \in Tokens : Present(h, t)
      PROVE  Inv'
  BY <1>2, <1>3, <1>4, ReadingKeepsInv, AnsweringKeepsInv, CandidateKeepsInv,
     UpdateKeepsInv, ConfirmingKeepsInv DEF Step
<1> QED
  BY <1>2, <1>4, SurroundingsKeepInv DEF Next

-----------------------------------------------------------------------------
(* Theorems *)

\* The invariant holds in every reachable state.
LEMMA Invariance == Spec => []Inv
  BY InvInit, InvNext, PTL DEF Spec

\* Every reachable state is well typed: the attempts of a refresh stay within
\* RetryOnConflict's steps and every value a client holds is a token.
THEOREM TypeCorrect == Spec => []TypeOK
<1>1. Inv => TypeOK
  BY DEF Inv
<1> QED
  BY <1>1, Invariance, PTL

\* A refresh is answered with the presented token or with the one successor
\* committed for it, whatever the replicas' clocks show.
THEOREM AnswersAreSuccessors == Spec => []AnswerIsSuccessor
<1>1. Inv => AnswerIsSuccessor
  BY DEF Inv, HandlerInv, AnswerInv, AnswerIsSuccessor
<1> QED
  BY <1>1, Invariance, PTL

\* The recovery value of a stored record always opens for its predecessor.
THEOREM RecoveryAlwaysSealed == Spec => []RecoverySealed
<1>1. Inv => RecoverySealed
  BY DEF Inv, ChainInv, RecoverySealed
<1> QED
  BY <1>1, Invariance, PTL

\* What a step does to the record and to the chain: nothing, or a commit.
LEMMA StepCommitsOrKeeps ==
    ASSUME Inv, [Next]_vars
    PROVE  \/ UNCHANGED <<rec, succ>> /\ (stored' => stored)
           \/ \E h \in Handlers : pc[h] = "update" /\ Commit(h)
<1>1. ASSUME NEW h \in Handlers, UpdateAnswered(h) \/ UpdateAnswerLost(h)
      PROVE  pc[h] = "update" /\ Commit(h)
  BY <1>1 DEF UpdateAnswered, UpdateAnswerLost, Goto
<1>2. ASSUME NEW h \in Handlers, Step(h), ~ UpdateAnswered(h), ~ UpdateAnswerLost(h)
      PROVE  UNCHANGED <<rec, succ>> /\ (stored' => stored)
  BY <1>2 DEF Step, Get, CheckAccess, Mint, Refuse, Recover, KeepCurrent,
              NewCandidate, UpdateRefused, RegetConfirms, RegetRetries, RegetFails,
              CheckOwner, Delete, Write, Fail, grant
<1>3. ASSUME NEW h \in Handlers, NEW t \in Tokens, Present(h, t)
      PROVE  UNCHANGED <<rec, succ>> /\ (stored' => stored)
  BY <1>3 DEF Present, grant
<1>4. ASSUME \/ Tick \/ Revoke \/ UNCHANGED vars
             \/ \E s \in UserStates : SetUser(s)
             \/ \E a \in BOOLEAN : SetAccess(a)
      PROVE  UNCHANGED <<rec, succ>> /\ (stored' => stored)
  BY <1>4 DEF Tick, Revoke, SetUser, SetAccess, vars, grant
<1> QED
  BY <1>1, <1>2, <1>3, <1>4 DEF Next

\* No token is ever replaced twice, for any clocks.
THEOREM SuccessorsAreFinal == Spec => SingleSuccessor
<1>1. ASSUME Inv, [Next]_vars, NEW t \in Tokens, succ[t] # None
      PROVE  succ'[t] = succ[t]
  <2>1. CASE UNCHANGED succ
    BY <2>1
  <2>2. ASSUME NEW h \in Handlers, pc[h] = "update", Commit(h)
        PROVE  succ'[t] = succ[t]
    <3>1. /\ succ' = [succ EXCEPT ![presented[h]] = cand[h]]
          /\ succ[presented[h]] = None
      BY <1>1, <2>2, CommitGrows
    <3> QED
      BY <1>1, <3>1 DEF Inv, TypeOK
  <2> QED
    BY <1>1, <2>1, <2>2, StepCommitsOrKeeps
<1>2. Inv /\ [Next]_vars => [\A t \in Tokens : succ[t] # None => succ'[t] = succ[t]]_vars
  BY <1>1
<1> QED
  BY <1>2, Invariance, PTL DEF Spec, SingleSuccessor

\* A revoked grant is never recreated.
THEOREM RevocationIsFinal == Spec => RevokedStaysRevoked
<1>1. Inv /\ [Next]_vars => [~ stored => ~ stored']_vars
  <2> SUFFICES ASSUME Inv, [Next]_vars, ~ stored PROVE ~ stored'
    OBVIOUS
  <2> QED
    BY StepCommitsOrKeeps DEF Commit, CanCommit
<1> QED
  BY <1>1, Invariance, PTL DEF Spec, RevokedStaysRevoked

\* The window of a predecessor is never cut short or moved before it is over
\* on the clock of the replica that is furthest ahead.
THEOREM WindowIsKept == Spec => PredecessorKeptForWindow
<1>1. ASSUME Inv, [Next]_vars, rec' # rec
      PROVE  now + MaxSkew >= rec.until
  <2>1. PICK h \in Handlers : pc[h] = "update" /\ Commit(h)
    BY <1>1, StepCommitsOrKeeps
  <2>2. clock(h) >= rec.until
    BY <1>1, <2>1, CommitGrows
  <2>3. Skew[h] \in 0 .. MaxSkew /\ now \in Nat /\ rec.until \in Nat /\ MaxSkew \in Nat
    BY <1>1, ConstantsAssumption DEF Inv, TypeOK, Record
  <2> QED
    BY <2>2, <2>3 DEF clock
<1>2. Inv /\ [Next]_vars =>
        [(rec.prev # None /\ rec' # rec) => now + MaxSkew >= rec.until]_vars
  BY <1>1
<1> QED
  BY <1>2, Invariance, PTL DEF Spec, PredecessorKeptForWindow

-----------------------------------------------------------------------------
(* One retry is enough *)

\* A handler that retries presented a token that has a successor by now, so it
\* never makes a second candidate; and only a commit of that successor makes
\* the copy of a handler stale.
RetryInv(h) ==
    /\ tries[h] <= 2
    /\ pc[h] = "get" => tries[h] <= 1 \/ succ[presented[h]] # None
    /\ pc[h] \in {"user", "mint", "rotate"} =>
        /\ tries[h] <= 1 \/ presented[h] # CurrentHash(copy[h])
        /\ copy[h].rv = rec.rv \/ succ[CurrentHash(copy[h])] # None
    /\ pc[h] = "update" =>
        /\ tries[h] <= 1
        /\ copy[h].rv = rec.rv \/ succ[presented[h]] # None
    /\ pc[h] = "reget" =>
        /\ tries[h] <= 1
        /\ conflict[h] => succ[presented[h]] # None
    /\ pc[h] \in {"idle", "get", "user", "mint", "rotate", "update"} => ~ conflict[h]

AllRetryInv == \A h \in Handlers : RetryInv(h)

\* h neither takes a step nor counts an attempt.
Rests(h) == Idles(h) /\ tries'[h] = tries[h] /\ conflict'[h] = conflict[h]

\* The current hash of a copy is a token, and so is what a handler presented.
LEMMA HashesAreTokens ==
    ASSUME TypeOK, NEW h \in Handlers
    PROVE  /\ CurrentHash(copy[h]) \in Tokens /\ CurrentHash(rec) \in Tokens
           /\ presented[h] # None => presented[h] \in Tokens
<1>1. copy[h] \in Record /\ rec \in Record /\ presented[h] \in 0 .. MaxToken
  BY DEF TypeOK
<1>2. \A r \in Record : r.cur \in 0 .. MaxToken
  BY DEF Record
<1>3. 1 \in Tokens /\ \A t \in 0 .. MaxToken : t # None => t \in Tokens
  BY ConstantsAssumption DEF Tokens, None
<1> QED
  BY <1>1, <1>2, <1>3 DEF CurrentHash, First

\* A handler that rests is untouched by a step that keeps the record.
LEMMA RestKeepsRetryInv ==
    ASSUME NEW g \in Handlers, Rests(g), UNCHANGED <<rec, succ>>, RetryInv(g)
    PROVE  RetryInv(g)'
  BY DEF Rests, Idles, RetryInv, CurrentHash

\* A commit gives the end of the chain a successor: the copies that held that
\* end become stale, and no successor is lost.
LEMMA CommitKeepsRetryInv ==
    ASSUME Inv, NEW h \in Handlers, pc[h] = "update", Commit(h),
           NEW g \in Handlers, Rests(g), RetryInv(g)
    PROVE  RetryInv(g)'
<1>1. /\ succ' = [succ EXCEPT ![presented[h]] = cand[h]]
      /\ presented[h] = CurrentHash(rec) /\ presented[h] \in Tokens
      /\ cand[h] \in Tokens /\ succ[presented[h]] = None
  BY CommitGrows
<1>2. TypeOK /\ CopyInv(g) /\ UpdateInv(g) /\ PresentedInv(g)
  BY DEF Inv, HandlerInv
<1>3. succ \in [Tokens -> 0 .. MaxToken] /\ cand[h] # None
  BY <1>1, <1>2 DEF TypeOK, Tokens, None
<1>4. /\ succ'[CurrentHash(rec)] # None
      /\ \A t \in Tokens : succ[t] # None => succ'[t] # None
  BY <1>1, <1>3
<1>5. CurrentHash(copy[g]) \in Tokens /\ (pc[g] # "idle" => presented[g] \in Tokens)
  BY <1>2, HashesAreTokens DEF PresentedInv
<1>6. pc[g] \in {"user", "mint", "rotate"} => succ'[CurrentHash(copy[g])] # None
  BY <1>2, <1>4, <1>5 DEF CopyInv, RetryInv
<1>7. pc[g] = "update" => succ'[presented[g]] # None
  BY <1>2, <1>4, <1>5 DEF UpdateInv, RetryInv
<1>8. /\ pc[g] = "get" /\ tries[g] > 1 => succ'[presented[g]] # None
      /\ pc[g] = "reget" /\ conflict[g] => succ'[presented[g]] # None
  BY <1>2, <1>4, <1>5 DEF RetryInv, TypeOK
<1> QED
  BY <1>2, <1>6, <1>7, <1>8 DEF Rests, Idles, RetryInv, CurrentHash, TypeOK

\* A handler that reads the record, before it has a candidate.
LEMMA ReadingKeepsRetryInv ==
    ASSUME Inv, NEW h \in Handlers, RetryInv(h),
           \/ \E t \in Tokens : Present(h, t)
           \/ Get(h) /\ ~ Return(h)
           \/ CheckAccess(h) \/ (Mint(h) /\ ~ Return(h))
    PROVE  RetryInv(h)'
<1>1. TypeOK /\ ChainInv /\ PresentedInv(h)
  BY DEF Inv, HandlerInv
<1>2. CASE \E t \in Tokens : Present(h, t)
  <2>1. pc[h] = "idle" /\ pc'[h] = "get" /\ tries'[h] = 1 /\ conflict' = conflict
    BY <1>1, <1>2 DEF Present, Goto, TypeOK
  <2>2. ~ conflict[h]
    BY <1>1, <2>1 DEF RetryInv
  <2> QED
    BY <2>1, <2>2 DEF RetryInv
<1>3. CASE Get(h) /\ ~ Return(h)
  <2>1. /\ pc[h] = "get" /\ pc'[h] = "user" /\ copy'[h] = rec
        /\ UNCHANGED <<rec, succ, presented, tries, conflict>>
    BY <1>1, <1>3 DEF Get, Goto, TypeOK, grant
  <2>2. tries[h] <= 1 \/ presented[h] # CurrentHash(rec)
    BY <1>1, <2>1 DEF RetryInv, ChainInv
  <2> QED
    BY <2>1, <2>2 DEF RetryInv, CurrentHash
<1>4. CASE CheckAccess(h) \/ (Mint(h) /\ ~ Return(h))
  <2>1. /\ pc[h] \in {"user", "mint"} /\ pc'[h] \in {"mint", "rotate", "consume"}
        /\ UNCHANGED <<rec, succ, copy, presented, tries, conflict>>
    BY <1>1, <1>4 DEF CheckAccess, Mint, Goto, TypeOK, grant
  <2> QED
    BY <2>1 DEF RetryInv, CurrentHash
<1> QED
  BY <1>2, <1>3, <1>4

\* The rotation: only the current token of the copy gets a candidate, and a
\* handler that retries does not hold it.
LEMMA RotatingKeepsRetryInv ==
    ASSUME Inv, NEW h \in Handlers, RetryInv(h),
           Recover(h) \/ KeepCurrent(h) \/ NewCandidate(h)
    PROVE  RetryInv(h)'
<1>1. TypeOK
  BY DEF Inv
<1>2. CASE Recover(h) \/ KeepCurrent(h)
  <2>1. pc'[h] = "owner" /\ tries' = tries
    BY <1>1, <1>2 DEF Recover, KeepCurrent, Goto, TypeOK
  <2> QED
    BY <2>1 DEF RetryInv
<1>3. CASE NewCandidate(h)
  <2>1. /\ pc[h] = "rotate" /\ pc'[h] = "update"
        /\ presented[h] = CurrentHash(copy[h])
        /\ UNCHANGED <<rec, succ, presented, tries, conflict>>
    BY <1>1, <1>3 DEF NewCandidate, validRefreshToken, Goto, TypeOK
  <2>2. copy'[h].rv = copy[h].rv
    <3>1. copy'[h] = Rotated(copy[h], presented[h], minted + 1, clock(h))
      BY <1>1, <1>3 DEF NewCandidate, TypeOK
    <3>2. copy[h] \in Record
      BY <1>1 DEF TypeOK
    <3> QED
      BY <3>1, <3>2 DEF Rotated, Record
  <2> QED
    BY <2>1, <2>2 DEF RetryInv
<1> QED
  BY <1>2, <1>3

\* An update and what follows it: only a refused update is a conflict, and
\* then the presented token has its successor.
LEMMA UpdatingKeepsRetryInv ==
    ASSUME Inv, NEW h \in Handlers, RetryInv(h),
           \/ UpdateAnswered(h) \/ UpdateAnswerLost(h) \/ UpdateRefused(h)
           \/ RegetConfirms(h) \/ RegetRetries(h) \/ CheckOwner(h)
    PROVE  RetryInv(h)'
<1>1. TypeOK
  BY DEF Inv
<1>2. CASE UpdateAnswered(h) \/ RegetConfirms(h) \/ CheckOwner(h)
  <2>1. pc'[h] \in {"owner", "revoke", "write"} /\ tries' = tries
    BY <1>1, <1>2 DEF UpdateAnswered, RegetConfirms, CheckOwner, Goto, TypeOK
  <2> QED
    BY <2>1 DEF RetryInv
<1>3. CASE UpdateAnswerLost(h)
  <2>1. pc[h] = "update" /\ pc'[h] = "reget" /\ UNCHANGED <<tries, conflict>>
    BY <1>1, <1>3 DEF UpdateAnswerLost, Goto, TypeOK
  <2> QED
    BY <2>1 DEF RetryInv
<1>4. CASE UpdateRefused(h)
  <2>1. /\ pc[h] = "update" /\ pc'[h] = "reget"
        /\ conflict'[h] = (stored /\ copy[h].rv # rec.rv)
        /\ UNCHANGED <<succ, presented, tries>>
    BY <1>1, <1>4 DEF UpdateRefused, Goto, TypeOK, grant
  <2> QED
    BY <2>1 DEF RetryInv
<1>5. CASE RegetRetries(h)
  <2>1. /\ pc[h] = "reget" /\ pc'[h] = "get" /\ conflict[h] /\ ~ conflict'[h]
        /\ tries'[h] = tries[h] + 1
        /\ UNCHANGED <<succ, presented>>
    BY <1>1, <1>5 DEF RegetRetries, Goto, TypeOK, grant
  <2>2. tries[h] \in Nat /\ tries[h] <= 1 /\ succ[presented[h]] # None
    BY <1>1, <2>1, ConstantsAssumption DEF RetryInv, TypeOK
  <2> QED
    BY <2>1, <2>2 DEF RetryInv
<1> QED
  BY <1>2, <1>3, <1>4, <1>5

\* A handler that returns has counted nothing.
LEMMA ReturningKeepsRetryInv ==
    ASSUME TypeOK, NEW h \in Handlers, Return(h)
    PROVE  RetryInv(h)'
<1>1. pc'[h] = "idle" /\ tries'[h] = 0 /\ ~ conflict'[h]
  BY DEF Return, TypeOK
<1> QED
  BY <1>1 DEF RetryInv

\* A step of h keeps its own part of the invariant, and everyone else rests.
LEMMA StepKeepsRetryInv ==
    ASSUME Inv, NEW h \in Handlers, RetryInv(h),
           Step(h) \/ \E t \in Tokens : Present(h, t)
    PROVE  RetryInv(h)' /\ \A g \in Handlers \ {h} : Rests(g)
<1>1. TypeOK
  BY DEF Inv
<1>2. ASSUME Return(h)
      PROVE  RetryInv(h)' /\ \A g \in Handlers \ {h} : Rests(g)
  <2>1. \A g \in Handlers \ {h} : Rests(g)
    BY <1>1, <1>2 DEF Return, Rests, Idles, TypeOK
  <2> QED
    BY <1>1, <1>2, <2>1, ReturningKeepsRetryInv
<1>3. CASE Refuse(h) \/ RegetFails(h) \/ Delete(h) \/ Write(h) \/ Fail(h)
  BY <1>2, <1>3 DEF Refuse, RegetFails, Delete, Write, Fail
<1>4. CASE \/ \E t \in Tokens : Present(h, t)
           \/ Get(h) \/ CheckAccess(h) \/ Mint(h)
  <2>1. CASE Return(h)
    BY <1>2, <2>1
  <2>2. CASE ~ Return(h)
    <3>1. RetryInv(h)'
      BY <1>4, <2>2, ReadingKeepsRetryInv
    <3>2. \A g \in Handlers \ {h} : Rests(g)
      BY <1>1, <1>4, <2>2 DEF Present, Get, CheckAccess, Mint, Goto, Rests, Idles, TypeOK
    <3> QED
      BY <3>1, <3>2
  <2> QED
    BY <2>1, <2>2
<1>5. CASE Recover(h) \/ KeepCurrent(h) \/ NewCandidate(h)
  <2>1. \A g \in Handlers \ {h} : Rests(g)
    BY <1>1, <1>5 DEF Recover, KeepCurrent, NewCandidate, Goto, Rests, Idles, TypeOK
  <2> QED
    BY <1>5, <2>1, RotatingKeepsRetryInv
<1>6. CASE \/ UpdateAnswered(h) \/ UpdateAnswerLost(h) \/ UpdateRefused(h)
           \/ RegetConfirms(h) \/ RegetRetries(h) \/ CheckOwner(h)
  <2>1. \A g \in Handlers \ {h} : Rests(g)
    BY <1>1, <1>6 DEF UpdateAnswered, UpdateAnswerLost, UpdateRefused, RegetConfirms,
                      RegetRetries, CheckOwner, Goto, Rests, Idles, TypeOK
  <2> QED
    BY <1>6, <2>1, UpdatingKeepsRetryInv
<1> QED
  BY <1>3, <1>4, <1>5, <1>6 DEF Step

\* Every step keeps the invariant of every handler.
LEMMA RetryInvNext ==
    ASSUME Inv, \A g \in Handlers : RetryInv(g), [Next]_vars
    PROVE  \A g \in Handlers : RetryInv(g)'
<1> SUFFICES ASSUME NEW g \in Handlers PROVE RetryInv(g)'
  OBVIOUS
<1>1. ASSUME Rests(g) PROVE RetryInv(g)'
  <2>1. CASE UNCHANGED <<rec, succ>>
    BY <1>1, <2>1, RestKeepsRetryInv
  <2>2. CASE \E h \in Handlers : pc[h] = "update" /\ Commit(h)
    BY <1>1, <2>2, CommitKeepsRetryInv
  <2> QED
    BY <2>1, <2>2, StepCommitsOrKeeps
<1>2. ASSUME NEW h \in Handlers, Step(h) \/ \E t \in Tokens : Present(h, t)
      PROVE  RetryInv(g)'
  <2>1. RetryInv(h)' /\ \A f \in Handlers \ {h} : Rests(f)
    BY <1>2, StepKeepsRetryInv
  <2> QED
    BY <1>1, <2>1
<1>3. CASE \/ Tick \/ Revoke \/ UNCHANGED vars
           \/ \E s \in UserStates : SetUser(s)
           \/ \E a \in BOOLEAN : SetAccess(a)
  <2>1. Rests(g)
    BY <1>3 DEF Tick, Revoke, SetUser, SetAccess, vars, local, Rests, Idles
  <2> QED
    BY <1>1, <2>1
<1> QED
  BY <1>2, <1>3 DEF Next

\* For any number of concurrent refreshes and any clocks, a refresh conflicts
\* at most once: it makes at most two attempts, whatever the backoff allows.
THEOREM OneRetrySuffices == Spec => []OneRetryIsEnough
<1>1. Init => AllRetryInv
  <2> SUFFICES ASSUME Init, NEW h \in Handlers PROVE RetryInv(h)
    BY DEF AllRetryInv
  <2>1. pc[h] = "idle" /\ tries[h] = 0 /\ ~ conflict[h]
    BY DEF Init
  <2> QED
    BY <2>1 DEF RetryInv
<1>2. Inv /\ AllRetryInv /\ [Next]_vars => AllRetryInv'
  BY RetryInvNext DEF AllRetryInv
<1>3. AllRetryInv => OneRetryIsEnough
  BY DEF RetryInv, AllRetryInv, OneRetryIsEnough
<1> QED
  BY <1>1, <1>2, <1>3, Invariance, PTL DEF Spec
=============================================================================
