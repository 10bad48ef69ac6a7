---------------------------- MODULE RefreshToken ----------------------------
(***************************************************************************)
(* Rotation of one MCP OAuth refresh grant by the token endpoint           *)
(* (pkg/api/handlers/mcpgateway/oauth/{refresh_token,token}.go).           *)
(*                                                                         *)
(* The grant is one stored record.  Any replica may handle a refresh, many *)
(* at a time, and each handler works on its own copy of the record between *)
(* a Get and an Update guarded by the record's resource version.  An       *)
(* update may commit although its response is lost; the client may lose    *)
(* the answer and present an old token again; the owner may be disabled,   *)
(* lose access, or have the grant deleted at any moment; and the replicas' *)
(* clocks need not agree.                                                  *)
(*                                                                         *)
(* A bearer secret is a positive number and stands for its own hash: the   *)
(* code compares hashes only, and SHA-256 is taken to be injective.  The   *)
(* token the authorization code was exchanged for is First; its hash is    *)
(* the record's name.                                                      *)
(***************************************************************************)
EXTENDS Naturals

CONSTANTS
    Handlers,     \* refresh requests in progress, on any replica
    Skew,         \* Skew[h]: how far the clock of h's replica runs ahead
    MaxSkew,      \* bound on Skew
    Window,       \* refreshTokenReuseWindow, in ticks
    Steps,        \* attempts RetryOnConflict makes (retry.DefaultBackoff)
    MaxTime,      \* bound on the clock
    MaxToken      \* bound on the secrets ever generated

ASSUME ConstantsAssumption ==
    /\ MaxSkew \in Nat
    /\ Skew \in [Handlers -> 0 .. MaxSkew]
    /\ Window \in Nat \ {0}
    /\ Steps \in Nat \ {0}
    /\ MaxTime \in Nat
    /\ MaxToken \in Nat \ {0}

Tokens == 1 .. MaxToken
First  == 1
None   == 0       \* no token; as a hash, the empty string

\* The recovery value: the successor, sealed under a key derived from its
\* predecessor's secret, with the rotation metadata authenticated.
Sealed == [key : 0 .. MaxToken, plain : 0 .. MaxToken,
           cur : 0 .. MaxToken, prev : 0 .. MaxToken, until : Nat]

Unsealed == [key |-> None, plain |-> None, cur |-> None, prev |-> None, until |-> 0]

\* OAuthTokenSpec and the resource version.
Record == [cur : 0 .. MaxToken, prev : 0 .. MaxToken, until : Nat,
           enc : Sealed, rv : Nat]

UserStates == {"active", "disabled", "absent"}

PCs == {"idle", "get", "user", "mint", "rotate", "update", "reget",
        "owner", "consume", "revoke", "write"}

VARIABLES
    now,          \* the clock of the replica that runs furthest behind
    stored,       \* the record is in storage
    rec,          \* the stored record (its last value once deleted)
    user,         \* the owner's lifecycle state
    access,       \* the owner may still use the grant's server and connection
    minted,       \* secrets 1 .. minted have been generated
    held,         \* the tokens some client was answered with
    succ,         \* history: succ[t] is the successor committed for t
    pc, presented, copy, cand, answer, tries, conflict

env == <<now, user, access, held>>
grant == <<stored, rec, minted, succ>>
local == <<pc, presented, copy, cand, answer, tries, conflict>>
vars == <<env, grant, local>>

-----------------------------------------------------------------------------
clock(h) == now + Skew[h]

\* cmp.Or(CurrentTokenHash, Name): only an unrotated grant's name is a hash.
CurrentHash(r) == IF r.cur = None THEN First ELSE r.cur

\* Takes the record's name for a token hash after a rotation, too.
validByName(r, t, time) ==
    \/ t \in {First, CurrentHash(r)}
    \/ t = r.prev /\ time < r.until

validRefreshToken(r, t, time) ==
    \/ t = CurrentHash(r)
    \/ t = r.prev /\ time < r.until

\* Opening the recovery value: the key and every authenticated field agree.
CanRecover(r, t) ==
    /\ r.enc.key = t
    /\ <<r.enc.cur, r.enc.prev, r.enc.until>> = <<r.cur, r.prev, r.until>>
    /\ r.enc.plain = r.cur

\* Seals before the deadline is set: the retry cannot be authenticated.
RotatedSealedEarly(r, t, next, time) ==
    [r EXCEPT !.cur = next, !.prev = t, !.until = time + Window,
              !.enc = [key |-> t, plain |-> next,
                       cur |-> next, prev |-> t, until |-> r.until]]

\* Subtracts the window: the predecessor is refused at once.
RotatedDeadlinePast(r, t, next, time) ==
    [r EXCEPT !.cur = next, !.prev = t, !.until = time - Window,
              !.enc = [key |-> t, plain |-> next,
                       cur |-> next, prev |-> t, until |-> time - Window]]

\* The record with t replaced by next, as the rotating handler writes it.
Rotated(r, t, next, time) ==
    [r EXCEPT !.cur = next, !.prev = t, !.until = time + Window,
              !.enc = [key |-> t, plain |-> next,
                       cur |-> next, prev |-> t, until |-> time + Window]]

-----------------------------------------------------------------------------
Init ==
    /\ now = 0
    /\ stored = TRUE
    /\ rec = [cur |-> None, prev |-> None, until |-> 0, enc |-> Unsealed, rv |-> 0]
    /\ user = "active"
    /\ access = TRUE
    /\ minted = First
    /\ held = {First}
    /\ succ = [t \in Tokens |-> None]
    /\ pc = [h \in Handlers |-> "idle"]
    /\ presented = [h \in Handlers |-> None]
    /\ copy = [h \in Handlers |-> rec]
    /\ cand = [h \in Handlers |-> None]
    /\ answer = [h \in Handlers |-> None]
    /\ tries = [h \in Handlers |-> 0]
    /\ conflict = [h \in Handlers |-> FALSE]

Goto(h, from, to) ==
    /\ pc[h] = from
    /\ pc' = [pc EXCEPT ![h] = to]

\* The handler returns: what it held is gone.
Return(h) ==
    /\ pc' = [pc EXCEPT ![h] = "idle"]
    /\ presented' = [presented EXCEPT ![h] = None]
    /\ copy' = [copy EXCEPT ![h] =
                    [cur |-> None, prev |-> None, until |-> 0, enc |-> Unsealed, rv |-> 0]]
    /\ cand' = [cand EXCEPT ![h] = None]
    /\ answer' = [answer EXCEPT ![h] = None]
    /\ tries' = [tries EXCEPT ![h] = 0]
    /\ conflict' = [conflict EXCEPT ![h] = FALSE]

\* A client presents a token it was once given: the newest, or an older one
\* when the answer was lost or another of its processes rotated meanwhile.
\* (A request of another OAuth client is refused without a state change.)
Present(h, t) ==
    /\ Goto(h, "idle", "get")
    /\ t \in held
    /\ presented' = [presented EXCEPT ![h] = t]
    /\ tries' = [tries EXCEPT ![h] = 1]
    /\ UNCHANGED <<env, grant, copy, cand, answer, conflict>>

\* doRefreshTokenAttempt reads the record and authenticates the token.
Get(h) ==
    /\ pc[h] = "get"
    /\ IF stored /\ validRefreshToken(rec, presented[h], clock(h))
       THEN /\ Goto(h, "get", "user")
            /\ copy' = [copy EXCEPT ![h] = rec]
            /\ UNCHANGED <<presented, cand, answer, tries, conflict>>
       ELSE Return(h)
    /\ UNCHANGED <<env, grant>>

\* The owner, the connection and the access-control check.  A refusal that
\* is final consumes the grant.
CheckAccess(h) ==
    /\ Goto(h, "user", IF user = "active" /\ access THEN "mint" ELSE "consume")
    /\ UNCHANGED <<env, grant, presented, copy, cand, answer, tries, conflict>>

\* NewToken signs the access token unless the owner is now denied; an owner
\* without a row is left to the admission check.
Mint(h) ==
    /\ pc[h] = "mint"
    /\ IF user # "disabled"
       THEN /\ Goto(h, "mint", "rotate")
            /\ UNCHANGED <<presented, copy, cand, answer, tries, conflict>>
       ELSE Return(h)
    /\ UNCHANGED <<env, grant>>

\* rotateRefreshToken up to its Update, on the handler's copy: refuse a token
\* that expired meanwhile, answer a retry with the sealed successor, answer
\* the current token with itself inside the window, else make a candidate.
Refuse(h) ==
    /\ pc[h] = "rotate"
    /\ \/ ~ validRefreshToken(copy[h], presented[h], clock(h))
       \/ presented[h] = copy[h].prev /\ ~ CanRecover(copy[h], presented[h])
    /\ Return(h)
    /\ UNCHANGED <<env, grant>>

Recover(h) ==
    /\ Goto(h, "rotate", "owner")
    /\ validRefreshToken(copy[h], presented[h], clock(h))
    /\ presented[h] = copy[h].prev
    /\ CanRecover(copy[h], presented[h])
    /\ answer' = [answer EXCEPT ![h] = copy[h].enc.plain]
    /\ UNCHANGED <<env, grant, presented, copy, cand, tries, conflict>>

KeepCurrent(h) ==
    /\ Goto(h, "rotate", "owner")
    /\ validRefreshToken(copy[h], presented[h], clock(h))
    /\ presented[h] # copy[h].prev
    /\ clock(h) < copy[h].until
    /\ answer' = [answer EXCEPT ![h] = presented[h]]
    /\ UNCHANGED <<env, grant, presented, copy, cand, tries, conflict>>

\* Rotates the current token although its predecessor is still accepted.
NewCandidateInWindow(h) ==
    /\ Goto(h, "rotate", "update")
    /\ validRefreshToken(copy[h], presented[h], clock(h))
    /\ presented[h] # copy[h].prev
    /\ minted < MaxToken
    /\ minted' = minted + 1
    /\ cand' = [cand EXCEPT ![h] = minted + 1]
    /\ copy' = [copy EXCEPT ![h] = Rotated(copy[h], presented[h], minted + 1, clock(h))]
    /\ UNCHANGED <<env, stored, rec, succ, presented, answer, tries, conflict>>

\* Rotates any accepted token, a predecessor that is retried included.
NewCandidateAnyValid(h) ==
    /\ Goto(h, "rotate", "update")
    /\ validRefreshToken(copy[h], presented[h], clock(h))
    /\ minted < MaxToken
    /\ minted' = minted + 1
    /\ cand' = [cand EXCEPT ![h] = minted + 1]
    /\ copy' = [copy EXCEPT ![h] = Rotated(copy[h], presented[h], minted + 1, clock(h))]
    /\ UNCHANGED <<env, stored, rec, succ, presented, answer, tries, conflict>>

NewCandidate(h) ==
    /\ Goto(h, "rotate", "update")
    /\ validRefreshToken(copy[h], presented[h], clock(h))
    /\ presented[h] # copy[h].prev
    /\ clock(h) >= copy[h].until
    /\ minted < MaxToken
    /\ minted' = minted + 1
    /\ cand' = [cand EXCEPT ![h] = minted + 1]
    /\ copy' = [copy EXCEPT ![h] = Rotated(copy[h], presented[h], minted + 1, clock(h))]
    /\ UNCHANGED <<env, stored, rec, succ, presented, answer, tries, conflict>>

-----------------------------------------------------------------------------
\* A store that ignores the resource version, or upserts.
CanCommitAnyVersion(h) == stored
CanCommitDeleted(h) == copy[h].rv = rec.rv

\* Storage.Update: it commits only over the version the handler read, and
\* never recreates a deleted record.  Either way the answer may be lost.
CanCommit(h) == stored /\ copy[h].rv = rec.rv

Commit(h) ==
    /\ CanCommit(h)
    /\ stored' = TRUE
    /\ rec' = [copy[h] EXCEPT !.rv = rec.rv + 1]
    /\ succ' = [succ EXCEPT ![presented[h]] = cand[h]]
    /\ UNCHANGED minted

UpdateAnswered(h) ==
    /\ Goto(h, "update", "owner")
    /\ Commit(h)
    /\ answer' = [answer EXCEPT ![h] = cand[h]]
    /\ UNCHANGED <<env, presented, copy, cand, tries, conflict>>

UpdateAnswerLost(h) ==
    /\ Goto(h, "update", "reget")
    /\ Commit(h)
    /\ UNCHANGED <<env, presented, copy, cand, answer, tries, conflict>>

\* A stale version is a conflict; a deleted record or a broken connection is
\* another error.
UpdateRefused(h) ==
    /\ Goto(h, "update", "reget")
    /\ conflict' = [conflict EXCEPT ![h] = stored /\ copy[h].rv # rec.rv]
    /\ UNCHANGED <<env, grant, presented, copy, cand, answer, tries>>

\* Returns the candidate whatever the record holds now.
RegetConfirmsAnything(h) ==
    /\ Goto(h, "reget", "owner")
    /\ stored
    /\ copy' = [copy EXCEPT ![h] = rec]
    /\ answer' = [answer EXCEPT ![h] = cand[h]]
    /\ UNCHANGED <<env, grant, presented, cand, tries, conflict>>

\* After a failed Update the record is read again.  Only a successor found
\* committed is returned; a conflict starts the whole attempt over, up to
\* Steps times; anything else is an error.
RegetConfirms(h) ==
    /\ Goto(h, "reget", "owner")
    /\ stored
    /\ rec.cur = cand[h]
    /\ copy' = [copy EXCEPT ![h] = rec]
    /\ answer' = [answer EXCEPT ![h] = cand[h]]
    /\ UNCHANGED <<env, grant, presented, cand, tries, conflict>>

RegetRetries(h) ==
    /\ Goto(h, "reget", "get")
    /\ stored
    /\ rec.cur # cand[h]
    /\ conflict[h]
    /\ tries[h] < Steps
    /\ tries' = [tries EXCEPT ![h] = @ + 1]
    /\ conflict' = [conflict EXCEPT ![h] = FALSE]
    /\ cand' = [cand EXCEPT ![h] = None]
    /\ UNCHANGED <<env, grant, presented, copy, answer>>

RegetFails(h) ==
    /\ pc[h] = "reget"
    /\ \/ ~ stored
       \/ rec.cur # cand[h] /\ (~ conflict[h] \/ tries[h] >= Steps)
    /\ Return(h)
    /\ UNCHANGED <<env, grant>>

\* revokeIfUserDenied reads the owner again before anything is delivered.
CheckOwner(h) ==
    /\ Goto(h, "owner", IF user = "disabled" THEN "revoke" ELSE "write")
    /\ UNCHANGED <<env, grant, presented, copy, cand, answer, tries, conflict>>

\* invalidGrant and revokeIfUserDenied delete the record, whatever its
\* version, and refuse the request.
Delete(h) ==
    /\ pc[h] \in {"consume", "revoke"}
    /\ stored' = FALSE
    /\ Return(h)
    /\ UNCHANGED <<env, rec, minted, succ>>

\* The answer is written; Fail(h) at this point is the answer lost on its way.
Write(h) ==
    /\ pc[h] = "write"
    /\ held' = held \cup {answer[h]}
    /\ Return(h)
    /\ UNCHANGED <<now, user, access, grant>>

\* Any lookup, the signing, the generation of a secret, a delete or the write
\* of the answer may fail; the request then ends with nothing more changed.
Fail(h) ==
    /\ pc[h] \notin {"idle", "update"}
    /\ Return(h)
    /\ UNCHANGED <<env, grant>>

Step(h) ==
    \/ Get(h) \/ CheckAccess(h) \/ Mint(h)
    \/ Refuse(h) \/ Recover(h) \/ KeepCurrent(h) \/ NewCandidate(h)
    \/ UpdateAnswered(h) \/ UpdateAnswerLost(h) \/ UpdateRefused(h)
    \/ RegetConfirms(h) \/ RegetRetries(h) \/ RegetFails(h)
    \/ CheckOwner(h) \/ Delete(h) \/ Write(h) \/ Fail(h)

-----------------------------------------------------------------------------
\* The surroundings of the endpoint.
Tick ==
    /\ now < MaxTime
    /\ now' = now + 1
    /\ UNCHANGED <<user, access, held, grant, local>>

\* An administrator or SCIM disables or reactivates the owner; DeleteUser's
\* row may go altogether, and does not come back.
SetUser(s) ==
    /\ user \notin {s, "absent"}
    /\ user' = s
    /\ UNCHANGED <<now, access, held, grant, local>>

\* The grant's vMCP connection or the owner's access to the server changes.
SetAccess(a) ==
    /\ access' = a
    /\ UNCHANGED <<now, user, held, grant, local>>

\* Lifecycle delivery or the cleanup controller deletes the record.
Revoke ==
    /\ stored
    /\ stored' = FALSE
    /\ UNCHANGED <<env, rec, minted, succ, local>>

Next ==
    \/ \E h \in Handlers :
        \/ \E t \in Tokens : Present(h, t)
        \/ Step(h)
    \/ Tick
    \/ \E s \in UserStates : SetUser(s)
    \/ \E a \in BOOLEAN : SetAccess(a)
    \/ Revoke

Spec == Init /\ [][Next]_vars

-----------------------------------------------------------------------------
(* Properties *)

\* Values are in range; a refresh makes at most RetryOnConflict's attempts.
TypeOK ==
    /\ now \in 0 .. MaxTime
    /\ stored \in BOOLEAN
    /\ rec \in Record
    /\ user \in UserStates
    /\ access \in BOOLEAN
    /\ minted \in Tokens
    /\ held \subseteq Tokens
    /\ succ \in [Tokens -> 0 .. MaxToken]
    /\ pc \in [Handlers -> PCs]
    /\ presented \in [Handlers -> 0 .. MaxToken]
    /\ copy \in [Handlers -> Record]
    /\ cand \in [Handlers -> 0 .. MaxToken]
    /\ answer \in [Handlers -> 0 .. MaxToken]
    /\ tries \in [Handlers -> 0 .. Steps]
    /\ conflict \in [Handlers -> BOOLEAN]

Answering(h) == pc[h] \in {"owner", "revoke", "write"}

\* Whatever the interleaving, the lost responses and the clocks, a refresh is
\* answered with the presented token itself or with the one successor that
\* was committed for it, never with a candidate that lost.
AnswerIsSuccessor ==
    \A h \in Handlers : Answering(h) =>
        \/ answer[h] = presented[h]
        \/ answer[h] # None /\ succ[presented[h]] = answer[h]

\* A refresh that lost to another one retries once and is then answered or
\* refused: the winner made its token a predecessor, so that it is never the
\* current one again.  The backoff's further attempts are never needed.
OneRetryIsEnough ==
    \A h \in Handlers : tries[h] <= 2

\* A token is replaced at most once: no second rotation forks the chain.
SingleSuccessor ==
    [][\A t \in Tokens : succ[t] # None => succ'[t] = succ[t]]_vars

\* Deleting the record revokes the grant: an update in flight in another
\* handler never brings it back.
RevokedStaysRevoked ==
    [][~ stored => ~ stored']_vars

\* The predecessor stays accepted, with the same successor, until its fixed
\* deadline has passed on some replica's clock: no request rotates again in
\* the window or moves the deadline, unless the grant is revoked.
PredecessorKeptForWindow ==
    [][(rec.prev # None /\ rec' # rec) => now + MaxSkew >= rec.until]_vars

\* The stored recovery value opens for the predecessor, so that a retry in
\* the window is never answered with an error.
RecoverySealed ==
    rec.prev # None => CanRecover(rec, rec.prev)

\* With synchronised clocks the endpoint implements the single token chain.
Chain == INSTANCE TokenChain WITH
    Requests <- Handlers, live <- stored, newest <- CurrentHash(rec),
    asked <- presented

ImplementsChain == Chain!Spec
=============================================================================
