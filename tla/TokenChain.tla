----------------------------- MODULE TokenChain -----------------------------
(***************************************************************************)
(* What the MCP OAuth token endpoint promises about one refresh grant,     *)
(* with no storage, no replicas, no clocks and no retries: the grant has   *)
(* one chain of refresh tokens, every answer to a refresh is the newest    *)
(* token of that chain, a token has at most one successor, and a revoked   *)
(* grant never grows again.  RefreshToken is shown to implement it.        *)
(***************************************************************************)
EXTENDS Naturals

CONSTANTS
    Requests,     \* token-endpoint requests that may be in progress at once
    Tokens,       \* refresh tokens (the bearer secrets), positive numbers
    First         \* the token the authorization code was exchanged for

None == 0         \* no token

VARIABLES
    live,         \* the grant is stored (neither revoked nor consumed)
    newest,       \* the newest token of the chain
    succ,         \* succ[t] is the token that replaced t, or None
    asked,        \* asked[r] is the token request r presented, or None
    answer        \* answer[r] is the token request r will be answered with

vars == <<live, newest, succ, asked, answer>>

Init ==
    /\ live = TRUE
    /\ newest = First
    /\ succ = [t \in Tokens |-> None]
    /\ asked = [r \in Requests |-> None]
    /\ answer = [r \in Requests |-> None]

\* A client presents some token.
Ask(r) ==
    /\ asked[r] = None
    /\ \E t \in Tokens : asked' = [asked EXCEPT ![r] = t]
    /\ UNCHANGED <<live, newest, succ, answer>>

\* The chain grows by a token it never held, for the request that presented
\* its newest token; the request may or may not learn of it now.
Grow(r, t) ==
    /\ live
    /\ asked[r] = newest
    /\ answer[r] = None
    /\ t # newest
    /\ succ[t] = None
    /\ succ' = [succ EXCEPT ![newest] = t]
    /\ newest' = t
    /\ \/ answer' = [answer EXCEPT ![r] = t]
       \/ answer' = answer
    /\ UNCHANGED <<live, asked>>

\* A request that presented the newest token or its predecessor is answered
\* with the newest token.
Answer(r) ==
    /\ asked[r] # None
    /\ answer[r] = None
    /\ \/ asked[r] = newest
       \/ succ[asked[r]] = newest
    /\ answer' = [answer EXCEPT ![r] = newest]
    /\ UNCHANGED <<live, newest, succ, asked>>

\* A request ends, answered or refused; a refusal may revoke the grant.
Finish(r) ==
    /\ asked[r] # None
    /\ live' \in {live, FALSE}
    /\ asked' = [asked EXCEPT ![r] = None]
    /\ answer' = [answer EXCEPT ![r] = None]
    /\ UNCHANGED <<newest, succ>>

\* The grant is deleted from outside, for good.
Revoke ==
    /\ live
    /\ live' = FALSE
    /\ UNCHANGED <<newest, succ, asked, answer>>

Next ==
    \/ \E r \in Requests :
        \/ Ask(r) \/ Answer(r) \/ Finish(r)
        \/ \E t \in Tokens : Grow(r, t)
    \/ Revoke

Spec == Init /\ [][Next]_vars
=============================================================================
