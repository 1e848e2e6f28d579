------------------------------- MODULE Access -------------------------------
(***************************************************************************)
(* Principals and their bearer tokens: agents issue themselves a principal *)
(* under three rate limits (agent_access_api), operators create and revoke *)
(* principals and rotate tokens (agent_api, bootstrap routes).             *)
(*                                                                         *)
(* now() of PostgreSQL is the time a transaction began, so a request that  *)
(* waits for the advisory lock counts, and inserts, at the time it began.  *)
(***************************************************************************)
EXTENDS Requests, Integers, Sequences, FiniteSets

CONSTANTS
    Sources,                    \* fingerprints of addresses that self-issue
    IssueKeys,                  \* idempotency keys of bootstrap requests
    BurstLimit, BurstWindow,    \* current_access_policy
    SourceLimit, GlobalLimit, HourWindow,
    TokenTTL,
    MaxClock, MaxPrincipals, MaxTokens      \* bounds of the model

ASSUME NoneIsNoSource == None \notin Sources
ASSUME NoneIsNoKey == None \notin IssueKeys
ASSUME NoneIsNoCredential == None \notin [event : {"ISSUED", "REVOKED"}, token : Nat]
ASSUME PolicyBounds ==
    /\ {BurstWindow, HourWindow, TokenTTL} \subseteq Nat \ {0}
    /\ {BurstLimit, SourceLimit, GlobalLimit} \subseteq Nat \ {0}
ASSUME AccessBounds == {MaxClock, MaxPrincipals, MaxTokens} \subseteq Nat

VARIABLES
    clock,
    principals,     \* sequence of rows; source is None if created by bootstrap
    tokens,         \* sequence of rows; key is None for a principal's first token
    credentialKeys, \* key -> what its AUTH_PRINCIPAL_TOKEN_* event records
    issuing         \* handler -> its transaction

accessVars == <<clock, principals, tokens, credentialKeys, issuing>>

NoRequest == [stage |-> "idle"]

\* The self-issued principals that a check of kind c counts at time now.
Usage(now, c) ==
    {p \in DOMAIN principals :
        /\ principals[p].source \in c.sources
        /\ principals[p].created > now - c.window}

\* The checks on a request from source s (source_burst, source_sustained,
\* global_sustained).
ChecksOf(s) ==
    {[sources |-> {s}, window |-> BurstWindow, limit |-> BurstLimit],
     [sources |-> {s}, window |-> HourWindow, limit |-> SourceLimit],
     [sources |-> Sources, window |-> HourWindow, limit |-> GlobalLimit]}

WithinLimit(now, c) == Cardinality(Usage(now, c)) < c.limit

\* pg_advisory_xact_lock('docplane-private-fabric-self-issue').
SelfIssueLockFree == \A h \in Handlers : issuing[h].stage # "counted"

\* Mutant: a rotation reads its principal without FOR UPDATE.
PrincipalNeverLocked(p) == TRUE

\* SELECT ... FOR UPDATE or UPDATE of a principal's row, until the commit.
PrincipalFree(p) ==
    \A h \in Handlers :
        issuing[h].stage \in {"revoking", "rotating"} => issuing[h].principal # p

\* pg_advisory_xact_lock(bootstrap-credential:key), until the commit.
KeyFree(k) ==
    \A h \in Handlers : issuing[h].stage = "rotating" => issuing[h].key # k

AccessInit ==
    /\ clock = 0
    /\ principals = <<>>
    /\ tokens = <<>>
    /\ credentialKeys = [k \in IssueKeys |-> None]
    /\ issuing = [h \in Handlers |-> NoRequest]

Tick ==
    /\ clock < MaxClock
    /\ clock' = clock + 1
    /\ UNCHANGED <<principals, tokens, credentialKeys, issuing>>

-----------------------------------------------------------------------------
(* self_issue_agent_token *)

\* The transaction begins with the request for the advisory lock.
RequestSelfIssue(h, s) ==
    /\ issuing[h] = NoRequest
    /\ issuing' = [issuing EXCEPT ![h] =
                      [stage |-> "waiting", source |-> s, began |-> clock]]
    /\ UNCHANGED <<clock, principals, tokens, credentialKeys>>

\* Mutant: the limits are counted without the advisory lock.
CountUsageUnlocked(h) ==
    /\ issuing[h].stage = "waiting"
    /\ \A c \in ChecksOf(issuing[h].source) : WithinLimit(issuing[h].began, c)
    /\ issuing' = [issuing EXCEPT ![h].stage = "counted"]
    /\ UNCHANGED <<clock, principals, tokens, credentialKeys>>

CountUsage(h) ==
    /\ issuing[h].stage = "waiting"
    /\ SelfIssueLockFree
    /\ \A c \in ChecksOf(issuing[h].source) : WithinLimit(issuing[h].began, c)
    /\ issuing' = [issuing EXCEPT ![h].stage = "counted"]
    /\ UNCHANGED <<clock, principals, tokens, credentialKeys>>

RefuseSelfIssue(h) ==
    /\ issuing[h].stage = "waiting"
    /\ SelfIssueLockFree
    /\ \E c \in ChecksOf(issuing[h].source) : ~WithinLimit(issuing[h].began, c)
    /\ issuing' = [issuing EXCEPT ![h] = NoRequest]
    /\ UNCHANGED <<clock, principals, tokens, credentialKeys>>

Room == Len(principals) < MaxPrincipals /\ Len(tokens) < MaxTokens

NewPrincipal(source, at) ==
    [source |-> source, created |-> at, status |-> "ACTIVE"]

NewToken(p, at, key) ==
    [principal |-> p, expires |-> at + TokenTTL, revoked |-> FALSE, key |-> key]

SelfIssue(h) ==
    /\ issuing[h].stage = "counted"
    /\ Room
    /\ principals' = Append(principals,
                            NewPrincipal(issuing[h].source, issuing[h].began))
    /\ tokens' = Append(tokens,
                        NewToken(Len(principals) + 1, issuing[h].began, None))
    /\ issuing' = [issuing EXCEPT ![h] = NoRequest]
    /\ UNCHANGED <<clock, credentialKeys>>

-----------------------------------------------------------------------------
(* bootstrap routes *)

CreatePrincipal ==
    /\ Room
    /\ principals' = Append(principals, NewPrincipal(None, clock))
    /\ tokens' = Append(tokens, NewToken(Len(principals) + 1, clock, None))
    /\ UNCHANGED <<clock, credentialKeys, issuing>>

\* UPDATE docplane.principals, which locks the row.
BeginRevoke(h, p) ==
    /\ issuing[h] = NoRequest
    /\ PrincipalFree(p)
    /\ issuing' = [issuing EXCEPT ![h] = [stage |-> "revoking", principal |-> p]]
    /\ UNCHANGED <<clock, principals, tokens, credentialKeys>>

\* UPDATE docplane.api_tokens, which sees every token committed by now.
RevokePrincipal(h) ==
    /\ issuing[h].stage = "revoking"
    /\ principals' = [principals EXCEPT ![issuing[h].principal].status = "REVOKED"]
    /\ tokens' = [t \in DOMAIN tokens |->
                     IF tokens[t].principal = issuing[h].principal
                     THEN [tokens[t] EXCEPT !.revoked = TRUE]
                     ELSE tokens[t]]
    /\ issuing' = [issuing EXCEPT ![h] = NoRequest]
    /\ UNCHANGED <<clock, credentialKeys>>

\* Mutant: the event of the key is not looked up.
BeginRotateAnyKey(h, p, k) ==
    /\ issuing[h] = NoRequest
    /\ KeyFree(k)
    /\ PrincipalFree(p) /\ principals[p].status = "ACTIVE"
    /\ issuing' = [issuing EXCEPT ![h] =
                      [stage |-> "rotating", principal |-> p, key |-> k]]
    /\ UNCHANGED <<clock, principals, tokens, credentialKeys>>

\* issue_principal_token up to its SELECT ... FOR UPDATE.  A key that has its
\* event is answered from it and changes nothing.
BeginRotate(h, p, k) ==
    /\ issuing[h] = NoRequest
    /\ KeyFree(k) /\ credentialKeys[k] = None
    /\ PrincipalFree(p) /\ principals[p].status = "ACTIVE"
    /\ issuing' = [issuing EXCEPT ![h] =
                      [stage |-> "rotating", principal |-> p, key |-> k]]
    /\ UNCHANGED <<clock, principals, tokens, credentialKeys>>

IssueToken(h) ==
    /\ issuing[h].stage = "rotating"
    /\ Len(tokens) < MaxTokens
    /\ tokens' = Append(tokens, NewToken(issuing[h].principal, clock, issuing[h].key))
    /\ credentialKeys' = [credentialKeys EXCEPT ![issuing[h].key] =
                             [event |-> "ISSUED", token |-> Len(tokens) + 1]]
    /\ issuing' = [issuing EXCEPT ![h] = NoRequest]
    /\ UNCHANGED <<clock, principals>>

\* revoke_principal_token; a token that is revoked already keeps its time.
RevokeToken(t, k) ==
    /\ KeyFree(k) /\ credentialKeys[k] = None
    /\ tokens' = [tokens EXCEPT ![t].revoked = TRUE]
    /\ credentialKeys' = [credentialKeys EXCEPT ![k] =
                             [event |-> "REVOKED", token |-> t]]
    /\ UNCHANGED <<clock, principals, issuing>>

\* The connection ends before the commit.
AbandonAccess(h) ==
    /\ issuing[h] # NoRequest
    /\ issuing' = [issuing EXCEPT ![h] = NoRequest]
    /\ UNCHANGED <<clock, principals, tokens, credentialKeys>>

AccessNext ==
    \/ Tick
    \/ \E h \in Handlers, s \in Sources : RequestSelfIssue(h, s)
    \/ \E h \in Handlers : CountUsage(h)
    \/ \E h \in Handlers : RefuseSelfIssue(h)
    \/ \E h \in Handlers : SelfIssue(h)
    \/ CreatePrincipal
    \/ \E h \in Handlers, p \in DOMAIN principals : BeginRevoke(h, p)
    \/ \E h \in Handlers : RevokePrincipal(h)
    \/ \E h \in Handlers, p \in DOMAIN principals, k \in IssueKeys : BeginRotate(h, p, k)
    \/ \E h \in Handlers : IssueToken(h)
    \/ \E t \in DOMAIN tokens, k \in IssueKeys : RevokeToken(t, k)
    \/ \E h \in Handlers : AbandonAccess(h)

AccessSpec == AccessInit /\ [][AccessNext]_accessVars

-----------------------------------------------------------------------------
(* authenticate *)

\* authenticate admits token t at time now.
Admits(t, now) ==
    /\ ~tokens[t].revoked
    /\ principals[tokens[t].principal].status = "ACTIVE"
    /\ tokens[t].expires > now

-----------------------------------------------------------------------------
(* Properties *)

PrincipalRow == [source : Sources \cup {None}, created : Nat,
                 status : {"ACTIVE", "REVOKED"}]
TokenRow == [principal : DOMAIN principals, expires : Nat,
             revoked : BOOLEAN, key : IssueKeys \cup {None}]
IssueRequest ==
    {NoRequest}
    \cup [stage : {"waiting", "counted"}, source : Sources, began : 0..clock]
    \cup [stage : {"revoking"}, principal : DOMAIN principals]
    \cup [stage : {"rotating"}, principal : DOMAIN principals, key : IssueKeys]

AccessTypeOK ==
    /\ clock \in Nat
    /\ principals \in Seq(PrincipalRow)
    /\ tokens \in Seq(TokenRow)
    /\ credentialKeys \in [IssueKeys ->
           {None} \cup [event : {"ISSUED", "REVOKED"}, token : DOMAIN tokens]]
    /\ issuing \in [Handlers -> IssueRequest]

\* The principals of some sources created in the window that ends at x.
CreatedIn(c, x) ==
    {p \in Usage(x, c) : principals[p].created <= x}

\* No window of time, wherever it begins, holds more self-issued principals
\* than its limit: of one source in a burst and in an hour, of all sources in
\* an hour (_rate_limit).  Requests that began together are counted one after
\* another, at times that may be out of order.
SelfIssueLimited ==
    \A s \in Sources : \A c \in ChecksOf(s) : \A x \in 0..clock :
        Cardinality(CreatedIn(c, x)) <= c.limit

\* A revoked principal is left without a usable token, even one that was
\* being issued while it was revoked (revoke_principal).
RevokedHoldNothing ==
    \A t \in DOMAIN tokens :
        principals[tokens[t].principal].status = "REVOKED" => tokens[t].revoked

\* One token is issued for a key, however often its request is delivered, and
\* the event of the key names it (issue_principal_token).
OneTokenPerKey ==
    \A t \in DOMAIN tokens :
        tokens[t].key # None =>
            credentialKeys[tokens[t].key] = [event |-> "ISSUED", token |-> t]

SmallestOf(S) == CHOOSE x \in S : \A y \in S : x <= y

\* Mutant: the seconds left are rounded down.
RetryAfterRoundedDown(now, c) ==
    LET age == SmallestOf({principals[p].created : p \in Usage(now, c)})
                   + c.window - now - 1
    IN  IF age > 1 THEN age ELSE 1

\* Retry-After of a refusal at time now by check c (_usage).
RetryAfter(now, c) ==
    LET age == SmallestOf({principals[p].created : p \in Usage(now, c)})
                   + c.window - now
    IN  IF age > 1 THEN age ELSE 1

\* A refused source that waits as long as it is told is within that limit
\* then, unless others took the place.
RetryAfterSuffices ==
    \A s \in Sources : \A c \in ChecksOf(s) :
        ~WithinLimit(clock, c) => WithinLimit(clock + RetryAfter(clock, c), c)

\* Self-issue keeps to its limits and says truly how long to wait; a key has one
\* token and a revoked principal none, whatever requests overlap.
AccessSafe ==
    /\ AccessTypeOK /\ SelfIssueLimited /\ RetryAfterSuffices
    /\ RevokedHoldNothing /\ OneTokenPerKey
=============================================================================
