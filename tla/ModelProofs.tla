----------------------------- MODULE ModelProofs -----------------------------
(***************************************************************************)
(* Proofs about what the control plane knows of its model, each component  *)
(* on its own: principals and their credentials, the owners of artifacts   *)
(* and of the pages they generate, and entities with their verification    *)
(* requests.                                                               *)
(***************************************************************************)
EXTENDS Access, Ownership, Entities,
        FiniteSetTheorems, WellFoundedInduction, TLAPS

-----------------------------------------------------------------------------
(***************************************************************************)
(* Access: any number of handlers, principals and credentials.             *)
(***************************************************************************)
\* Nobody is created later than now.
CreatedByNow == \A p \in DOMAIN principals : principals[p].created <= clock

\* pg_advisory_xact_lock('docplane-private-fabric-self-issue') has one holder.
OneCounts ==
    \A g, h \in Handlers :
        issuing[g].stage = "counted" /\ issuing[h].stage = "counted" => g = h

\* What the holder of that lock has counted is still so when it inserts.
CountStands ==
    \A h \in Handlers : issuing[h].stage = "counted" =>
        \A c \in ChecksOf(issuing[h].source) : WithinLimit(issuing[h].began, c)

HoldsRow(h) == issuing[h].stage \in {"revoking", "rotating"}

\* A principal's row has one holder, and the lock of a key one.
OneHolder ==
    \A g, h \in Handlers :
        /\ HoldsRow(g) /\ HoldsRow(h) /\ issuing[g].principal = issuing[h].principal
           => g = h
        /\ /\ issuing[g].stage = "rotating" /\ issuing[h].stage = "rotating"
           /\ issuing[g].key = issuing[h].key
           => g = h

\* What a rotation found under its locks stays so until it inserts the token.
RotationStands ==
    \A h \in Handlers : issuing[h].stage = "rotating" =>
        /\ principals[issuing[h].principal].status = "ACTIVE"
        /\ credentialKeys[issuing[h].key] = None

AccessInv ==
    /\ AccessTypeOK /\ CreatedByNow /\ OneCounts /\ CountStands
    /\ OneHolder /\ RotationStands
    /\ SelfIssueLimited /\ RevokedHoldNothing /\ OneTokenPerKey

-----------------------------------------------------------------------------
\* The fields of a handler's record at each of its stages.
LEMMA IssuingShapes ==
    ASSUME AccessTypeOK, NEW h \in Handlers
    PROVE  /\ issuing[h].stage \in {"idle", "waiting", "counted", "revoking", "rotating"}
           /\ issuing[h].stage = "idle" <=> issuing[h] = NoRequest
           /\ issuing[h].stage \in {"waiting", "counted"} =>
                  issuing[h].source \in Sources /\ issuing[h].began \in 0..clock
           /\ HoldsRow(h) => issuing[h].principal \in DOMAIN principals
           /\ issuing[h].stage = "rotating" => issuing[h].key \in IssueKeys
BY DEF AccessTypeOK, IssueRequest, NoRequest, HoldsRow

\* The fields of the rows.
LEMMA RowShapes ==
    ASSUME AccessTypeOK
    PROVE  /\ \A p \in DOMAIN principals :
                  /\ principals[p] \in PrincipalRow
                  /\ principals[p].created \in Nat
           /\ \A t \in DOMAIN tokens :
                  /\ tokens[t] \in TokenRow
                  /\ tokens[t].principal \in DOMAIN principals
<1>1. \A p \in DOMAIN principals : principals[p] \in PrincipalRow
  BY DEF AccessTypeOK
<1>2. \A t \in DOMAIN tokens : tokens[t] \in TokenRow
  BY DEF AccessTypeOK
<1> QED
  BY <1>1, <1>2 DEF PrincipalRow, TokenRow

\* The types of rows refer to the tables, which only grow.
LEMMA RowsKeepTypes ==
    ASSUME AccessTypeOK, DOMAIN principals \subseteq DOMAIN principals',
           DOMAIN tokens \subseteq DOMAIN tokens', clock \in Nat, clock' \in Nat, clock <= clock'
    PROVE  /\ tokens \in Seq(TokenRow')
           /\ credentialKeys \in [IssueKeys -> {None} \cup
                  [event : {"ISSUED", "REVOKED"}, token : DOMAIN tokens']]
           /\ issuing \in [Handlers -> IssueRequest']
<1>1. TokenRow \subseteq TokenRow'
  BY DEF TokenRow
<1>2. IssueRequest \subseteq IssueRequest'
  BY DEF IssueRequest
<1>3. tokens \in Seq(TokenRow')
  BY <1>1 DEF AccessTypeOK
<1> QED
  BY <1>2, <1>3 DEF AccessTypeOK

\* A check names its sources, a window and a limit.
LEMMA CheckShape ==
    ASSUME NEW s \in Sources, NEW c \in ChecksOf(s)
    PROVE  /\ c.window \in Nat \ {0} /\ c.limit \in Nat \ {0}
           /\ c.sources \subseteq Sources /\ None \notin c.sources
           /\ \A r \in c.sources : c \in ChecksOf(r)
BY PolicyBounds, NoneIsNoSource DEF ChecksOf

\* The principals that a check counts are finitely many.
LEMMA UsageFinite ==
    ASSUME AccessTypeOK, NEW now, NEW c
    PROVE  /\ IsFiniteSet(Usage(now, c)) /\ Cardinality(Usage(now, c)) \in Nat
           /\ \A x \in Int : /\ IsFiniteSet(CreatedIn(c, x))
                             /\ Cardinality(CreatedIn(c, x)) \in Nat
<1>1. IsFiniteSet(DOMAIN principals)
  BY FS_Interval DEF AccessTypeOK
<1>2. Usage(now, c) \subseteq DOMAIN principals
  BY DEF Usage
<1>3. ASSUME NEW x \in Int PROVE CreatedIn(c, x) \subseteq DOMAIN principals
  BY DEF Usage, CreatedIn
<1> QED
  BY <1>1, <1>2, <1>3, FS_Subset, FS_CardinalityType

\* Only new principals of a check's sources change what it counts.
LEMMA UsageKeeps ==
    ASSUME AccessTypeOK, NEW s \in Sources, NEW c \in ChecksOf(s), NEW x \in Int,
           DOMAIN principals \subseteq DOMAIN principals',
           \A p \in DOMAIN principals : /\ principals'[p].source = principals[p].source
                                        /\ principals'[p].created = principals[p].created,
           \A p \in DOMAIN principals' :
               p \in DOMAIN principals \/ principals'[p].source = None
    PROVE  Usage(x, c)' = Usage(x, c) /\ CreatedIn(c, x)' = CreatedIn(c, x)
<1>1. None \notin c.sources
  BY CheckShape
<1>2. Usage(x, c)' = Usage(x, c)
  BY <1>1 DEF Usage
<1> QED
  BY <1>2 DEF Usage, CreatedIn

\* What is counted stands, and the limits are kept, by a step that issues nothing
\* and at which time stands still.
LEMMA LimitsKeep ==
    ASSUME AccessInv, clock' = clock,
           DOMAIN principals \subseteq DOMAIN principals',
           \A p \in DOMAIN principals : /\ principals'[p].source = principals[p].source
                                        /\ principals'[p].created = principals[p].created,
           \A p \in DOMAIN principals' :
               p \in DOMAIN principals \/ principals'[p].source = None,
           \A h \in Handlers : issuing'[h].stage = "counted" => issuing'[h] = issuing[h]
    PROVE  SelfIssueLimited' /\ CountStands' /\ OneCounts'
<1>1. SelfIssueLimited'
  <2> SUFFICES ASSUME NEW s \in Sources, NEW c \in ChecksOf(s), NEW x \in 0..clock
               PROVE  Cardinality(CreatedIn(c, x)') <= c.limit
    BY DEF SelfIssueLimited
  <2>1. x \in Int
    OBVIOUS
  <2> QED
    BY <2>1, UsageKeeps DEF AccessInv, SelfIssueLimited
<1>2. CountStands'
  <2> SUFFICES ASSUME NEW h \in Handlers, issuing'[h].stage = "counted",
                      NEW c \in ChecksOf(issuing[h].source)
               PROVE  Cardinality(Usage(issuing[h].began, c)') < c.limit
    BY DEF CountStands, WithinLimit, Usage
  <2>1. issuing[h].stage = "counted" /\ issuing[h].source \in Sources
        /\ issuing[h].began \in Int
    BY IssuingShapes DEF AccessInv, AccessTypeOK
  <2>2. PICK s \in Sources, b \in Int : s = issuing[h].source /\ b = issuing[h].began
    BY <2>1
  <2>3. Usage(b, c)' = Usage(b, c)
    BY <2>2, UsageKeeps DEF AccessInv
  <2> QED
    BY <2>1, <2>2, <2>3 DEF AccessInv, CountStands, WithinLimit, Usage
<1> QED
  BY <1>1, <1>2 DEF AccessInv, OneCounts

\* What the locks protect stands through a step of others.
LEMMA LocksKeep ==
    ASSUME AccessInv, UNCHANGED <<principals, credentialKeys>>,
           \A h \in Handlers : /\ issuing'[h].stage \in {"revoking", "rotating"}
                               => issuing'[h] = issuing[h]
    PROVE  OneHolder' /\ RotationStands'
BY DEF AccessInv, OneHolder, HoldsRow, RotationStands

-----------------------------------------------------------------------------
(***************************************************************************)
(* Each action keeps the invariant.                                        *)
(***************************************************************************)
\* Time passes: nobody is created later than the time that was.
LEMMA TickStep == AccessInv /\ Tick => AccessInv'
<1> SUFFICES ASSUME AccessInv, Tick PROVE AccessInv'
  OBVIOUS
<1>1. clock \in Nat /\ clock' = clock + 1
      /\ UNCHANGED <<principals, tokens, credentialKeys, issuing>>
  BY DEF AccessInv, AccessTypeOK, Tick
<1>2. AccessTypeOK'
  <2>1. TokenRow' = TokenRow
    BY <1>1 DEF TokenRow
  <2> QED
    BY <1>1, <2>1, RowsKeepTypes DEF AccessInv, AccessTypeOK
<1>3. CreatedByNow'
  BY <1>1, RowShapes DEF AccessInv, CreatedByNow
<1>4. SelfIssueLimited'
  <2> SUFFICES ASSUME NEW s \in Sources, NEW c \in ChecksOf(s), NEW x \in 0..clock + 1
               PROVE  Cardinality(CreatedIn(c, x)) <= c.limit
    BY <1>1 DEF SelfIssueLimited, CreatedIn, Usage
  <2>1. CASE x \in 0..clock
    BY <2>1 DEF AccessInv, SelfIssueLimited
  <2>2. CASE x = clock + 1
    <3>1. CreatedIn(c, x) \subseteq CreatedIn(c, clock)
      BY <1>1, <2>2, CheckShape, RowShapes DEF AccessInv, CreatedByNow, CreatedIn, Usage
    <3>2. Cardinality(CreatedIn(c, clock)) <= c.limit
      BY <1>1 DEF AccessInv, SelfIssueLimited
    <3>3. /\ IsFiniteSet(CreatedIn(c, clock))
          /\ Cardinality(CreatedIn(c, clock)) \in Nat
          /\ Cardinality(CreatedIn(c, x)) \in Nat
      BY <1>1, UsageFinite DEF AccessInv
    <3>4. Cardinality(CreatedIn(c, x)) <= Cardinality(CreatedIn(c, clock))
      BY <3>1, <3>3, FS_Subset
    <3> QED
      BY <3>2, <3>3, <3>4, CheckShape
  <2> QED
    BY <1>1, <2>1, <2>2
<1>5. CountStands'
  BY <1>1 DEF AccessInv, CountStands, WithinLimit, Usage
<1> QED
  BY <1>1, <1>2, <1>3, <1>4, <1>5
  DEF AccessInv, OneCounts, OneHolder, RotationStands, HoldsRow, RevokedHoldNothing,
      OneTokenPerKey

\* A step of one handler that leaves the tables as they are.
LEMMA HandlerMoves ==
    ASSUME AccessInv, NEW h \in Handlers, NEW r \in IssueRequest,
           issuing' = [issuing EXCEPT ![h] = r],
           UNCHANGED <<clock, principals, tokens, credentialKeys>>
    PROVE  /\ AccessTypeOK' /\ CreatedByNow' /\ SelfIssueLimited'
           /\ RevokedHoldNothing' /\ OneTokenPerKey'
<1>1. TokenRow' = TokenRow /\ IssueRequest' = IssueRequest
  BY DEF TokenRow, IssueRequest
<1>2. AccessTypeOK'
  BY <1>1 DEF AccessInv, AccessTypeOK
<1>3. SelfIssueLimited'
  BY DEF AccessInv, SelfIssueLimited, CreatedIn, Usage
<1> QED
  BY <1>2, <1>3 DEF AccessInv, CreatedByNow, RevokedHoldNothing, OneTokenPerKey

\* A request waits for the advisory lock, or gives up.
LEMMA RequestStep ==
    ASSUME AccessInv, NEW h \in Handlers,
           (\E s \in Sources : RequestSelfIssue(h, s)) \/ RefuseSelfIssue(h) \/ AbandonAccess(h)
    PROVE  AccessInv'
<1>1. PICK r \in IssueRequest :
          /\ r.stage \in {"idle", "waiting"} /\ issuing' = [issuing EXCEPT ![h] = r]
          /\ UNCHANGED <<clock, principals, tokens, credentialKeys>>
  <2>1. ASSUME NEW s \in Sources, RequestSelfIssue(h, s)
        PROVE  [stage |-> "waiting", source |-> s, began |-> clock] \in IssueRequest
    BY DEF AccessInv, AccessTypeOK, IssueRequest
  <2>2. NoRequest \in IssueRequest
    BY DEF IssueRequest
  <2> QED
    BY <2>1, <2>2 DEF RequestSelfIssue, RefuseSelfIssue, AbandonAccess, NoRequest
<1>2. \A g \in Handlers : issuing'[g] = IF g = h THEN r ELSE issuing[g]
  BY <1>1 DEF AccessInv, AccessTypeOK
<1> QED
  BY <1>1, <1>2, HandlerMoves, LimitsKeep, LocksKeep DEF AccessInv

\* Who holds the advisory lock counts at the time its transaction began.
LEMMA CountUsageStep ==
    ASSUME AccessInv, NEW h \in Handlers, CountUsage(h)
    PROVE  AccessInv'
<1> DEFINE r == [issuing[h] EXCEPT !.stage = "counted"]
<1>1. r \in IssueRequest /\ r.stage = "counted" /\ r.source = issuing[h].source
      /\ r.began = issuing[h].began
  <2>1. issuing[h] \in [stage : {"waiting", "counted"}, source : Sources, began : 0..clock]
    BY DEF AccessInv, AccessTypeOK, IssueRequest, NoRequest, CountUsage
  <2>2. r \in [stage : {"waiting", "counted"}, source : Sources, began : 0..clock]
    BY <2>1
  <2> QED
    BY <2>1, <2>2 DEF IssueRequest
<1>2. issuing' = [issuing EXCEPT ![h] = r]
      /\ UNCHANGED <<clock, principals, tokens, credentialKeys>>
  BY DEF CountUsage
<1> HIDE DEF r
<1>3. \A g \in Handlers : issuing'[g] = IF g = h THEN r ELSE issuing[g]
  BY <1>2 DEF AccessInv, AccessTypeOK
<1>4. OneCounts'
  BY <1>1, <1>3 DEF OneCounts, CountUsage, SelfIssueLockFree
<1>5. CountStands'
  BY <1>1, <1>2, <1>3 DEF AccessInv, CountStands, CountUsage, WithinLimit, Usage
<1> QED
  BY <1>1, <1>2, <1>3, <1>4, <1>5, HandlerMoves, LocksKeep DEF AccessInv

\* A row and a key are locked by one at a time.
LEMMA BeginRevokeStep ==
    ASSUME AccessInv, NEW h \in Handlers, NEW p \in DOMAIN principals, BeginRevoke(h, p)
    PROVE  AccessInv'
<1> DEFINE r == [stage |-> "revoking", principal |-> p]
<1>1. r \in IssueRequest /\ r.stage # "counted" /\ issuing' = [issuing EXCEPT ![h] = r]
      /\ UNCHANGED <<clock, principals, tokens, credentialKeys>>
  BY DEF BeginRevoke, IssueRequest
<1>2. \A g \in Handlers : issuing'[g] = IF g = h THEN r ELSE issuing[g]
  BY <1>1 DEF AccessInv, AccessTypeOK
<1>3. OneHolder' /\ RotationStands'
  BY <1>1, <1>2 DEF AccessInv, OneHolder, HoldsRow, RotationStands, BeginRevoke, PrincipalFree
<1> QED
  BY <1>1, <1>2, <1>3, HandlerMoves, LimitsKeep DEF AccessInv

LEMMA BeginRotateStep ==
    ASSUME AccessInv, NEW h \in Handlers, NEW p \in DOMAIN principals, NEW k \in IssueKeys,
           BeginRotate(h, p, k)
    PROVE  AccessInv'
<1> DEFINE r == [stage |-> "rotating", principal |-> p, key |-> k]
<1>1. r \in IssueRequest /\ r.stage # "counted" /\ issuing' = [issuing EXCEPT ![h] = r]
      /\ UNCHANGED <<clock, principals, tokens, credentialKeys>>
  BY DEF BeginRotate, IssueRequest
<1>2. \A g \in Handlers : issuing'[g] = IF g = h THEN r ELSE issuing[g]
  BY <1>1 DEF AccessInv, AccessTypeOK
<1>3. OneHolder' /\ RotationStands'
  BY <1>1, <1>2
  DEF AccessInv, OneHolder, HoldsRow, RotationStands, BeginRotate, PrincipalFree, KeyFree
<1> QED
  BY <1>1, <1>2, <1>3, HandlerMoves, LimitsKeep DEF AccessInv

\* The holder of the advisory lock inserts where it has counted.
LEMMA SelfIssueStep ==
    ASSUME AccessInv, NEW h \in Handlers, SelfIssue(h)
    PROVE  AccessInv'
<1> DEFINE r == issuing[h].source
           b == issuing[h].began
           n == Len(principals) + 1
<1>1. r \in Sources /\ b \in 0..clock /\ clock \in Nat /\ n \in Nat
      /\ r # None /\ n \notin DOMAIN principals
  BY IssuingShapes, NoneIsNoSource DEF AccessInv, AccessTypeOK, SelfIssue
<1>2. /\ DOMAIN principals' = DOMAIN principals \cup {n}
      /\ \A p \in DOMAIN principals : principals'[p] = principals[p]
      /\ principals'[n] = NewPrincipal(r, b)
      /\ principals' \in Seq(PrincipalRow)
  BY <1>1 DEF AccessInv, AccessTypeOK, SelfIssue, NewPrincipal, PrincipalRow
<1>3. /\ clock' = clock /\ credentialKeys' = credentialKeys
      /\ issuing' = [issuing EXCEPT ![h] = NoRequest]
      /\ tokens' = Append(tokens, NewToken(n, b, None))
  BY DEF SelfIssue
<1>4. /\ DOMAIN tokens' = DOMAIN tokens \cup {Len(tokens) + 1}
      /\ \A t \in DOMAIN tokens : tokens'[t] = tokens[t]
      /\ tokens'[Len(tokens) + 1] = NewToken(n, b, None)
  BY <1>3 DEF AccessInv, AccessTypeOK
<1>5. \A g \in Handlers : issuing'[g] = IF g = h THEN NoRequest ELSE issuing[g]
  BY <1>3 DEF AccessInv, AccessTypeOK
<1>6. AccessTypeOK'
  <2>1. NewToken(n, b, None) \in TokenRow'
    BY <1>1, <1>2, PolicyBounds DEF NewToken, TokenRow
  <2>2. tokens \in Seq(TokenRow') /\ issuing \in [Handlers -> IssueRequest']
        /\ credentialKeys \in [IssueKeys -> {None} \cup
                  [event : {"ISSUED", "REVOKED"}, token : DOMAIN tokens']]
    BY <1>1, <1>2, <1>3, <1>4, RowsKeepTypes DEF AccessInv
  <2>3. NoRequest \in IssueRequest'
    BY DEF IssueRequest
  <2> QED
    BY <1>1, <1>2, <1>3, <2>1, <2>2, <2>3 DEF AccessTypeOK
<1>7. CreatedByNow'
  BY <1>1, <1>2, <1>3 DEF AccessInv, CreatedByNow, NewPrincipal
<1>8. OneCounts' /\ CountStands'
  BY <1>5 DEF AccessInv, OneCounts, CountStands, SelfIssue, NoRequest
<1>9. SelfIssueLimited'
  <2> SUFFICES ASSUME NEW s \in Sources, NEW c \in ChecksOf(s), NEW x \in 0..clock
               PROVE  Cardinality(CreatedIn(c, x)') <= c.limit
    BY <1>3 DEF SelfIssueLimited
  <2>1. Cardinality(CreatedIn(c, x)) <= c.limit
    BY DEF AccessInv, SelfIssueLimited
  <2>2. CASE n \notin CreatedIn(c, x)'
    <3>1. CreatedIn(c, x)' = CreatedIn(c, x)
      BY <1>1, <1>2, <2>2 DEF CreatedIn, Usage
    <3> QED
      BY <2>1, <3>1
  <2>3. CASE n \in CreatedIn(c, x)'
    <3>1. r \in c.sources /\ b > x - c.window /\ b <= x
      BY <1>2, <2>3 DEF CreatedIn, Usage, NewPrincipal
    <3>2. c \in ChecksOf(r) /\ c.window \in Nat /\ c.limit \in Nat
      BY <1>1, <3>1, CheckShape
    <3>3. CreatedIn(c, x)' \subseteq Usage(b, c) \cup {n}
      BY <1>1, <1>2, <3>1, <3>2, RowShapes, SMTT(30) DEF AccessInv, CreatedIn, Usage
    <3>4. Cardinality(Usage(b, c)) < c.limit
      BY <3>2 DEF AccessInv, CountStands, SelfIssue, WithinLimit
    <3>5. IsFiniteSet(Usage(b, c)) /\ Cardinality(Usage(b, c)) \in Nat
          /\ n \notin Usage(b, c)
      BY <1>1, UsageFinite DEF AccessInv, Usage
    <3>6. /\ IsFiniteSet(Usage(b, c) \cup {n})
          /\ Cardinality(Usage(b, c) \cup {n}) = Cardinality(Usage(b, c)) + 1
      BY <3>5, FS_AddElement
    <3>7. /\ IsFiniteSet(CreatedIn(c, x)')
          /\ Cardinality(CreatedIn(c, x)') <= Cardinality(Usage(b, c) \cup {n})
      BY <3>3, <3>6, FS_Subset
    <3>8. Cardinality(CreatedIn(c, x)') \in Nat
      BY <3>7, FS_CardinalityType
    <3> QED
      BY <3>2, <3>4, <3>5, <3>6, <3>7, <3>8
  <2> QED
    BY <2>2, <2>3
<1>10. OneHolder' /\ RotationStands'
  BY <1>2, <1>3, <1>5, IssuingShapes
  DEF AccessInv, OneHolder, HoldsRow, RotationStands, NoRequest
<1>11. RevokedHoldNothing' /\ OneTokenPerKey'
  BY <1>1, <1>2, <1>3, <1>4, RowShapes
  DEF AccessInv, RevokedHoldNothing, OneTokenPerKey, NewToken, NewPrincipal
<1> QED
  BY <1>6, <1>7, <1>8, <1>9, <1>10, <1>11 DEF AccessInv

\* An operator's principal is of no source.
LEMMA CreatePrincipalStep == AccessInv /\ CreatePrincipal => AccessInv'
<1> SUFFICES ASSUME AccessInv, CreatePrincipal PROVE AccessInv'
  OBVIOUS
<1> DEFINE n == Len(principals) + 1
<1>1. clock \in Nat /\ n \in Nat /\ n \notin DOMAIN principals
  BY DEF AccessInv, AccessTypeOK
<1>2. /\ DOMAIN principals' = DOMAIN principals \cup {n}
      /\ \A p \in DOMAIN principals : principals'[p] = principals[p]
      /\ principals'[n] = NewPrincipal(None, clock)
      /\ principals' \in Seq(PrincipalRow)
  BY <1>1 DEF AccessInv, AccessTypeOK, CreatePrincipal, NewPrincipal, PrincipalRow
<1>3. /\ UNCHANGED <<clock, credentialKeys, issuing>>
      /\ tokens' = Append(tokens, NewToken(n, clock, None))
  BY DEF CreatePrincipal
<1>4. /\ DOMAIN tokens' = DOMAIN tokens \cup {Len(tokens) + 1}
      /\ \A t \in DOMAIN tokens : tokens'[t] = tokens[t]
      /\ tokens'[Len(tokens) + 1] = NewToken(n, clock, None)
  BY <1>3 DEF AccessInv, AccessTypeOK
<1>5. AccessTypeOK'
  <2>1. NewToken(n, clock, None) \in TokenRow'
    BY <1>1, <1>2, PolicyBounds DEF NewToken, TokenRow
  <2>2. tokens \in Seq(TokenRow') /\ issuing \in [Handlers -> IssueRequest']
        /\ credentialKeys \in [IssueKeys -> {None} \cup
                  [event : {"ISSUED", "REVOKED"}, token : DOMAIN tokens']]
    BY <1>1, <1>2, <1>3, <1>4, RowsKeepTypes DEF AccessInv
  <2> QED
    BY <1>1, <1>2, <1>3, <2>1, <2>2 DEF AccessTypeOK
<1>6. CreatedByNow'
  BY <1>1, <1>2, <1>3 DEF AccessInv, CreatedByNow, NewPrincipal
<1>7. SelfIssueLimited' /\ CountStands' /\ OneCounts'
  BY <1>2, <1>3, LimitsKeep DEF NewPrincipal
<1>8. OneHolder' /\ RotationStands'
  BY <1>2, <1>3, IssuingShapes DEF AccessInv, OneHolder, HoldsRow, RotationStands
<1>9. RevokedHoldNothing' /\ OneTokenPerKey'
  BY <1>1, <1>2, <1>3, <1>4, RowShapes
  DEF AccessInv, RevokedHoldNothing, OneTokenPerKey, NewToken, NewPrincipal
<1> QED
  BY <1>5, <1>6, <1>7, <1>8, <1>9 DEF AccessInv

\* A revocation takes every token of its principal, whose row it holds: no rotation
\* of it is under way.
LEMMA RevokePrincipalStep ==
    ASSUME AccessInv, NEW h \in Handlers, RevokePrincipal(h)
    PROVE  AccessInv'
<1> DEFINE q == issuing[h].principal
<1>1. q \in DOMAIN principals /\ HoldsRow(h) /\ issuing[h].stage = "revoking"
  BY IssuingShapes DEF AccessInv, RevokePrincipal, HoldsRow
<1>2. /\ DOMAIN principals' = DOMAIN principals
      /\ \A p \in DOMAIN principals :
             /\ principals'[p].source = principals[p].source
             /\ principals'[p].created = principals[p].created
             /\ p # q => principals'[p] = principals[p]
      /\ principals'[q].status = "REVOKED"
      /\ principals' \in Seq(PrincipalRow)
  <2>1. principals[q] \in PrincipalRow
    BY <1>1, RowShapes DEF AccessInv
  <2>2. [principals[q] EXCEPT !.status = "REVOKED"] \in PrincipalRow
    BY <2>1 DEF PrincipalRow
  <2>3. principals' = [principals EXCEPT ![q] = [principals[q] EXCEPT !.status = "REVOKED"]]
    BY DEF RevokePrincipal
  <2> QED
    BY <1>1, <2>1, <2>2, <2>3 DEF AccessInv, AccessTypeOK, PrincipalRow
<1>3. /\ DOMAIN tokens' = DOMAIN tokens
      /\ \A t \in DOMAIN tokens :
             /\ tokens'[t].principal = tokens[t].principal /\ tokens'[t].key = tokens[t].key
             /\ IF tokens[t].principal = q THEN tokens'[t].revoked
                ELSE tokens'[t] = tokens[t]
      /\ tokens' \in Seq(TokenRow)
  <2>1. \A t \in DOMAIN tokens : [tokens[t] EXCEPT !.revoked = TRUE] \in TokenRow
    BY RowShapes DEF AccessInv, TokenRow
  <2>2. \A t \in DOMAIN tokens : tokens[t] \in TokenRow
    BY RowShapes DEF AccessInv
  <2>3. tokens' = [t \in DOMAIN tokens |->
                     IF tokens[t].principal = q
                     THEN [tokens[t] EXCEPT !.revoked = TRUE] ELSE tokens[t]]
    BY DEF RevokePrincipal
  <2>4. DOMAIN tokens = 1..Len(tokens) /\ Len(tokens) \in Nat
    BY DEF AccessInv, AccessTypeOK
  <2>5. tokens' \in [1..Len(tokens) -> TokenRow]
    BY <2>1, <2>2, <2>3, <2>4
  <2>6. tokens' \in Seq(TokenRow)
    BY <2>4, <2>5
  <2> QED
    BY <2>2, <2>3, <2>6 DEF TokenRow
<1>4. /\ clock' = clock /\ credentialKeys' = credentialKeys
      /\ issuing' = [issuing EXCEPT ![h] = NoRequest]
  BY DEF RevokePrincipal
<1>5. \A g \in Handlers : issuing'[g] = IF g = h THEN NoRequest ELSE issuing[g]
  BY <1>4 DEF AccessInv, AccessTypeOK
<1>6. AccessTypeOK'
  <2>1. TokenRow' = TokenRow /\ IssueRequest' = IssueRequest
    BY <1>2, <1>4 DEF TokenRow, IssueRequest
  <2>2. NoRequest \in IssueRequest
    BY DEF IssueRequest
  <2> QED
    BY <1>2, <1>3, <1>4, <2>1, <2>2 DEF AccessInv, AccessTypeOK
<1>7. CreatedByNow'
  BY <1>2, <1>4 DEF AccessInv, CreatedByNow
<1>8. SelfIssueLimited' /\ CountStands' /\ OneCounts'
  BY <1>2, <1>4, <1>5, LimitsKeep DEF NoRequest
<1>9. OneHolder'
  BY <1>5 DEF AccessInv, OneHolder, HoldsRow, NoRequest
<1>10. RotationStands'
  BY <1>1, <1>2, <1>4, <1>5, IssuingShapes
  DEF AccessInv, OneHolder, HoldsRow, RotationStands, NoRequest
<1>11. RevokedHoldNothing' /\ OneTokenPerKey'
  BY <1>1, <1>2, <1>3, <1>4, RowShapes DEF AccessInv, RevokedHoldNothing, OneTokenPerKey
<1> QED
  BY <1>6, <1>7, <1>8, <1>9, <1>10, <1>11 DEF AccessInv

\* A rotation inserts under the locks of its principal and of its key.
LEMMA IssueTokenStep ==
    ASSUME AccessInv, NEW h \in Handlers, IssueToken(h)
    PROVE  AccessInv'
<1> DEFINE q == issuing[h].principal
           k == issuing[h].key
           n == Len(tokens) + 1
           event == [event |-> "ISSUED", token |-> n]
<1>1. /\ q \in DOMAIN principals /\ k \in IssueKeys /\ HoldsRow(h) /\ k # None
      /\ issuing[h].stage = "rotating" /\ principals[q].status = "ACTIVE"
      /\ credentialKeys[k] = None /\ clock \in Nat /\ n \in Nat /\ n \notin DOMAIN tokens
  BY IssuingShapes, NoneIsNoKey
  DEF AccessInv, AccessTypeOK, IssueToken, HoldsRow, RotationStands
<1>2. /\ clock' = clock /\ principals' = principals
      /\ tokens' = Append(tokens, NewToken(q, clock, k))
      /\ issuing' = [issuing EXCEPT ![h] = NoRequest]
      /\ credentialKeys' = [credentialKeys EXCEPT ![k] = event]
  BY DEF IssueToken
<1>3. \A g \in Handlers : issuing'[g] = IF g = h THEN NoRequest ELSE issuing[g]
  BY <1>2 DEF AccessInv, AccessTypeOK
<1>4. /\ DOMAIN tokens' = DOMAIN tokens \cup {n}
      /\ \A t \in DOMAIN tokens : tokens'[t] = tokens[t]
      /\ tokens'[n] = NewToken(q, clock, k)
  BY <1>2 DEF AccessInv, AccessTypeOK
<1>5. \A l \in IssueKeys : credentialKeys'[l] = IF l = k THEN event ELSE credentialKeys[l]
  BY <1>2 DEF AccessInv, AccessTypeOK
<1>6. AccessTypeOK'
  <2>1. NewToken(q, clock, k) \in TokenRow'
    BY <1>1, <1>2, PolicyBounds DEF NewToken, TokenRow
  <2>2. tokens \in Seq(TokenRow') /\ issuing \in [Handlers -> IssueRequest']
        /\ credentialKeys \in [IssueKeys -> {None} \cup
                  [event : {"ISSUED", "REVOKED"}, token : DOMAIN tokens']]
    BY <1>1, <1>2, <1>4, RowsKeepTypes DEF AccessInv
  <2>3. NoRequest \in IssueRequest' /\ event \in [event : {"ISSUED", "REVOKED"}, token : DOMAIN tokens']
    BY <1>4 DEF IssueRequest
  <2> HIDE DEF event
  <2> QED
    BY <1>1, <1>2, <2>1, <2>2, <2>3 DEF AccessInv, AccessTypeOK
<1>7. CreatedByNow' /\ SelfIssueLimited' /\ CountStands' /\ OneCounts'
  BY <1>2, <1>3, LimitsKeep DEF AccessInv, CreatedByNow, NoRequest
<1>8. OneHolder'
  BY <1>3 DEF AccessInv, OneHolder, HoldsRow, NoRequest
<1>9. RotationStands'
  <2> SUFFICES ASSUME NEW g \in Handlers, issuing'[g].stage = "rotating"
               PROVE  /\ principals[issuing'[g].principal].status = "ACTIVE"
                      /\ credentialKeys'[issuing'[g].key] = None
    BY <1>2 DEF RotationStands
  <2>1. g # h /\ issuing'[g] = issuing[g] /\ issuing[g].key \in IssueKeys
    BY <1>3, IssuingShapes DEF AccessInv, NoRequest
  <2>2. issuing[g].key # k
    BY <1>1, <2>1 DEF AccessInv, OneHolder
  <2> QED
    BY <1>5, <2>1, <2>2 DEF AccessInv, RotationStands
<1>10. RevokedHoldNothing'
  BY <1>1, <1>2, <1>4 DEF AccessInv, RevokedHoldNothing, NewToken
<1>11. OneTokenPerKey'
  <2> SUFFICES ASSUME NEW t \in DOMAIN tokens', tokens'[t].key # None
               PROVE  credentialKeys'[tokens'[t].key] = [event |-> "ISSUED", token |-> t]
    BY DEF OneTokenPerKey
  <2>1. CASE t = n
    BY <1>1, <1>4, <1>5, <2>1 DEF NewToken
  <2>2. CASE t \in DOMAIN tokens
    <3>1. credentialKeys[tokens[t].key] = [event |-> "ISSUED", token |-> t]
      BY <1>4, <2>2 DEF AccessInv, OneTokenPerKey
    <3>2. tokens[t].key \in IssueKeys
      BY <1>4, <2>2, RowShapes DEF AccessInv, TokenRow
    <3>3. credentialKeys[tokens[t].key] # None
      BY <2>2, <3>1, <1>4, NoneIsNoCredential DEF AccessInv, AccessTypeOK
    <3>4. tokens[t].key # k
      BY <1>1, <3>3
    <3> QED
      BY <1>4, <1>5, <2>2, <3>1, <3>2, <3>4
  <2> QED
    BY <1>4, <2>1, <2>2
<1> QED
  BY <1>6, <1>7, <1>8, <1>9, <1>10, <1>11 DEF AccessInv

\* A token is revoked under the lock of the request's key, which has no event yet.
LEMMA RevokeTokenStep ==
    ASSUME AccessInv, NEW t \in DOMAIN tokens, NEW k \in IssueKeys, RevokeToken(t, k)
    PROVE  AccessInv'
<1> DEFINE event == [event |-> "REVOKED", token |-> t]
<1>1. /\ clock' = clock /\ principals' = principals /\ issuing' = issuing
      /\ tokens' = [tokens EXCEPT ![t].revoked = TRUE]
      /\ credentialKeys[k] = None /\ KeyFree(k)
      /\ credentialKeys' = [credentialKeys EXCEPT ![k] = event]
  BY DEF RevokeToken
<1>2. /\ DOMAIN tokens' = DOMAIN tokens
      /\ \A u \in DOMAIN tokens :
             /\ tokens'[u].principal = tokens[u].principal /\ tokens'[u].key = tokens[u].key
             /\ tokens[u].revoked => tokens'[u].revoked
      /\ tokens' \in Seq(TokenRow)
  <2>1. [tokens[t] EXCEPT !.revoked = TRUE] \in TokenRow /\ tokens[t] \in TokenRow
    BY RowShapes DEF AccessInv, TokenRow
  <2>2. tokens' = [tokens EXCEPT ![t] = [tokens[t] EXCEPT !.revoked = TRUE]]
    BY <1>1
  <2> QED
    BY <2>1, <2>2, SMTT(30) DEF AccessInv, AccessTypeOK, TokenRow
<1>3. \A l \in IssueKeys : credentialKeys'[l] = IF l = k THEN event ELSE credentialKeys[l]
  BY <1>1 DEF AccessInv, AccessTypeOK
<1>4. AccessTypeOK'
  <2>1. TokenRow' = TokenRow /\ IssueRequest' = IssueRequest
    BY <1>1 DEF TokenRow, IssueRequest
  <2>2. event \in [event : {"ISSUED", "REVOKED"}, token : DOMAIN tokens]
    OBVIOUS
  <2> HIDE DEF event
  <2> QED
    BY <1>1, <1>2, <2>1, <2>2 DEF AccessInv, AccessTypeOK
<1>5. CreatedByNow' /\ SelfIssueLimited' /\ CountStands' /\ OneCounts'
  BY <1>1, LimitsKeep DEF AccessInv, CreatedByNow
<1>6. OneHolder' /\ RotationStands'
  BY <1>1, <1>3, IssuingShapes
  DEF AccessInv, OneHolder, HoldsRow, RotationStands, KeyFree
<1>7. RevokedHoldNothing'
  BY <1>1, <1>2 DEF AccessInv, RevokedHoldNothing
<1>8. OneTokenPerKey'
  <2> SUFFICES ASSUME NEW u \in DOMAIN tokens, tokens[u].key # None
               PROVE  credentialKeys'[tokens[u].key] = [event |-> "ISSUED", token |-> u]
    BY <1>2 DEF OneTokenPerKey
  <2>1. credentialKeys[tokens[u].key] = [event |-> "ISSUED", token |-> u]
    BY DEF AccessInv, OneTokenPerKey
  <2>2. tokens[u].key \in IssueKeys
    BY RowShapes DEF AccessInv, TokenRow
  <2>3. tokens[u].key # k
    BY <1>1, <2>1, NoneIsNoCredential DEF AccessInv, AccessTypeOK
  <2> QED
    BY <1>3, <2>1, <2>2, <2>3
<1> QED
  BY <1>4, <1>5, <1>6, <1>7, <1>8 DEF AccessInv

\* Requests of the bootstrap routes and of self-issue keep the invariant in any order.
LEMMA AccessInvariant == AccessSpec => []AccessInv
<1>1. AccessInit => AccessInv
  <2> SUFFICES ASSUME AccessInit PROVE AccessInv
    OBVIOUS
  <2>1. AccessTypeOK
    BY DEF AccessInit, AccessTypeOK, IssueRequest
  <2>2. SelfIssueLimited
    <3> SUFFICES ASSUME NEW s \in Sources, NEW c \in ChecksOf(s), NEW x \in 0..clock
                 PROVE  Cardinality(CreatedIn(c, x)) <= c.limit
      BY DEF SelfIssueLimited
    <3>1. CreatedIn(c, x) = {}
      BY DEF AccessInit, CreatedIn, Usage
    <3> QED
      BY <3>1, CheckShape, FS_EmptySet
  <2> QED
    BY <2>1, <2>2
    DEF AccessInit, AccessInv, CreatedByNow, OneCounts, CountStands, OneHolder, HoldsRow,
        RotationStands, RevokedHoldNothing, OneTokenPerKey, NoRequest
<1>2. AccessInv /\ [AccessNext]_accessVars => AccessInv'
  <2> SUFFICES ASSUME AccessInv, [AccessNext]_accessVars PROVE AccessInv'
    OBVIOUS
  <2>1. CASE UNCHANGED accessVars
    <3>1. TokenRow' = TokenRow /\ IssueRequest' = IssueRequest
      BY <2>1 DEF accessVars, TokenRow, IssueRequest
    <3>2. AccessTypeOK'
      BY <2>1, <3>1 DEF accessVars, AccessInv, AccessTypeOK
    <3>3. SelfIssueLimited' /\ CountStands' /\ OneCounts' /\ OneHolder' /\ RotationStands'
      BY <2>1, LimitsKeep, LocksKeep DEF accessVars
    <3> QED
      BY <2>1, <3>2, <3>3
      DEF accessVars, AccessInv, CreatedByNow, RevokedHoldNothing, OneTokenPerKey
  <2> QED
    BY <2>1, TickStep, RequestStep, CountUsageStep, SelfIssueStep, CreatePrincipalStep,
       BeginRevokeStep, RevokePrincipalStep, BeginRotateStep, IssueTokenStep,
       RevokeTokenStep DEF AccessNext
<1> QED
  BY <1>1, <1>2, PTL DEF AccessSpec

\* A set of numbers has its smallest.
LEMMA SmallestIsIn ==
    ASSUME NEW S \in SUBSET Nat, S # {}
    PROVE  SmallestOf(S) \in S /\ \A y \in S : SmallestOf(S) <= y
<1> DEFINE Below == {ss \in Nat \X Nat : ss[1] < ss[2]}
<1>1. OpToRel(<, Nat) = Below
  BY DEF OpToRel
<1>2. IsWellFoundedOn(Below, Nat)
  BY <1>1, NatLessThanWellFounded
<1>3. \E x \in S : \A y \in S : ~(<<y, x>> \in Below)
  <2> HIDE DEF Below
  <2> QED
    BY <1>2, WFMin
<1>4. PICK x \in S : \A y \in S : ~(<<y, x>> \in Below)
  BY <1>3
<1>5. \A y \in S : x <= y
  <2> TAKE y \in S
  <2>1. x \in Nat /\ y \in Nat
    OBVIOUS
  <2>2. ~(y < x)
    BY <1>4, <2>1
  <2> QED
    BY <2>1, <2>2
<1>6. \E z \in S : \A y \in S : z <= y
  BY <1>5
<1> QED
  BY <1>6 DEF SmallestOf

\* Who waits as long as a refusal says finds that the oldest of those counted is no
\* longer in the window; and they were as many as the limit, no more.
LEMMA WaitingSuffices == AccessInv => RetryAfterSuffices
<1> SUFFICES ASSUME AccessInv, NEW s \in Sources, NEW c \in ChecksOf(s),
                    ~WithinLimit(clock, c)
             PROVE  WithinLimit(clock + RetryAfter(clock, c), c)
  BY DEF RetryAfterSuffices
<1> DEFINE U == Usage(clock, c)
           ages == {principals[p].created : p \in U}
           then == clock + RetryAfter(clock, c)
           V == Usage(then, c)
<1>1. clock \in Nat /\ c.window \in Nat \ {0} /\ c.limit \in Nat \ {0}
  BY CheckShape DEF AccessInv, AccessTypeOK
<1>2. \A p \in U : p \in DOMAIN principals /\ principals[p].created \in Nat
  BY RowShapes DEF AccessInv, Usage
<1>3. IsFiniteSet(U) /\ Cardinality(U) \in Nat /\ Cardinality(U) >= c.limit
  BY <1>1, UsageFinite DEF AccessInv, WithinLimit
<1>4. Cardinality(U) <= c.limit
  <2>1. U = CreatedIn(c, clock)
    BY DEF AccessInv, CreatedByNow, CreatedIn, Usage
  <2> QED
    BY <1>1, <2>1 DEF AccessInv, SelfIssueLimited
<1>5. U # {}
  BY <1>1, <1>3, FS_EmptySet
<1>6. ages \in SUBSET Nat /\ ages # {}
  BY <1>2, <1>5
<1>7. PICK p \in U : principals[p].created = SmallestOf(ages)
  BY <1>6, SmallestIsIn
<1>8. then \in Nat /\ then >= principals[p].created + c.window /\ then >= clock
  <2>1. SmallestOf(ages) \in Nat
    BY <1>6, SmallestIsIn
  <2> QED
    BY <1>1, <1>7, <2>1 DEF RetryAfter
<1>9. V \subseteq U \ {p}
  <2> HIDE DEF then
  <2> QED
    BY <1>1, <1>2, <1>8, RowShapes DEF AccessInv, Usage
<1>10. Cardinality(V) < Cardinality(U)
  <2>1. IsFiniteSet(U \ {p}) /\ Cardinality(U \ {p}) = Cardinality(U) - 1
    BY <1>3, FS_RemoveElement
  <2>2. Cardinality(V) <= Cardinality(U \ {p})
    BY <1>9, <2>1, FS_Subset
  <2>3. Cardinality(V) \in Nat
    BY <1>9, <2>1, FS_Subset, FS_CardinalityType
  <2> QED
    BY <1>3, <2>1, <2>2, <2>3
<1>11. Cardinality(V) < c.limit
  BY <1>1, <1>3, <1>4, <1>10, UsageFinite DEF AccessInv
<1> QED
  BY <1>11 DEF WithinLimit

\* Whatever requests overlap, self-issue keeps to its limits and says truly how long to
\* wait, a key has one token and a revoked principal none.
THEOREM AccessIsSafe == AccessSpec => []AccessSafe
<1>1. AccessInv => AccessSafe
  BY WaitingSuffices DEF AccessInv, AccessSafe
<1> QED
  BY <1>1, AccessInvariant, PTL

-----------------------------------------------------------------------------
(***************************************************************************)
(* Ownership: artifacts declared, reconciled and succeeded by any number   *)
(* of handlers at once.                                                    *)
(***************************************************************************)
ValidPlan == [mode : {"IN_PLACE", "SUCCESSOR"}, artifact : DOMAIN artifacts,
              version : Nat, desired : SUBSET TargetPages]

\* What a handler's record may be.
OwningStates ==
    {NotOwning}
    \cup [stage : {"reconciling"}, artifact : DOMAIN artifacts,
          desired : SUBSET TargetPages, key : {None}]
    \cup [stage : {"succeeding"}, artifact : DOMAIN artifacts,
          desired : SUBSET TargetPages, key : DeclareKeys]
    \cup [stage : {"publishing"}, by : Automata \cup {Person}, page : TargetPages,
          to : {"active", "archived"}, plan : {None} \cup ValidPlan]

Rewriting(h) == owning[h].stage \in {"reconciling", "succeeding"}

TablesTyped ==
    /\ artifacts \in Seq(ArtifactRow)
    /\ targets \in [TargetPages -> DOMAIN artifacts \cup {None}]
    /\ targetPages \in [TargetPages -> PageRow]
    /\ active \subseteq Automata
    /\ custody \in Seq(SUBSET Automata) /\ Len(custody) = Len(artifacts)
    /\ declareReceipts \subseteq Automata \X DeclareKeys

\* Who has declared an artifact is among its custodians, who are finitely many.
CustodianNamed ==
    \A a \in DOMAIN artifacts :
        IsFiniteSet(custody[a]) /\ artifacts[a].declaredBy \in custody[a]

\* A key under which its custodian has declared an artifact has its receipt,
\* unless another principal had declared it.
KeyHasReceipt ==
    \A a \in DOMAIN artifacts :
        artifacts[a].requestKey # None =>
            \/ <<artifacts[a].declaredBy, artifacts[a].requestKey>> \in declareReceipts
            \/ Reassigned(a)

PredecessorsRetired ==
    \A a \in DOMAIN artifacts :
        artifacts[a].predecessor # None => ~Declared(artifacts[a].predecessor)

\* What holds of the tables alone.
OwnTables ==
    /\ TablesTyped /\ OneDeclarationPerKey /\ OwnedIsGenerated /\ RetiredOwnsNothing
    /\ ContractSurvives /\ CustodianNamed /\ KeyHasReceipt /\ PredecessorsRetired

\* An artifact's row has one holder, and finds it declared until the commit.
OneWriter ==
    \A g, h \in Handlers :
        Rewriting(g) /\ Rewriting(h) /\ owning[g].artifact = owning[h].artifact => g = h
WriterStands == \A h \in Handlers : Rewriting(h) => Declared(owning[h].artifact)

\* The locks of all pages have one holder.
OnePublisher ==
    \A g, h \in Handlers :
        owning[g].stage = "publishing" /\ owning[h].stage = "publishing" => g = h

OwnHandlers ==
    /\ owning \in [Handlers -> OwningStates]
    /\ OneWriter /\ WriterStands /\ OnePublisher /\ GeneratedWrittenByCustodian

OwnInv == OwnTables /\ OwnHandlers

-----------------------------------------------------------------------------
\* The fields of the rows, and that None is none of them.
LEMMA ArtifactShapes ==
    ASSUME TablesTyped
    PROVE  /\ DOMAIN artifacts = 1..Len(artifacts) /\ Len(artifacts) \in Nat
           /\ DOMAIN custody = DOMAIN artifacts
           /\ None \notin DOMAIN artifacts /\ None \notin Automata /\ None \notin DeclareKeys
           /\ \A a \in DOMAIN artifacts : artifacts[a] \in ArtifactRow
           /\ \A p \in TargetPages : targets[p] \in DOMAIN artifacts \cup {None}
<1>1. DOMAIN artifacts = 1..Len(artifacts) /\ Len(artifacts) \in Nat
      /\ DOMAIN custody = 1..Len(custody)
  BY DEF TablesTyped
<1>2. \A a \in DOMAIN artifacts : artifacts[a] \in ArtifactRow
  BY <1>1 DEF TablesTyped
<1> QED
  BY <1>1, <1>2, NoneIsNoAutomaton DEF TablesTyped

\* The fields of a handler's record at each of its stages.
LEMMA OwningShapes ==
    ASSUME owning \in [Handlers -> OwningStates], NEW h \in Handlers
    PROVE  /\ owning[h].stage \in {"idle", "reconciling", "succeeding", "publishing"}
           /\ Rewriting(h) => /\ owning[h].artifact \in DOMAIN artifacts
                              /\ owning[h].desired \in SUBSET TargetPages
           /\ owning[h].stage = "succeeding" => owning[h].key \in DeclareKeys
           /\ owning[h].stage = "publishing" =>
                  /\ owning[h].by \in Automata \cup {Person} /\ owning[h].page \in TargetPages
                  /\ owning[h].to \in {"active", "archived"}
                  /\ owning[h].plan \in {None} \cup ValidPlan
BY DEF OwningStates, NotOwning, Rewriting

\* Who once was reassigned stays so.
LEMMA ReassignedGrows ==
    ASSUME NEW a, custody[a] \subseteq custody'[a], IsFiniteSet(custody'[a])
    PROVE  Reassigned(a) => Reassigned(a)'
BY FS_Subset, FS_CardinalityType DEF Reassigned

\* Two custodians make a reassignment.
LEMMA TwoAreReassigned ==
    ASSUME NEW S, IsFiniteSet(S), NEW x \in S, NEW y \in S, x # y
    PROVE  Cardinality(S) > 1
<1>1. IsFiniteSet({x}) /\ Cardinality({x}) = 1
  BY FS_Singleton
<1>2. IsFiniteSet({x, y}) /\ Cardinality({x, y}) = 2
  <2>1. {x, y} = {x} \cup {y} /\ y \notin {x}
    OBVIOUS
  <2> QED
    BY <1>1, <2>1, FS_AddElement
<1> QED
  BY <1>2, FS_Subset, FS_CardinalityType

\* The line of an artifact is that of its table: nothing leaves it when rows are
\* added and predecessors stay.
LEMMA LineGrows ==
    ASSUME NEW a \in DOMAIN artifacts, NEW b \in Line(a),
           DOMAIN artifacts \subseteq DOMAIN artifacts',
           \A c \in DOMAIN artifacts : artifacts'[c].predecessor = artifacts[c].predecessor,
           \A c \in DOMAIN artifacts : artifacts[c].predecessor \in DOMAIN artifacts \cup {None}
    PROVE  b \in Line(a)'
<1>1. SUFFICES ASSUME NEW S \in SUBSET DOMAIN artifacts', a \in S,
                      \A c \in S : artifacts'[c].predecessor # None
                                   => artifacts'[c].predecessor \in S
               PROVE  b \in S
  BY DEF Line
<1> DEFINE R == S \cap DOMAIN artifacts
<1>2. R \in SUBSET DOMAIN artifacts /\ a \in R
  BY <1>1
<1>3. \A c \in R : artifacts[c].predecessor # None => artifacts[c].predecessor \in R
  BY <1>1
<1>4. b \in R
  BY <1>2, <1>3 DEF Line
<1> QED
  BY <1>4

\* An artifact that succeeds another has the line of that one.
LEMMA LineOfSuccessor ==
    ASSUME NEW a \in DOMAIN artifacts, NEW n \in DOMAIN artifacts,
           artifacts[n].predecessor = a, a # None, NEW b \in Line(a)
    PROVE  b \in Line(n)
BY DEF Line

\* Every artifact is of its own line.
LEMMA LineOfItself == \A a \in DOMAIN artifacts : a \in Line(a)
BY DEF Line

-----------------------------------------------------------------------------
(***************************************************************************)
(* What the transactions leave in the tables.                              *)
(***************************************************************************)
\* The row of an artifact that retires.
LEMMA RetiredRow ==
    ASSUME NEW r \in ArtifactRow
    PROVE  LET w == [r EXCEPT !.status = "RETIRED", !.version = r.version + 1]
           IN  /\ w \in ArtifactRow /\ w.status = "RETIRED" /\ w.key = r.key
               /\ w.declaredBy = r.declaredBy /\ w.requestKey = r.requestKey
               /\ w.contract = r.contract /\ w.predecessor = r.predecessor
<1>1. r.version + 1 \in Nat \ {0}
  BY DEF ArtifactRow
<1>2. ASSUME NEW v \in Nat \ {0}
      PROVE  LET w == [r EXCEPT !.status = "RETIRED", !.version = v]
             IN  /\ w \in ArtifactRow /\ w.status = "RETIRED" /\ w.key = r.key
                 /\ w.declaredBy = r.declaredBy /\ w.requestKey = r.requestKey
                 /\ w.contract = r.contract /\ w.predecessor = r.predecessor
  BY DEF ArtifactRow
<1> QED
  BY <1>1, <1>2

\* A target row names an artifact or none.
LEMMA RetargetRows ==
    ASSUME TablesTyped, NEW a \in DOMAIN artifacts, NEW b, NEW D \in SUBSET TargetPages
    PROVE  /\ Retarget(a, b, D) \in [TargetPages -> DOMAIN artifacts \cup {None, b}]
           /\ \A p \in TargetPages :
                  Retarget(a, b, D)[p] = IF p \in D THEN b
                                         ELSE IF targets[p] = a THEN None ELSE targets[p]
BY ArtifactShapes DEF Retarget

\* A succession retires its artifact and adds one of the same key, owner and contract.
LEMMA SucceedRows ==
    ASSUME OwnTables, NEW a \in DOMAIN artifacts, NEW D \in SUBSET TargetPages,
           NEW k \in DeclareKeys \cup {None}, Succeed(a, D, k)
    PROVE  LET n == Len(artifacts) + 1
           IN  /\ n \in Nat /\ n \notin DOMAIN artifacts /\ n # None
               /\ DOMAIN artifacts' = DOMAIN artifacts \cup {n}
               /\ \A b \in DOMAIN artifacts \ {a} : artifacts'[b] = artifacts[b]
               /\ artifacts'[a].status = "RETIRED"
               /\ artifacts'[n].status = artifacts[a].status
               /\ artifacts'[a].requestKey = artifacts[a].requestKey
               /\ artifacts'[n].requestKey = k
               /\ artifacts'[a].predecessor = artifacts[a].predecessor
               /\ artifacts'[n].predecessor = a
               /\ \A b \in {a, n} : /\ artifacts'[b].key = artifacts[a].key
                                    /\ artifacts'[b].declaredBy = artifacts[a].declaredBy
                                    /\ artifacts'[b].contract = artifacts[a].contract
               /\ artifacts' \in Seq(ArtifactRow')
               /\ custody' \in Seq(SUBSET Automata) /\ Len(custody') = Len(artifacts')
               /\ \A b \in DOMAIN artifacts : custody'[b] = custody[b]
               /\ custody'[n] = {artifacts[a].declaredBy}
               /\ targets' = Retarget(a, n, D)
<1> DEFINE n == Len(artifacts) + 1
           r == artifacts[a]
           retired == [r EXCEPT !.status = "RETIRED", !.version = r.version + 1]
           row == [r EXCEPT !.requestKey = k, !.version = 1, !.predecessor = a]
           kept == [artifacts EXCEPT ![a] = retired]
<1>1. TablesTyped
  BY DEF OwnTables
<1>2. DOMAIN artifacts = 1..Len(artifacts) /\ Len(artifacts) \in Nat /\ n \in Nat
      /\ n \notin DOMAIN artifacts /\ n # None
  BY <1>1, ArtifactShapes, NoneIsNoAutomaton
<1>4. r \in ArtifactRow
  BY <1>1, ArtifactShapes
<1>3. /\ artifacts' = Append(kept, row) /\ targets' = Retarget(a, n, D)
      /\ custody' = Append(custody, {row.declaredBy})
  <2>1. [artifacts EXCEPT ![a].status = "RETIRED", ![a].version = @ + 1] = kept
    BY <1>1, ArtifactShapes
  <2> QED
    BY <2>1 DEF Succeed
<1>5. /\ retired \in ArtifactRow /\ retired.status = "RETIRED" /\ retired.key = r.key
      /\ retired.declaredBy = r.declaredBy /\ retired.requestKey = r.requestKey
      /\ retired.contract = r.contract /\ retired.predecessor = r.predecessor
  <2> HIDE DEF r
  <2> QED
    BY <1>4, RetiredRow
<1>11. /\ row \in ArtifactRow /\ row.status = r.status /\ row.key = r.key
       /\ row.declaredBy = r.declaredBy /\ row.requestKey = k
       /\ row.contract = r.contract /\ row.predecessor = a
  <2>1. ASSUME NEW q \in ArtifactRow, NEW v \in Nat \ {0}
        PROVE  LET w == [q EXCEPT !.requestKey = k, !.version = v, !.predecessor = a]
               IN  /\ w \in ArtifactRow /\ w.status = q.status /\ w.key = q.key
                   /\ w.declaredBy = q.declaredBy /\ w.requestKey = k
                   /\ w.contract = q.contract /\ w.predecessor = a
    BY DEF ArtifactRow
  <2>2. 1 \in Nat \ {0}
    OBVIOUS
  <2> QED
    BY <1>4, <2>1, <2>2
<1>12. row.declaredBy \in Automata
  BY <1>11 DEF ArtifactRow
<1> HIDE DEF retired, row
<1>6. kept \in Seq(ArtifactRow) /\ Len(kept) = Len(artifacts)
      /\ \A b \in DOMAIN artifacts : kept[b] = IF b = a THEN retired ELSE artifacts[b]
  BY <1>1, <1>2, <1>5 DEF TablesTyped
<1> HIDE DEF kept
<1>7. /\ artifacts' \in Seq(ArtifactRow) /\ DOMAIN artifacts' = DOMAIN artifacts \cup {n}
      /\ \A b \in DOMAIN artifacts : artifacts'[b] = kept[b]
      /\ artifacts'[n] = row /\ Len(artifacts') = n
  BY <1>2, <1>3, <1>6, <1>11
<1>8. ArtifactRow \subseteq ArtifactRow'
  BY <1>7 DEF ArtifactRow
<1>9. artifacts' \in Seq(ArtifactRow')
  BY <1>7, <1>8
<1>10. /\ custody' \in Seq(SUBSET Automata) /\ Len(custody') = Len(artifacts')
       /\ \A b \in DOMAIN artifacts : custody'[b] = custody[b]
       /\ custody'[n] = {artifacts[a].declaredBy}
  BY <1>1, <1>2, <1>3, <1>7, <1>11, <1>12 DEF TablesTyped
<1> QED
  BY <1>2, <1>3, <1>5, <1>6, <1>7, <1>9, <1>10, <1>11

\* A succession keeps what is said of the tables.
LEMMA SucceedTables ==
    ASSUME OwnTables, NEW a \in DOMAIN artifacts, NEW D \in SUBSET TargetPages,
           NEW k \in DeclareKeys \cup {None}, Succeed(a, D, k), Declared(a),
           active' \subseteq Automata,
           declareReceipts \subseteq declareReceipts',
           declareReceipts' \subseteq Automata \X DeclareKeys,
           k # None => <<artifacts[a].declaredBy, k>> \in declareReceipts',
           targetPages' \in [TargetPages -> PageRow],
           \A p \in TargetPages : Generated(p) \/ p \in D \ TargetsOf(a)
                                  => targetPages'[p].generated
    PROVE  OwnTables'
<1> DEFINE n == Len(artifacts) + 1
<1>1. /\ n \in Nat /\ n \notin DOMAIN artifacts /\ n # None
      /\ DOMAIN artifacts' = DOMAIN artifacts \cup {n}
      /\ \A b \in DOMAIN artifacts \ {a} : artifacts'[b] = artifacts[b]
      /\ artifacts' \in Seq(ArtifactRow')
      /\ custody' \in Seq(SUBSET Automata) /\ Len(custody') = Len(artifacts')
      /\ \A b \in DOMAIN artifacts : custody'[b] = custody[b]
      /\ custody'[n] = {artifacts[a].declaredBy}
      /\ targets' = Retarget(a, n, D)
  BY SucceedRows
<1>2. /\ artifacts[a] \in ArtifactRow /\ None \notin Automata /\ None \notin DeclareKeys
      /\ \A p \in TargetPages : targets[p] \in DOMAIN artifacts \cup {None}
  BY ArtifactShapes DEF OwnTables
<1>3. /\ artifacts'[a].key = artifacts[a].key /\ artifacts'[a].status = "RETIRED"
      /\ artifacts'[a].declaredBy = artifacts[a].declaredBy
      /\ artifacts'[a].requestKey = artifacts[a].requestKey
      /\ artifacts'[a].contract = artifacts[a].contract
      /\ artifacts'[a].predecessor = artifacts[a].predecessor
  BY SucceedRows
<1>4. /\ artifacts'[n].key = artifacts[a].key /\ artifacts'[n].status = "DECLARED"
      /\ artifacts'[n].declaredBy = artifacts[a].declaredBy
      /\ artifacts'[n].requestKey = k
      /\ artifacts'[n].contract = artifacts[a].contract
      /\ artifacts'[n].predecessor = a
  <2>1. artifacts'[n].status = artifacts[a].status
        /\ artifacts'[n].requestKey = k /\ artifacts'[n].predecessor = a
    BY SucceedRows, ZenonT(60)
  <2>2. \A b \in {a, n} : /\ artifacts'[b].key = artifacts[a].key
                          /\ artifacts'[b].declaredBy = artifacts[a].declaredBy
                          /\ artifacts'[b].contract = artifacts[a].contract
    BY SucceedRows
  <2> QED
    BY <2>1, <2>2 DEF Declared
<1>5. /\ targets' \in [TargetPages -> DOMAIN artifacts' \cup {None}]
      /\ \A p \in TargetPages : targets'[p] = IF p \in D THEN n
                                     ELSE IF targets[p] = a THEN None ELSE targets[p]
  BY <1>1, RetargetRows DEF OwnTables
<1>6. \A b \in DOMAIN artifacts : Reassigned(b)' <=> Reassigned(b)
  BY <1>1 DEF Reassigned
<1>7. TablesTyped'
  BY <1>1, <1>5 DEF TablesTyped
<1>8. OneDeclarationPerKey'
  BY <1>1, <1>3, <1>4, SMTT(30) DEF OwnTables, OneDeclarationPerKey, Declared
<1>9. OwnedIsGenerated'
  <2>1. SUFFICES ASSUME NEW p \in TargetPages, targets'[p] # None
                 PROVE  targetPages'[p].generated
    BY DEF OwnedIsGenerated, Generated
  <2>2. targets[p] # None => Generated(p)
    BY DEF OwnTables, OwnedIsGenerated
  <2>3. CASE p \in D
    <3>1. p \in TargetsOf(a) => targets[p] # None
      BY ArtifactShapes DEF OwnTables, TargetsOf
    <3> QED
      BY <2>2, <2>3, <3>1
  <2>4. CASE p \notin D
    BY <1>5, <2>1, <2>2, <2>4
  <2> QED
    BY <2>3, <2>4
<1>10. RetiredOwnsNothing'
  BY <1>1, <1>2, <1>4, <1>5, <1>6 DEF OwnTables, RetiredOwnsNothing, Declared
<1>11. ContractSurvives'
  <2> SUFFICES ASSUME NEW b \in DOMAIN artifacts', NEW c, c = artifacts'[b].predecessor,
                      c # None, ~Reassigned(c)', artifacts'[c].contract # {}
               PROVE  artifacts'[b].contract # {}
    BY DEF ContractSurvives, Reassigned
  <2>1. CASE b = n
    BY <1>3, <1>4, <2>1
  <2>2. CASE b \in DOMAIN artifacts
    <3>1. c = artifacts[b].predecessor /\ artifacts'[b].contract = artifacts[b].contract
      BY <1>1, <1>3, <2>2
    <3>2. c \in DOMAIN artifacts
      BY <2>2, <3>1, ArtifactShapes DEF OwnTables, ArtifactRow
    <3>3. artifacts'[c].contract = artifacts[c].contract
      BY <1>1, <1>3, <3>2
    <3> QED
      BY <1>6, <2>2, <3>1, <3>2, <3>3 DEF OwnTables, ContractSurvives
  <2> QED
    BY <1>1, <2>1, <2>2
<1>12. CustodianNamed'
  <2> SUFFICES ASSUME NEW b \in DOMAIN artifacts'
               PROVE  IsFiniteSet(custody'[b]) /\ artifacts'[b].declaredBy \in custody'[b]
    BY DEF CustodianNamed
  <2>1. CASE b = n
    <3>1. IsFiniteSet({artifacts[a].declaredBy})
      BY FS_Singleton
    <3> QED
      BY <1>1, <1>4, <2>1, <3>1
  <2>2. CASE b \in DOMAIN artifacts
    <3>1. artifacts'[b].declaredBy = artifacts[b].declaredBy /\ custody'[b] = custody[b]
      BY <1>1, <1>3, <2>2
    <3> QED
      BY <2>2, <3>1 DEF OwnTables, CustodianNamed
  <2> QED
    BY <1>1, <2>1, <2>2
<1>13. KeyHasReceipt'
  <2> SUFFICES ASSUME NEW b \in DOMAIN artifacts', artifacts'[b].requestKey # None
               PROVE  \/ <<artifacts'[b].declaredBy, artifacts'[b].requestKey>> \in declareReceipts'
                      \/ Reassigned(b)'
    BY DEF KeyHasReceipt
  <2>1. CASE b = n
    BY <1>4, <2>1
  <2>2. CASE b \in DOMAIN artifacts
    <3>1. artifacts'[b].declaredBy = artifacts[b].declaredBy
          /\ artifacts'[b].requestKey = artifacts[b].requestKey
      BY <1>1, <1>3, <2>2
    <3> QED
      BY <1>6, <2>2, <3>1 DEF OwnTables, KeyHasReceipt
  <2> QED
    BY <1>1, <2>1, <2>2
<1>14. PredecessorsRetired'
  <2> SUFFICES ASSUME NEW b \in DOMAIN artifacts', artifacts'[b].predecessor # None
               PROVE  artifacts'[artifacts'[b].predecessor].status # "DECLARED"
    BY DEF PredecessorsRetired, Declared
  <2>1. CASE b = n
    BY <1>3, <1>4, <2>1
  <2>2. CASE b \in DOMAIN artifacts
    <3>1. artifacts'[b].predecessor = artifacts[b].predecessor
      BY <1>1, <1>3, <2>2
    <3>2. artifacts[b].predecessor \in DOMAIN artifacts
      BY <2>2, <3>1, ArtifactShapes DEF OwnTables, ArtifactRow
    <3> QED
      BY <1>1, <1>3, <2>2, <3>1, <3>2 DEF OwnTables, PredecessorsRetired, Declared
  <2> QED
    BY <1>1, <2>1, <2>2
<1> QED
  BY <1>7, <1>8, <1>9, <1>10, <1>11, <1>12, <1>13, <1>14 DEF OwnTables

\* Rows of one artifact change, and with them perhaps its target rows: its key, the
\* key of its request and what it succeeds stay, a retired one is not declared again, a
\* contract is not taken away, one that is retired changes neither contract nor owner unless
\* it was reassigned, and a principal that takes custody is named for it.
LEMMA RowTables ==
    ASSUME OwnTables, NEW a \in DOMAIN artifacts, NEW row \in ArtifactRow,
           artifacts' = [artifacts EXCEPT ![a] = row],
           row.key = artifacts[a].key, row.requestKey = artifacts[a].requestKey,
           row.predecessor = artifacts[a].predecessor,
           row.status = "DECLARED" => Declared(a),
           artifacts[a].contract # {} => row.contract # {},
           row.contract = artifacts[a].contract \/ Declared(a) \/ Reassigned(a),
           IF row.declaredBy = artifacts[a].declaredBy THEN custody' = custody
           ELSE custody' = [custody EXCEPT ![a] = @ \cup {row.declaredBy}],
           row.status = "RETIRED" => \A p \in TargetPages : targets'[p] = a => Reassigned(a),
           active' \subseteq Automata,
           declareReceipts \subseteq declareReceipts',
           declareReceipts' \subseteq Automata \X DeclareKeys,
           targets' \in [TargetPages -> DOMAIN artifacts \cup {None}],
           \A p \in TargetPages : targets'[p] \in {targets[p], a, None},
           targetPages' \in [TargetPages -> PageRow],
           \A p \in TargetPages : Generated(p) \/ (targets'[p] # targets[p] /\ targets'[p] # None)
                                  => targetPages'[p].generated
    PROVE  OwnTables'
<1>1. /\ DOMAIN artifacts = 1..Len(artifacts) /\ Len(artifacts) \in Nat
      /\ DOMAIN custody = DOMAIN artifacts
      /\ artifacts \in Seq(ArtifactRow) /\ custody \in Seq(SUBSET Automata)
      /\ Len(custody) = Len(artifacts) /\ artifacts[a] \in ArtifactRow
      /\ \A b \in DOMAIN artifacts : artifacts[b].predecessor \in DOMAIN artifacts \cup {None}
  BY ArtifactShapes DEF OwnTables, TablesTyped, ArtifactRow
<1>2. row.declaredBy \in Automata /\ row.status \in {"DECLARED", "RETIRED"}
  BY DEF ArtifactRow
<1>3. /\ artifacts' \in Seq(ArtifactRow) /\ DOMAIN artifacts' = DOMAIN artifacts
      /\ Len(artifacts') = Len(artifacts)
      /\ \A b \in DOMAIN artifacts : artifacts'[b] = IF b = a THEN row ELSE artifacts[b]
  BY <1>1
<1>4. /\ custody' \in Seq(SUBSET Automata) /\ Len(custody') = Len(custody)
      /\ \A b \in DOMAIN artifacts :
             custody'[b] = IF b = a /\ row.declaredBy # artifacts[a].declaredBy
                           THEN custody[b] \cup {row.declaredBy} ELSE custody[b]
  <2>1. CASE row.declaredBy = artifacts[a].declaredBy
    BY <1>1, <2>1
  <2>2. CASE row.declaredBy # artifacts[a].declaredBy
    <3> DEFINE both == custody[a] \cup {row.declaredBy}
    <3>1. custody[a] \in SUBSET Automata
      BY <1>1
    <3>2. both \in SUBSET Automata
      BY <1>2, <3>1
    <3>3. custody' = [custody EXCEPT ![a] = both]
      BY <2>2
    <3> HIDE DEF both
    <3>4. custody' \in Seq(SUBSET Automata) /\ Len(custody') = Len(custody)
          /\ \A b \in DOMAIN artifacts : custody'[b] = IF b = a THEN both ELSE custody[b]
      BY <1>1, <3>2, <3>3
    <3> QED
      BY <2>2, <3>4 DEF both
  <2> QED
    BY <2>1, <2>2
<1>5. CustodianNamed'
  <2> SUFFICES ASSUME NEW b \in DOMAIN artifacts
               PROVE  IsFiniteSet(custody'[b]) /\ artifacts'[b].declaredBy \in custody'[b]
    BY <1>3 DEF CustodianNamed
  <2>1. IsFiniteSet(custody[b]) /\ artifacts[b].declaredBy \in custody[b]
    BY DEF OwnTables, CustodianNamed
  <2>2. IsFiniteSet(custody[b] \cup {row.declaredBy})
    BY <2>1, FS_AddElement
  <2> QED
    BY <1>3, <1>4, <2>1, <2>2
<1>6. \A b \in DOMAIN artifacts : Reassigned(b) => Reassigned(b)'
  BY <1>3, <1>4, <1>5, ReassignedGrows DEF CustodianNamed
<1>7. row.declaredBy # artifacts[a].declaredBy => Reassigned(a)'
  <2> SUFFICES ASSUME row.declaredBy # artifacts[a].declaredBy PROVE Reassigned(a)'
    OBVIOUS
  <2>1. artifacts[a].declaredBy \in custody[a]
    BY DEF OwnTables, CustodianNamed
  <2>2. artifacts[a].declaredBy \in custody'[a] /\ row.declaredBy \in custody'[a]
        /\ IsFiniteSet(custody'[a])
    BY <1>3, <1>4, <1>5, <2>1 DEF CustodianNamed
  <2> QED
    BY <2>2, TwoAreReassigned DEF Reassigned
<1>8. TablesTyped'
  <2>1. ArtifactRow' = ArtifactRow
    BY <1>3 DEF ArtifactRow
  <2> QED
    BY <1>1, <1>3, <1>4, <2>1 DEF OwnTables, TablesTyped
<1>9. OneDeclarationPerKey'
  BY <1>3 DEF OwnTables, OneDeclarationPerKey, Declared
<1>10. OwnedIsGenerated'
  BY DEF OwnTables, OwnedIsGenerated, Generated
<1>11. RetiredOwnsNothing'
  <2> SUFFICES ASSUME NEW p \in TargetPages, NEW b, b = targets'[p], b # None,
                      artifacts'[b].status # "DECLARED"
               PROVE  Reassigned(b)'
    BY DEF RetiredOwnsNothing, Declared, Reassigned
  <2>1. CASE b = a
    BY <1>2, <1>3, <1>6, <2>1
  <2>2. CASE b # a
    <3>1. b = targets[p] /\ b \in DOMAIN artifacts /\ artifacts'[b] = artifacts[b]
      BY <1>3, <2>2
    <3> QED
      BY <1>6, <3>1 DEF OwnTables, RetiredOwnsNothing, Declared
  <2> QED
    BY <2>1, <2>2
<1>12. ContractSurvives'
  <2> SUFFICES ASSUME NEW b \in DOMAIN artifacts, NEW c, c = artifacts'[b].predecessor, c # None,
                      ~Reassigned(c)', artifacts'[c].contract # {}
               PROVE  artifacts'[b].contract # {}
    BY <1>3 DEF ContractSurvives, Reassigned
  <2>1. c = artifacts[b].predecessor /\ c \in DOMAIN artifacts
    BY <1>1, <1>3
  <2>2. ~Reassigned(c) /\ ~Declared(c)
    BY <1>6, <2>1 DEF OwnTables, PredecessorsRetired
  <2>3. artifacts[c].contract # {}
    BY <1>3, <2>1, <2>2
  <2>4. artifacts[b].contract # {}
    BY <2>1, <2>2, <2>3 DEF OwnTables, ContractSurvives
  <2> QED
    BY <1>3, <2>4
<1>13. KeyHasReceipt'
  BY <1>3, <1>6, <1>7 DEF OwnTables, KeyHasReceipt
<1>14. PredecessorsRetired'
  BY <1>1, <1>3 DEF OwnTables, PredecessorsRetired, Declared
<1> QED
  BY <1>5, <1>8, <1>9, <1>10, <1>11, <1>12, <1>13, <1>14 DEF OwnTables
\* A new declaration of a key that has none.
LEMMA DeclareTables ==
    ASSUME OwnTables, NEW by \in active, NEW k \in DeclareKeys, NEW key \in ArtifactKeys,
           NEW P \in SUBSET TargetPages, NEW c \in SUBSET Automata,
           \A b \in DOMAIN artifacts : Declared(b) => artifacts[b].key # key,
           artifacts' = Append(artifacts, NewArtifact(key, by, k, c)),
           custody' = Append(custody, {by}), active' = active,
           targets' = [p \in TargetPages |-> IF p \in P THEN Len(artifacts) + 1
                                             ELSE targets[p]],
           targetPages' = Adopt(P),
           declareReceipts' = declareReceipts \cup {<<by, k>>}
    PROVE  /\ OwnTables' /\ DOMAIN artifacts \subseteq DOMAIN artifacts'
           /\ \A b \in DOMAIN artifacts :
                  artifacts'[b] = artifacts[b] /\ custody'[b] = custody[b]
<1> DEFINE n == Len(artifacts) + 1
           row == NewArtifact(key, by, k, c)
<1>1. TablesTyped
  BY DEF OwnTables
<1>2. /\ DOMAIN artifacts = 1..Len(artifacts) /\ Len(artifacts) \in Nat /\ n \in Nat
      /\ n \notin DOMAIN artifacts /\ n # None /\ by \in Automata
      /\ \A p \in TargetPages : targets[p] \in DOMAIN artifacts \cup {None}
      /\ \A b \in DOMAIN artifacts : artifacts[b].predecessor \in DOMAIN artifacts \cup {None}
  BY <1>1, ArtifactShapes, NoneIsNoAutomaton DEF TablesTyped, ArtifactRow
<1>3. /\ row \in ArtifactRow /\ row.predecessor = None /\ row.key = key
      /\ row.declaredBy = by /\ row.requestKey = k
  BY <1>2 DEF NewArtifact, ArtifactRow
<1> HIDE DEF row
<1>4. /\ artifacts' \in Seq(ArtifactRow) /\ DOMAIN artifacts' = DOMAIN artifacts \cup {n}
      /\ \A b \in DOMAIN artifacts : artifacts'[b] = artifacts[b]
      /\ artifacts'[n] = row /\ Len(artifacts') = n
  BY <1>1, <1>2, <1>3 DEF TablesTyped, row
<1>5. /\ custody' \in Seq(SUBSET Automata) /\ Len(custody') = n
      /\ \A b \in DOMAIN artifacts : custody'[b] = custody[b]
      /\ custody'[n] = {by}
  BY <1>1, <1>2 DEF TablesTyped
<1>6. /\ targets' \in [TargetPages -> DOMAIN artifacts' \cup {None}]
      /\ \A p \in TargetPages : targets'[p] = IF p \in P THEN n ELSE targets[p]
  BY <1>2, <1>4
<1>7. /\ targetPages' \in [TargetPages -> PageRow]
      /\ \A p \in TargetPages : Generated(p) \/ p \in P => targetPages'[p].generated
  <2>1. \A p \in TargetPages :
            LET w == [targetPages[p] EXCEPT !.generated = TRUE]
            IN  targetPages[p] \in PageRow /\ w \in PageRow /\ w.generated
    BY <1>1 DEF TablesTyped, PageRow
  <2> QED
    BY <1>1, <2>1 DEF TablesTyped, Adopt, Generated
<1>8. \A b \in DOMAIN artifacts : Reassigned(b)' <=> Reassigned(b)
  BY <1>5 DEF Reassigned
<1>9. TablesTyped'
  <2>1. ArtifactRow \subseteq ArtifactRow'
    BY <1>4 DEF ArtifactRow
  <2>2. artifacts' \in Seq(ArtifactRow')
    BY <1>4, <2>1
  <2> QED
    BY <1>1, <1>2, <1>4, <1>5, <1>6, <1>7, <2>2 DEF TablesTyped
<1>10. OneDeclarationPerKey'
  BY <1>3, <1>4 DEF OwnTables, OneDeclarationPerKey, Declared
<1>11. OwnedIsGenerated'
  BY <1>6, <1>7 DEF OwnTables, OwnedIsGenerated, Generated
<1>12. RetiredOwnsNothing'
  <2>1. row.status = "DECLARED"
    BY DEF row, NewArtifact
  <2> QED
    BY <1>2, <1>4, <1>6, <1>8, <2>1 DEF OwnTables, RetiredOwnsNothing, Declared
<1>16. PredecessorsRetired'
  BY <1>2, <1>3, <1>4 DEF OwnTables, PredecessorsRetired, Declared
<1>13. ContractSurvives'
  <2> SUFFICES ASSUME NEW b \in DOMAIN artifacts', NEW e, e = artifacts'[b].predecessor,
                      e # None, ~Reassigned(e)', artifacts'[e].contract # {}
               PROVE  artifacts'[b].contract # {}
    BY DEF ContractSurvives, Reassigned
  <2>1. b \in DOMAIN artifacts /\ e = artifacts[b].predecessor /\ e \in DOMAIN artifacts
    BY <1>2, <1>3, <1>4
  <2> QED
    BY <1>4, <1>8, <2>1 DEF OwnTables, ContractSurvives
<1>14. CustodianNamed'
  <2> SUFFICES ASSUME NEW b \in DOMAIN artifacts'
               PROVE  IsFiniteSet(custody'[b]) /\ artifacts'[b].declaredBy \in custody'[b]
    BY DEF CustodianNamed
  <2>1. IsFiniteSet({by})
    BY FS_Singleton
  <2> QED
    BY <1>3, <1>4, <1>5, <2>1 DEF OwnTables, CustodianNamed
<1>15. KeyHasReceipt'
  BY <1>3, <1>4, <1>8 DEF OwnTables, KeyHasReceipt
<1> QED
  BY <1>4, <1>5, <1>9, <1>10, <1>11, <1>12, <1>13, <1>14, <1>15, <1>16
  DEF OwnTables

\* What the handlers hold stands through a step that leaves the rows they hold, moves no
\* page under a publication but to a successor, and begins nothing.
LEMMA HandlersKeep ==
    ASSUME OwnInv, DOMAIN artifacts \subseteq DOMAIN artifacts',
           \A c \in DOMAIN artifacts :
               /\ artifacts'[c].predecessor = artifacts[c].predecessor
               /\ artifacts'[c].status = "DECLARED" => Declared(c)
               /\ custody[c] \subseteq custody'[c],
           \A h \in Handlers : owning'[h] \in {owning[h], NotOwning},
           owning' \in [Handlers -> OwningStates \cup {NotOwning}],
           \A h \in Handlers : Rewriting(h) /\ owning'[h] = owning[h] =>
               artifacts'[owning[h].artifact].status = "DECLARED",
           \A h \in Handlers : owning[h].stage = "publishing" /\ owning'[h] = owning[h] =>
               LET p == owning[h].page
               IN  \/ targets'[p] \in {targets[p], None}
                   \/ /\ targets'[p] \in DOMAIN artifacts' /\ targets[p] \in DOMAIN artifacts
                      /\ artifacts'[targets'[p]].predecessor = targets[p] /\ Declared(targets[p])
    PROVE  OwnHandlers'
<1>1. owning \in [Handlers -> OwningStates] /\ NotOwning.stage = "idle"
      /\ TablesTyped
  BY DEF OwnInv, OwnHandlers, OwnTables, NotOwning
<1>2. owning' \in [Handlers -> OwningStates']
  <2>1. OwningStates \subseteq OwningStates'
    BY DEF OwningStates, ValidPlan
  <2>2. NotOwning \in OwningStates'
    BY DEF OwningStates
  <2> QED
    BY <2>1, <2>2
<1>3. OneWriter' /\ OnePublisher'
  BY <1>1 DEF OwnInv, OwnHandlers, OneWriter, OnePublisher, Rewriting
<1>4. WriterStands'
  BY <1>1 DEF OwnInv, OwnHandlers, WriterStands, Rewriting, Declared
<1>5. GeneratedWrittenByCustodian'
  <2> SUFFICES ASSUME NEW h \in Handlers, owning'[h].stage = "publishing",
                      NEW a, a = targets'[owning'[h].page],
                      a # None, artifacts'[a].status = "DECLARED"
               PROVE  \E b \in Line(a)' : owning'[h].by \in custody'[b]
    BY DEF GeneratedWrittenByCustodian, Declared, Line
  <2>1. owning'[h] = owning[h] /\ owning[h].page \in TargetPages
    BY <1>1, OwningShapes
  <2>7. PICK o \in DOMAIN artifacts \cup {None} : o = targets[owning[h].page]
    BY <1>1, <2>1, ArtifactShapes
  <2>2. /\ o \in DOMAIN artifacts /\ o # None /\ Declared(o)
        /\ a = o \/ (a \in DOMAIN artifacts' /\ artifacts'[a].predecessor = o)
    <3>1. CASE a \in {o, None}
      <4>1. a = o /\ o \in DOMAIN artifacts /\ artifacts'[o].status = "DECLARED"
        BY <3>1
      <4>2. Declared(o)
        BY <4>1
      <4> QED
        BY <4>1, <4>2
    <3>2. CASE a \notin {o, None}
      BY <1>1, <2>1, <2>7, <3>2, ArtifactShapes
    <3> QED
      BY <3>1, <3>2
  <2>3. PICK b \in Line(o) : owning[h].by \in custody[b]
    BY <2>1, <2>2, <2>7 DEF OwnInv, OwnHandlers, GeneratedWrittenByCustodian
  <2>4. b \in DOMAIN artifacts
    BY <2>3 DEF Line
  <2>5. b \in Line(o)'
    <3>1. \A c \in DOMAIN artifacts : artifacts[c].predecessor \in DOMAIN artifacts \cup {None}
      BY <1>1, ArtifactShapes DEF ArtifactRow
    <3> QED
      BY <2>2, <2>3, <3>1, LineGrows
  <2>6. b \in Line(a)'
    BY <2>2, <2>5 DEF Line
  <2> QED
    BY <2>1, <2>3, <2>4, <2>6
<1> QED
  BY <1>2, <1>3, <1>4, <1>5 DEF OwnHandlers

-----------------------------------------------------------------------------
(***************************************************************************)
(* Each action keeps the invariant.                                        *)
(***************************************************************************)
\* An execution contract names somebody.
LEMMA ContractNamesOwners == \A c \in Contracts : c \in SUBSET Automata /\ c # {}
<1> SUFFICES ASSUME NEW c \in Contracts PROVE c \in SUBSET Automata /\ c # {}
  OBVIOUS
<1>1. c \in SUBSET Automata /\ Cardinality(c) \in 1..2
  BY ContractsHaveOwners
<1> QED
  BY <1>1, FS_EmptySet

\* Pages that become targets are marked, and none loses its mark.
LEMMA AdoptedPages ==
    ASSUME TablesTyped, NEW P
    PROVE  /\ Adopt(P) \in [TargetPages -> PageRow]
           /\ \A p \in TargetPages : Generated(p) \/ p \in P => Adopt(P)[p].generated
<1>1. \A p \in TargetPages :
          LET w == [targetPages[p] EXCEPT !.generated = TRUE]
          IN  targetPages[p] \in PageRow /\ w \in PageRow /\ w.generated
  BY DEF TablesTyped, PageRow
<1> QED
  BY <1>1 DEF TablesTyped, Adopt, Generated

\* A declaration, new or of a key that its principal has used.
LEMMA DeclareStep ==
    ASSUME OwnInv, NEW by \in Automata, NEW k \in DeclareKeys, NEW key \in ArtifactKeys,
           NEW P \in SUBSET TargetPages, NEW c \in Contracts \cup {{}},
           DeclareArtifact(by, k, key, P, c)
    PROVE  OwnInv'
<1>1. /\ c \in SUBSET Automata /\ by \in active /\ active' = active /\ owning' = owning
      /\ P # {} => \A h \in Handlers : owning[h].stage # "publishing"
      /\ targetPages' = Adopt(P) /\ declareReceipts' = declareReceipts \cup {<<by, k>>}
      /\ owning \in [Handlers -> OwningStates \cup {NotOwning}]
      /\ owning \in [Handlers -> OwningStates] /\ TablesTyped
      /\ active \subseteq Automata /\ declareReceipts \subseteq Automata \X DeclareKeys
  BY ContractNamesOwners
  DEF DeclareArtifact, PagesFree, OwnInv, OwnHandlers, OwnTables, TablesTyped
<1>2. \A h \in Handlers : owning[h].stage = "publishing" =>
          P = {} /\ owning[h].page \in TargetPages
  BY <1>1, OwningShapes
<1>3. CASE HoldersOf(by, k) = {}
  <2>1. /\ \A b \in DOMAIN artifacts : Declared(b) => artifacts[b].key # key
        /\ artifacts' = Append(artifacts, NewArtifact(key, by, k, c))
        /\ custody' = Append(custody, {by})
        /\ targets' = [p \in TargetPages |-> IF p \in P THEN Len(artifacts) + 1
                                             ELSE targets[p]]
    BY <1>3 DEF DeclareArtifact
  <2>2. /\ OwnTables' /\ DOMAIN artifacts \subseteq DOMAIN artifacts'
        /\ \A b \in DOMAIN artifacts :
               artifacts'[b] = artifacts[b] /\ custody'[b] = custody[b]
    BY <1>1, <2>1, DeclareTables DEF OwnInv
  <2>3. \A h \in Handlers : Rewriting(h) =>
            artifacts'[owning[h].artifact].status = "DECLARED"
    BY <1>1, <2>2, OwningShapes DEF OwnInv, OwnHandlers, WriterStands, Declared
  <2>4. \A h \in Handlers : owning[h].stage = "publishing" =>
            targets'[owning[h].page] = targets[owning[h].page]
    BY <1>2, <2>1
  <2>5. OwnHandlers'
    BY <1>1, <2>2, <2>3, <2>4, HandlersKeep DEF Declared
  <2> QED
    BY <2>2, <2>5 DEF OwnInv
<1>4. CASE HoldersOf(by, k) # {}
  <2>1. PICK a : a = CHOOSE x \in HoldersOf(by, k) : TRUE
    OBVIOUS
  <2>2. a \in DOMAIN artifacts /\ artifacts[a].declaredBy = by /\ artifacts[a].requestKey = k
    BY <1>4, <2>1 DEF HoldersOf
  <2>3. /\ <<by, k>> \notin declareReceipts /\ custody' = custody
        /\ \A p \in P : targets[p] \in {None, a}
        /\ artifacts' = IF c = {} THEN artifacts ELSE [artifacts EXCEPT ![a].contract = c]
        /\ targets' = [p \in TargetPages |-> IF p \in P THEN a ELSE targets[p]]
    BY <1>4, <2>1 DEF DeclareArtifact, KeyFresh
  <2>4. Reassigned(a)
    BY <2>2, <2>3, ArtifactShapes DEF OwnInv, OwnTables, KeyHasReceipt
  <2>5. artifacts[a] \in ArtifactRow
    BY <1>1, <2>2, ArtifactShapes
  <2>6. PICK row \in ArtifactRow :
            /\ artifacts' = [artifacts EXCEPT ![a] = row]
            /\ row.key = artifacts[a].key /\ row.requestKey = artifacts[a].requestKey
            /\ row.predecessor = artifacts[a].predecessor
            /\ row.status = artifacts[a].status
            /\ row.declaredBy = artifacts[a].declaredBy
            /\ row.contract = IF c = {} THEN artifacts[a].contract ELSE c
    <3>1. CASE c = {}
      <4>1. artifacts' = [artifacts EXCEPT ![a] = artifacts[a]]
        BY <1>1, <2>3, <3>1 DEF TablesTyped
      <4> QED
        BY <2>5, <3>1, <4>1
    <3>2. CASE c # {}
      <4> DEFINE w == [artifacts[a] EXCEPT !.contract = c]
      <4>1. /\ w \in ArtifactRow
            /\ w.key = artifacts[a].key /\ w.requestKey = artifacts[a].requestKey
            /\ w.predecessor = artifacts[a].predecessor /\ w.status = artifacts[a].status
            /\ w.declaredBy = artifacts[a].declaredBy /\ w.contract = c
        BY <1>1, <2>5 DEF ArtifactRow
      <4>2. artifacts' = [artifacts EXCEPT ![a] = w]
        BY <2>3, <3>2
      <4> QED
        BY <3>2, <4>1, <4>2
    <3> QED
      BY <3>1, <3>2
  <2>7. /\ targets' \in [TargetPages -> DOMAIN artifacts \cup {None}]
        /\ \A p \in TargetPages : targets'[p] \in {targets[p], a, None}
        /\ \A p \in TargetPages : targets'[p] # targets[p] => p \in P
    BY <1>1, <2>2, <2>3 DEF TablesTyped
  <2>8. /\ targetPages' \in [TargetPages -> PageRow]
        /\ \A p \in TargetPages : Generated(p) \/ p \in P => targetPages'[p].generated
    BY <1>1, AdoptedPages
  <2>9. OwnTables'
    <3>1. row.status = "DECLARED" => Declared(a)
      BY <2>6 DEF Declared
    <3>2. /\ artifacts[a].contract # {} => row.contract # {}
          /\ IF row.declaredBy = artifacts[a].declaredBy THEN custody' = custody
             ELSE custody' = [custody EXCEPT ![a] = @ \cup {row.declaredBy}]
      BY <2>3, <2>6
    <3>3. /\ active' \subseteq Automata /\ declareReceipts \subseteq declareReceipts'
          /\ declareReceipts' \subseteq Automata \X DeclareKeys /\ OwnTables
      BY <1>1 DEF OwnInv
    <3>4. \A p \in TargetPages :
              Generated(p) \/ (targets'[p] # targets[p] /\ targets'[p] # None)
              => targetPages'[p].generated
      BY <2>7, <2>8
    <3> QED
      BY <2>2, <2>4, <2>6, <2>7, <2>8, <3>1, <3>2, <3>3, <3>4, RowTables
  <2>10. /\ DOMAIN artifacts' = DOMAIN artifacts
         /\ \A b \in DOMAIN artifacts :
                /\ artifacts'[b].predecessor = artifacts[b].predecessor
                /\ artifacts'[b].status = artifacts[b].status
    BY <1>1, <2>2, <2>6 DEF TablesTyped
  <2>11. \A h \in Handlers : Rewriting(h) =>
            artifacts'[owning[h].artifact].status = "DECLARED"
    BY <1>1, <2>10, OwningShapes DEF OwnInv, OwnHandlers, WriterStands, Declared
  <2>12. \A h \in Handlers : owning[h].stage = "publishing" =>
            targets'[owning[h].page] = targets[owning[h].page]
    BY <1>2, <2>7
  <2>13. OwnHandlers'
    BY <1>1, <2>3, <2>10, <2>11, <2>12, HandlersKeep DEF Declared
  <2> QED
    BY <2>9, <2>13 DEF OwnInv
<1> QED
  BY <1>3, <1>4

\* Who has locked a declared artifact's row writes it, and moves no page.
LEMMA RowStep ==
    ASSUME OwnInv, NEW a \in DOMAIN artifacts, NEW row \in ArtifactRow,
           artifacts' = [artifacts EXCEPT ![a] = row], Declared(a), ArtifactFree(a),
           row.key = artifacts[a].key, row.requestKey = artifacts[a].requestKey,
           row.predecessor = artifacts[a].predecessor,
           row.status = "RETIRED" => TargetsOf(a) = {},
           artifacts[a].contract # {} => row.contract # {},
           IF row.declaredBy = artifacts[a].declaredBy THEN custody' = custody
           ELSE custody' = [custody EXCEPT ![a] = @ \cup {row.declaredBy}],
           UNCHANGED <<targets, targetPages, active, declareReceipts, owning>>
    PROVE  OwnInv'
<1>1. OwnTables /\ TablesTyped /\ owning \in [Handlers -> OwningStates]
      /\ owning \in [Handlers -> OwningStates \cup {NotOwning}]
  BY DEF OwnInv, OwnHandlers, OwnTables
<1>2. /\ targets' \in [TargetPages -> DOMAIN artifacts \cup {None}]
      /\ targetPages' \in [TargetPages -> PageRow]
      /\ active' \subseteq Automata /\ declareReceipts' \subseteq Automata \X DeclareKeys
      /\ artifacts \in Seq(ArtifactRow)
  BY <1>1 DEF TablesTyped
<1>3. row.status = "RETIRED" => \A p \in TargetPages : targets'[p] = a => Reassigned(a)
  BY DEF TargetsOf
<1>4. OwnTables'
  BY <1>1, <1>2, <1>3, RowTables DEF Generated
<1>5. /\ DOMAIN artifacts' = DOMAIN artifacts
      /\ \A b \in DOMAIN artifacts : artifacts'[b] = IF b = a THEN row ELSE artifacts[b]
  BY <1>2
<1>6. \A b \in DOMAIN artifacts : custody[b] \subseteq custody'[b]
  <2>1. DOMAIN custody = DOMAIN artifacts
    BY <1>1, ArtifactShapes
  <2> QED
    BY <2>1
<1>7. \A h \in Handlers : Rewriting(h) => artifacts'[owning[h].artifact].status = "DECLARED"
  <2> SUFFICES ASSUME NEW h \in Handlers, Rewriting(h)
               PROVE  artifacts'[owning[h].artifact].status = "DECLARED"
    OBVIOUS
  <2>1. owning[h].artifact # a
    BY DEF ArtifactFree, Rewriting
  <2> QED
    BY <1>1, <1>5, <2>1, OwningShapes DEF OwnInv, OwnHandlers, WriterStands, Declared
<1>8. \A b \in DOMAIN artifacts :
          /\ artifacts'[b].predecessor = artifacts[b].predecessor
          /\ artifacts'[b].status = "DECLARED" => Declared(b)
  BY <1>5 DEF Declared
<1>9. OwnHandlers'
  BY <1>1, <1>5, <1>6, <1>7, <1>8, HandlersKeep
<1> QED
  BY <1>4, <1>9 DEF OwnInv

\* An execution contract is set by the custodian or by an operator.
LEMMA ContractStep ==
    ASSUME OwnInv, NEW a \in DOMAIN artifacts, NEW c \in Contracts,
           BootstrapSetContract(a, c)
           \/ \E by \in Automata : UpdateExecutionContract(a, by, c)
    PROVE  OwnInv'
<1> DEFINE r == artifacts[a]
           row == [r EXCEPT !.contract = c, !.version = r.version + 1]
<1>1. r \in ArtifactRow /\ artifacts \in Seq(ArtifactRow)
  BY ArtifactShapes DEF OwnInv, OwnTables, TablesTyped
<1>2. /\ artifacts' = [artifacts EXCEPT ![a].contract = c, ![a].version = @ + 1]
      /\ Declared(a) /\ ArtifactFree(a) /\ custody' = custody
      /\ UNCHANGED <<targets, targetPages, active, declareReceipts, owning>>
  BY DEF BootstrapSetContract, UpdateExecutionContract, Custodian
<1>3. artifacts' = [artifacts EXCEPT ![a] = row]
  BY <1>1, <1>2
<1>4. c \in SUBSET Automata /\ c # {} /\ r.version + 1 \in Nat \ {0}
  BY <1>1, ContractNamesOwners DEF ArtifactRow
<1>5. ASSUME NEW v \in Nat \ {0}
      PROVE  LET w == [r EXCEPT !.contract = c, !.version = v]
             IN  /\ w \in ArtifactRow /\ w.key = r.key /\ w.requestKey = r.requestKey
                 /\ w.predecessor = r.predecessor /\ w.status = r.status
                 /\ w.declaredBy = r.declaredBy /\ w.contract = c
  <2> HIDE DEF r
  <2> QED
    BY <1>1, <1>4 DEF ArtifactRow
<1>6. /\ row \in ArtifactRow /\ row.key = r.key /\ row.requestKey = r.requestKey
      /\ row.predecessor = r.predecessor /\ row.status = r.status
      /\ row.declaredBy = r.declaredBy /\ row.contract = c
  BY <1>4, <1>5
<1> HIDE DEF row
<1>7. row.status # "RETIRED"
  BY <1>2, <1>6 DEF Declared
<1> QED
  BY <1>2, <1>3, <1>4, <1>6, <1>7, RowStep

\* An artifact is retired that has no page.
LEMMA RetireStep ==
    ASSUME OwnInv, NEW a \in DOMAIN artifacts, NEW by \in Automata, RetireArtifact(a, by)
    PROVE  OwnInv'
<1> DEFINE r == artifacts[a]
           row == [r EXCEPT !.status = "RETIRED", !.version = r.version + 1]
<1>1. r \in ArtifactRow /\ artifacts \in Seq(ArtifactRow)
  BY ArtifactShapes DEF OwnInv, OwnTables, TablesTyped
<1>2. /\ artifacts' = [artifacts EXCEPT ![a].status = "RETIRED", ![a].version = @ + 1]
      /\ Declared(a) /\ ArtifactFree(a) /\ custody' = custody /\ TargetsOf(a) = {}
      /\ UNCHANGED <<targets, targetPages, active, declareReceipts, owning>>
  BY DEF RetireArtifact, Custodian
<1>3. artifacts' = [artifacts EXCEPT ![a] = row]
  BY <1>1, <1>2
<1>4. /\ row \in ArtifactRow /\ row.key = r.key /\ row.requestKey = r.requestKey
      /\ row.predecessor = r.predecessor
      /\ row.declaredBy = r.declaredBy /\ row.contract = r.contract
  <2> HIDE DEF r
  <2> QED
    BY <1>1, RetiredRow
<1> HIDE DEF row
<1> QED
  BY <1>2, <1>3, <1>4, RowStep

\* Custody goes to another principal, which is named for it.
LEMMA ReassignStep ==
    ASSUME OwnInv, NEW a \in DOMAIN artifacts, NEW to \in Automata, ReassignCustody(a, to)
    PROVE  OwnInv'
<1> DEFINE r == artifacts[a]
           row == [r EXCEPT !.declaredBy = to, !.version = r.version + 1]
<1>1. r \in ArtifactRow /\ artifacts \in Seq(ArtifactRow) /\ custody \in Seq(SUBSET Automata)
      /\ DOMAIN custody = DOMAIN artifacts
  BY ArtifactShapes DEF OwnInv, OwnTables, TablesTyped
<1>2. /\ artifacts' = [artifacts EXCEPT ![a].declaredBy = to, ![a].version = @ + 1]
      /\ Declared(a) /\ ArtifactFree(a)
      /\ custody' = [custody EXCEPT ![a] = @ \cup {to}]
      /\ UNCHANGED <<targets, targetPages, active, declareReceipts, owning>>
  BY DEF ReassignCustody
<1>3. artifacts' = [artifacts EXCEPT ![a] = row]
  BY <1>1, <1>2
<1>4. r.version + 1 \in Nat \ {0}
  BY <1>1 DEF ArtifactRow
<1>5. ASSUME NEW v \in Nat \ {0}
      PROVE  LET w == [r EXCEPT !.declaredBy = to, !.version = v]
             IN  /\ w \in ArtifactRow /\ w.key = r.key /\ w.requestKey = r.requestKey
                 /\ w.predecessor = r.predecessor /\ w.status = r.status
                 /\ w.declaredBy = to /\ w.contract = r.contract
  <2> HIDE DEF r
  <2> QED
    BY <1>1 DEF ArtifactRow
<1>6. /\ row \in ArtifactRow /\ row.key = r.key /\ row.requestKey = r.requestKey
      /\ row.predecessor = r.predecessor /\ row.status = r.status
      /\ row.declaredBy = to /\ row.contract = r.contract
  BY <1>4, <1>5
<1> HIDE DEF row
<1>7. row.status # "RETIRED"
  BY <1>2, <1>6 DEF Declared
<1>8. to = r.declaredBy => custody' = custody
  <2> SUFFICES ASSUME to = r.declaredBy PROVE custody' = custody
    OBVIOUS
  <2>1. custody[a] \cup {to} = custody[a]
    BY DEF OwnInv, OwnTables, CustodianNamed
  <2> QED
    BY <1>1, <1>2, <2>1
<1> QED
  BY <1>2, <1>3, <1>6, <1>7, <1>8, RowStep

\* Pages move to the artifact that reconciles its targets, or away from it.
LEMMA ReconcileTables ==
    ASSUME OwnTables, NEW a \in DOMAIN artifacts, NEW D \in SUBSET TargetPages,
           Reconcile(a, D), Declared(a),
           active' \subseteq Automata,
           declareReceipts \subseteq declareReceipts',
           declareReceipts' \subseteq Automata \X DeclareKeys,
           targetPages' \in [TargetPages -> PageRow],
           \A p \in TargetPages : Generated(p) \/ p \in D \ TargetsOf(a)
                                  => targetPages'[p].generated
    PROVE  /\ OwnTables' /\ custody' = custody
           /\ DOMAIN artifacts' = DOMAIN artifacts
           /\ \A b \in DOMAIN artifacts :
                  /\ artifacts'[b].predecessor = artifacts[b].predecessor
                  /\ artifacts'[b].status = artifacts[b].status
           /\ \A p \in TargetPages : targets'[p] = IF p \in D THEN a
                                         ELSE IF targets[p] = a THEN None ELSE targets[p]
<1> DEFINE r == artifacts[a]
           row == [r EXCEPT !.version = r.version + 1]
<1>1. TablesTyped /\ r \in ArtifactRow /\ artifacts \in Seq(ArtifactRow)
  BY ArtifactShapes DEF OwnTables, TablesTyped
<1>2. /\ artifacts' = [artifacts EXCEPT ![a] = row] /\ custody' = custody
      /\ targets' = Retarget(a, a, D)
  BY <1>1 DEF Reconcile
<1>4. r.version + 1 \in Nat \ {0}
  BY <1>1 DEF ArtifactRow
<1>5. ASSUME NEW v \in Nat \ {0}
      PROVE  LET w == [r EXCEPT !.version = v]
             IN  /\ w \in ArtifactRow /\ w.key = r.key /\ w.requestKey = r.requestKey
                 /\ w.predecessor = r.predecessor /\ w.status = r.status
                 /\ w.declaredBy = r.declaredBy /\ w.contract = r.contract
  <2> HIDE DEF r
  <2> QED
    BY <1>1 DEF ArtifactRow
<1>6. /\ row \in ArtifactRow /\ row.key = r.key /\ row.requestKey = r.requestKey
      /\ row.predecessor = r.predecessor /\ row.status = r.status
      /\ row.declaredBy = r.declaredBy /\ row.contract = r.contract
  BY <1>4, <1>5
<1> HIDE DEF row
<1>7. row.status # "RETIRED" /\ (row.status = "DECLARED" => Declared(a))
  BY <1>6 DEF Declared
<1>8. /\ targets' \in [TargetPages -> DOMAIN artifacts \cup {None}]
      /\ \A p \in TargetPages : targets'[p] = IF p \in D THEN a
                                    ELSE IF targets[p] = a THEN None ELSE targets[p]
  BY <1>1, <1>2, RetargetRows
<1>9. \A p \in TargetPages :
          Generated(p) \/ (targets'[p] # targets[p] /\ targets'[p] # None)
          => targetPages'[p].generated
  BY <1>8 DEF TargetsOf
<1>10. OwnTables'
  BY <1>2, <1>6, <1>7, <1>8, <1>9, RowTables, ZenonT(60)
<1> QED
  BY <1>1, <1>2, <1>6, <1>8, <1>10

\* A transaction reads the artifact's row under its lock and finds it declared.
LEMMA CheckStep ==
    ASSUME OwnInv, NEW h \in Handlers, NEW a \in DOMAIN artifacts, NEW by \in Automata,
           NEW D \in SUBSET TargetPages, NEW stage \in {"reconciling", "succeeding"},
           NEW k, stage = "reconciling" => k = None, stage = "succeeding" => k \in DeclareKeys,
           CheckTargets(h, a, by, D, stage, k)
    PROVE  OwnInv'
<1> DEFINE o == [stage |-> stage, artifact |-> a, desired |-> D, key |-> k]
<1>1. /\ ArtifactFree(a) /\ Declared(a) /\ owning' = [owning EXCEPT ![h] = o]
      /\ UNCHANGED <<artifacts, targets, targetPages, active, custody, declareReceipts>>
      /\ owning \in [Handlers -> OwningStates]
  BY DEF CheckTargets, Custodian, OwnInv, OwnHandlers
<1>2. o \in OwningStates
  BY DEF OwningStates
<1>3. /\ o.stage \in {"reconciling", "succeeding"} /\ o.artifact = a
  OBVIOUS
<1> HIDE DEF o
<1>4. \A g \in Handlers : owning'[g] = IF g = h THEN o ELSE owning[g]
  BY <1>1
<1>5. OwnTables'
  BY <1>1 DEF OwnInv, OwnTables, TablesTyped, ArtifactRow, OneDeclarationPerKey, Declared,
     OwnedIsGenerated, Generated, RetiredOwnsNothing, Reassigned, ContractSurvives,
     CustodianNamed, KeyHasReceipt, PredecessorsRetired
<1>6. owning' \in [Handlers -> OwningStates']
  <2>1. OwningStates' = OwningStates
    BY <1>1 DEF OwningStates, ValidPlan
  <2> QED
    BY <1>1, <1>2, <2>1
<1>7. OneWriter'
  BY <1>1, <1>3, <1>4 DEF OwnInv, OwnHandlers, OneWriter, Rewriting, ArtifactFree
<1>8. WriterStands'
  BY <1>1, <1>3, <1>4 DEF OwnInv, OwnHandlers, WriterStands, Rewriting, Declared
<1>9. OnePublisher'
  BY <1>3, <1>4 DEF OwnInv, OwnHandlers, OnePublisher
<1>10. GeneratedWrittenByCustodian'
  BY <1>1, <1>3, <1>4
  DEF OwnInv, OwnHandlers, GeneratedWrittenByCustodian, Declared, Line
<1> QED
  BY <1>5, <1>6, <1>7, <1>8, <1>9, <1>10 DEF OwnInv, OwnHandlers

\* The guard of a publication admits the custodian of a generated page's artifact.
LEMMA EvaluateStep ==
    ASSUME OwnInv, NEW h \in Handlers, NEW by \in Automata \cup {Person},
           NEW p \in TargetPages, NEW to \in {"active", "archived"}, NEW plan \in Plans,
           EvaluateChange(h, by, p, to, plan)
    PROVE  OwnInv'
<1> DEFINE o == [stage |-> "publishing", by |-> by, page |-> p, to |-> to, plan |-> plan]
<1>1. /\ PagesFree /\ GuardPasses(plan, p, by) /\ owning' = [owning EXCEPT ![h] = o]
      /\ UNCHANGED <<artifacts, targets, targetPages, active, custody, declareReceipts>>
      /\ owning \in [Handlers -> OwningStates] /\ TablesTyped
  BY DEF EvaluateChange, OwnInv, OwnHandlers, OwnTables
<1>2. plan \in {None} \cup ValidPlan
  <2>1. \A a \in DOMAIN artifacts : artifacts[a].version \in Nat
    BY <1>1, ArtifactShapes DEF ArtifactRow
  <2> QED
    BY <2>1 DEF Plans, ValidPlan
<1>3. o \in OwningStates
  BY <1>2 DEF OwningStates
<1>4. o.stage = "publishing" /\ o.by = by /\ o.page = p
  OBVIOUS
<1> HIDE DEF o
<1>5. \A g \in Handlers : owning'[g] = IF g = h THEN o ELSE owning[g]
  BY <1>1
<1>6. OwnTables'
  BY <1>1 DEF OwnInv, OwnTables, TablesTyped, ArtifactRow, OneDeclarationPerKey, Declared,
     OwnedIsGenerated, Generated, RetiredOwnsNothing, Reassigned, ContractSurvives,
     CustodianNamed, KeyHasReceipt, PredecessorsRetired
<1>7. owning' \in [Handlers -> OwningStates']
  <2>1. OwningStates' = OwningStates
    BY <1>1 DEF OwningStates, ValidPlan
  <2> QED
    BY <1>1, <1>3, <2>1
<1>8. OneWriter' /\ WriterStands'
  BY <1>1, <1>4, <1>5 DEF OwnInv, OwnHandlers, OneWriter, WriterStands, Rewriting, Declared
<1>9. OnePublisher'
  BY <1>1, <1>4, <1>5 DEF OnePublisher, PagesFree
<1>10. ASSUME targets[p] # None, Declared(targets[p])
       PROVE  \E b \in Line(targets[p]) : by \in custody[b]
  <2>1. targets[p] \in DOMAIN artifacts /\ None \notin Automata
        /\ artifacts[targets[p]] \in ArtifactRow
    BY <1>1, <1>10, ArtifactShapes
  <2>2. DeclaringPrincipal(p) = artifacts[targets[p]].declaredBy
        /\ DeclaringPrincipal(p) # None
    BY <1>10, <2>1 DEF DeclaringPrincipal, ArtifactRow
  <2>3. Generated(p)
    BY <1>10 DEF OwnInv, OwnTables, OwnedIsGenerated
  <2>4. artifacts[targets[p]].declaredBy = by
    BY <1>1, <2>2, <2>3 DEF GuardPasses
  <2>5. by \in custody[targets[p]]
    BY <2>1, <2>4 DEF OwnInv, OwnTables, CustodianNamed
  <2> QED
    BY <2>1, <2>5, LineOfItself
<1>11. GeneratedWrittenByCustodian'
  <2>1. \A g \in Handlers : owning'[g].stage = "publishing" => g = h
    BY <1>1, <1>5 DEF PagesFree
  <2> QED
    BY <1>1, <1>4, <1>5, <1>10, <2>1 DEF GeneratedWrittenByCustodian, Declared, Line
<1> QED
  BY <1>6, <1>7, <1>8, <1>9, <1>11 DEF OwnInv, OwnHandlers

\* A transaction that ends writes nothing.
LEMMA AbandonStep ==
    ASSUME OwnInv, NEW h \in Handlers, AbandonOwnership(h)
    PROVE  OwnInv'
<1>1. /\ owning' = [owning EXCEPT ![h] = NotOwning]
      /\ UNCHANGED <<artifacts, targets, targetPages, active, custody, declareReceipts>>
      /\ owning \in [Handlers -> OwningStates] /\ TablesTyped
  BY DEF AbandonOwnership, OwnInv, OwnHandlers, OwnTables
<1>2. OwnTables'
  BY <1>1 DEF OwnInv, OwnTables, TablesTyped, ArtifactRow, OneDeclarationPerKey, Declared,
     OwnedIsGenerated, Generated, RetiredOwnsNothing, Reassigned, ContractSurvives,
     CustodianNamed, KeyHasReceipt, PredecessorsRetired
<1>3. OwnHandlers'
  <2>1. \A g \in Handlers : owning'[g] \in {owning[g], NotOwning}
    BY <1>1
  <2>2. owning' \in [Handlers -> OwningStates \cup {NotOwning}]
    BY <1>1
  <2>3. \A g \in Handlers : Rewriting(g) => artifacts'[owning[g].artifact].status = "DECLARED"
    BY <1>1 DEF OwnInv, OwnHandlers, WriterStands, Declared
  <2> QED
    BY <1>1, <2>1, <2>2, <2>3, HandlersKeep DEF Declared
<1> QED
  BY <1>2, <1>3 DEF OwnInv

\* An automaton that is revoked leaves the tables as they are.
LEMMA RevokeStep ==
    ASSUME OwnInv, NEW by \in Automata, RevokeAutomaton(by)
    PROVE  OwnInv'
<1>1. /\ active' \subseteq active
      /\ UNCHANGED <<artifacts, targets, targetPages, custody, declareReceipts, owning>>
  BY DEF RevokeAutomaton
<1>2. OwnTables'
  BY <1>1 DEF OwnInv, OwnTables, TablesTyped, ArtifactRow, OneDeclarationPerKey, Declared,
     OwnedIsGenerated, Generated, RetiredOwnsNothing, Reassigned, ContractSurvives,
     CustodianNamed, KeyHasReceipt, PredecessorsRetired
<1>3. OwnHandlers'
  BY <1>1 DEF OwnInv, OwnHandlers, OneWriter, WriterStands, OnePublisher, Rewriting, Declared,
     GeneratedWrittenByCustodian, Line, OwningStates, ValidPlan
<1> QED
  BY <1>2, <1>3 DEF OwnInv

\* The targets of an artifact are reconciled under its lock: the other handlers
\* have other artifacts, and a page whose publication is under way keeps its owner.
LEMMA ReconcileKeeps ==
    ASSUME OwnInv, NEW h \in Handlers, NEW a \in DOMAIN artifacts,
           NEW D \in SUBSET TargetPages, Reconcile(a, D), Declared(a),
           owning' = [owning EXCEPT ![h] = NotOwning],
           \A g \in Handlers \ {h} : Rewriting(g) => owning[g].artifact # a,
           \A g \in Handlers \ {h} : owning[g].stage = "publishing" =>
               D \subseteq TargetsOf(a),
           active' \subseteq Automata,
           declareReceipts \subseteq declareReceipts',
           declareReceipts' \subseteq Automata \X DeclareKeys,
           targetPages' \in [TargetPages -> PageRow],
           \A p \in TargetPages : Generated(p) \/ p \in D \ TargetsOf(a)
                                  => targetPages'[p].generated
    PROVE  OwnInv'
<1>1. owning \in [Handlers -> OwningStates] /\ TablesTyped /\ OwnTables /\ WriterStands
  BY DEF OwnInv, OwnHandlers, OwnTables
<1>2. /\ OwnTables' /\ custody' = custody /\ DOMAIN artifacts' = DOMAIN artifacts
      /\ \A b \in DOMAIN artifacts :
             /\ artifacts'[b].predecessor = artifacts[b].predecessor
             /\ artifacts'[b].status = artifacts[b].status
      /\ \A p \in TargetPages : targets'[p] = IF p \in D THEN a
                                    ELSE IF targets[p] = a THEN None ELSE targets[p]
  BY <1>1, ReconcileTables
<1>3. \A g \in Handlers : owning'[g] = IF g = h THEN NotOwning ELSE owning[g]
  BY <1>1
<1>4. NotOwning.stage = "idle"
  BY DEF NotOwning
<1>5. \A g \in Handlers : Rewriting(g) /\ owning'[g] = owning[g] =>
          artifacts'[owning[g].artifact].status = "DECLARED"
  BY <1>1, <1>2, OwningShapes DEF WriterStands, Declared
<1>6. \A g \in Handlers : owning[g].stage = "publishing" /\ owning'[g] = owning[g] =>
          targets'[owning[g].page] \in {targets[owning[g].page], None}
  BY <1>1, <1>2, <1>3, <1>4, OwningShapes DEF TargetsOf
<1>7. owning' \in [Handlers -> OwningStates \cup {NotOwning}]
  BY <1>1
<1>8. OwnHandlers'
  BY <1>2, <1>3, <1>5, <1>6, <1>7, HandlersKeep DEF Declared
<1> QED
  BY <1>2, <1>8 DEF OwnInv

\* An artifact is succeeded under its lock: its pages go to the successor, which
\* has the line of the one it succeeds.
LEMMA SucceedKeeps ==
    ASSUME OwnInv, NEW h \in Handlers, NEW a \in DOMAIN artifacts,
           NEW D \in SUBSET TargetPages, NEW k \in DeclareKeys \cup {None},
           Succeed(a, D, k), Declared(a),
           owning' = [owning EXCEPT ![h] = NotOwning],
           \A g \in Handlers \ {h} : Rewriting(g) => owning[g].artifact # a,
           \A g \in Handlers \ {h} : owning[g].stage = "publishing" =>
               D \subseteq TargetsOf(a),
           active' \subseteq Automata,
           declareReceipts \subseteq declareReceipts',
           declareReceipts' \subseteq Automata \X DeclareKeys,
           k # None => <<artifacts[a].declaredBy, k>> \in declareReceipts',
           targetPages' \in [TargetPages -> PageRow],
           \A p \in TargetPages : Generated(p) \/ p \in D \ TargetsOf(a)
                                  => targetPages'[p].generated
    PROVE  OwnInv'
<1> DEFINE n == Len(artifacts) + 1
<1>1. /\ owning \in [Handlers -> OwningStates] /\ TablesTyped /\ OwnTables
      /\ WriterStands /\ None \notin DOMAIN artifacts
  BY ArtifactShapes DEF OwnInv, OwnHandlers, OwnTables
<1>2. OwnTables'
  BY <1>1, SucceedTables
<1>3. /\ n \notin DOMAIN artifacts /\ DOMAIN artifacts' = DOMAIN artifacts \cup {n}
      /\ \A b \in DOMAIN artifacts \ {a} : artifacts'[b] = artifacts[b]
      /\ artifacts'[a].status = "RETIRED"
      /\ artifacts'[a].predecessor = artifacts[a].predecessor
      /\ artifacts'[n].predecessor = a
      /\ \A b \in DOMAIN artifacts : custody'[b] = custody[b]
      /\ targets' = Retarget(a, n, D)
  BY <1>1, SucceedRows
<1>4. \A p \in TargetPages : targets'[p] = IF p \in D THEN n
                                 ELSE IF targets[p] = a THEN None ELSE targets[p]
  BY <1>1, <1>3, RetargetRows
<1>5. \A g \in Handlers : owning'[g] = IF g = h THEN NotOwning ELSE owning[g]
  BY <1>1
<1>6. NotOwning.stage = "idle"
  BY DEF NotOwning
<1>7. \A g \in Handlers : Rewriting(g) /\ owning'[g] = owning[g] =>
          artifacts'[owning[g].artifact].status = "DECLARED"
  <2> SUFFICES ASSUME NEW g \in Handlers, Rewriting(g), owning'[g] = owning[g]
               PROVE  artifacts'[owning[g].artifact].status = "DECLARED"
    OBVIOUS
  <2>1. g # h
    BY <1>5, <1>6 DEF Rewriting
  <2>2. owning[g].artifact \in DOMAIN artifacts \ {a}
    BY <1>1, <2>1, OwningShapes
  <2> QED
    BY <1>1, <1>3, <2>2 DEF WriterStands, Declared
<1>8. \A g \in Handlers : owning[g].stage = "publishing" /\ owning'[g] = owning[g] =>
          LET p == owning[g].page
          IN  \/ targets'[p] \in {targets[p], None}
              \/ /\ targets'[p] \in DOMAIN artifacts' /\ targets[p] \in DOMAIN artifacts
                 /\ artifacts'[targets'[p]].predecessor = targets[p]
                 /\ Declared(targets[p])
  <2> SUFFICES ASSUME NEW g \in Handlers, owning[g].stage = "publishing",
                      owning'[g] = owning[g]
               PROVE  LET p == owning[g].page
                      IN  \/ targets'[p] \in {targets[p], None}
                          \/ /\ targets'[p] \in DOMAIN artifacts'
                             /\ targets[p] \in DOMAIN artifacts
                             /\ artifacts'[targets'[p]].predecessor = targets[p]
                             /\ Declared(targets[p])
    OBVIOUS
  <2>1. g # h /\ owning[g].page \in TargetPages
    BY <1>1, <1>5, <1>6, OwningShapes
  <2>2. D \subseteq TargetsOf(a)
    BY <2>1
  <2>3. CASE owning[g].page \in D
    <3>1. targets[owning[g].page] = a /\ targets'[owning[g].page] = n
      BY <1>4, <2>1, <2>2, <2>3 DEF TargetsOf
    <3> QED
      BY <1>3, <3>1
  <2>4. CASE owning[g].page \notin D
    BY <1>4, <2>1, <2>4
  <2> QED
    BY <2>3, <2>4
<1>9. owning' \in [Handlers -> OwningStates \cup {NotOwning}]
  BY <1>1
<1>10. \A c \in DOMAIN artifacts :
          /\ artifacts'[c].predecessor = artifacts[c].predecessor
          /\ artifacts'[c].status = "DECLARED" => Declared(c)
          /\ custody[c] \subseteq custody'[c]
  BY <1>3 DEF Declared
<1>11. OwnHandlers'
  <2>1. \A g \in Handlers : owning'[g] \in {owning[g], NotOwning}
    BY <1>5
  <2>2. DOMAIN artifacts \subseteq DOMAIN artifacts'
    BY <1>3
  <2> QED
    BY <1>7, <1>8, <1>9, <1>10, <2>1, <2>2, HandlersKeep
<1> QED
  BY <1>2, <1>11 DEF OwnInv

\* Targets are reconciled or handed off in the transaction that has checked them.
LEMMA WriteStep ==
    ASSUME OwnInv, NEW h \in Handlers, WriteTargets(h)
    PROVE  OwnInv'
<1>1. PICK a : a = owning[h].artifact
  OBVIOUS
<1>2. PICK D : D = owning[h].desired
  OBVIOUS
<1>3. PICK added : added = D \ TargetsOf(a)
  OBVIOUS
<1>4. /\ owning \in [Handlers -> OwningStates] /\ OwnTables /\ TablesTyped
      /\ active \subseteq Automata /\ declareReceipts \subseteq Automata \X DeclareKeys
  BY DEF OwnInv, OwnHandlers, OwnTables, TablesTyped
<1>5. /\ Rewriting(h) /\ (added # {} => PagesFree)
      /\ targetPages' = Adopt(added)
      /\ owning' = [owning EXCEPT ![h] = NotOwning] /\ active' = active
  BY <1>1, <1>2, <1>3 DEF WriteTargets, Rewriting
<1>6. a \in DOMAIN artifacts /\ D \in SUBSET TargetPages /\ Declared(a)
  BY <1>1, <1>2, <1>4, <1>5, OwningShapes DEF OwnInv, OwnHandlers, WriterStands
<1>7. \A g \in Handlers \ {h} : Rewriting(g) => owning[g].artifact # a
  BY <1>1, <1>5 DEF OwnInv, OwnHandlers, OneWriter
<1>8. \A g \in Handlers \ {h} : owning[g].stage = "publishing" => D \subseteq TargetsOf(a)
  BY <1>3, <1>5 DEF PagesFree
<1>9. /\ targetPages' \in [TargetPages -> PageRow]
      /\ \A p \in TargetPages : Generated(p) \/ p \in D \ TargetsOf(a)
                                => targetPages'[p].generated
  BY <1>3, <1>4, <1>5, AdoptedPages
<1>10. CASE owning[h].stage = "reconciling"
  <2>1. Reconcile(a, D) /\ declareReceipts' = declareReceipts
    BY <1>1, <1>2, <1>10 DEF WriteTargets
  <2> QED
    BY <1>4, <1>5, <1>6, <1>7, <1>8, <1>9, <2>1, ReconcileKeeps
<1>11. CASE owning[h].stage = "succeeding"
  <2>1. PICK k : k = owning[h].key
    OBVIOUS
  <2>2. /\ Succeed(a, D, k)
        /\ declareReceipts' = declareReceipts \cup {<<artifacts[a].declaredBy, k>>}
    BY <1>1, <1>2, <1>11, <2>1 DEF WriteTargets
  <2>3. k \in DeclareKeys
    BY <1>4, <1>11, <2>1, OwningShapes
  <2>4. artifacts[a].declaredBy \in Automata
    BY <1>4, <1>6, ArtifactShapes DEF ArtifactRow
  <2>5. declareReceipts' \subseteq Automata \X DeclareKeys
    BY <1>4, <2>2, <2>3, <2>4
  <2> QED
    BY <1>4, <1>5, <1>6, <1>7, <1>8, <1>9, <2>2, <2>3, <2>5, SucceedKeeps
<1> QED
  BY <1>5, <1>10, <1>11 DEF Rewriting

\* A change is published with the plan that it carries.
LEMMA PublishStep ==
    ASSUME OwnInv, NEW h \in Handlers, Publish(h)
    PROVE  OwnInv'
<1>1. PICK plan : plan = owning[h].plan
  OBVIOUS
<1>2. PICK p : p = owning[h].page
  OBVIOUS
<1>3. PICK to : to = owning[h].to
  OBVIOUS
<1>4. /\ owning \in [Handlers -> OwningStates] /\ OwnTables /\ TablesTyped
      /\ active \subseteq Automata /\ declareReceipts \subseteq Automata \X DeclareKeys
      /\ targetPages \in [TargetPages -> PageRow]
  BY DEF OwnInv, OwnHandlers, OwnTables, TablesTyped
<1>5. /\ owning[h].stage = "publishing" /\ owning' = [owning EXCEPT ![h] = NotOwning]
      /\ active' = active /\ declareReceipts' = declareReceipts
  BY DEF Publish
<1>6. p \in TargetPages /\ to \in {"active", "archived"} /\ plan \in {None} \cup ValidPlan
  BY <1>1, <1>2, <1>3, <1>4, <1>5, OwningShapes
<1>7. ASSUME NEW P \in [TargetPages -> PageRow]
      PROVE  LET w == [P EXCEPT ![p].status = to]
             IN  /\ w \in [TargetPages -> PageRow]
                 /\ \A q \in TargetPages : w[q].generated = P[q].generated
  <2>1. [P[p] EXCEPT !.status = to] \in PageRow
        /\ [P[p] EXCEPT !.status = to].generated = P[p].generated
    BY <1>6 DEF PageRow
  <2> QED
    BY <1>6, <2>1
<1>8. \A g \in Handlers \ {h} : owning[g].stage # "publishing"
  BY <1>5 DEF OwnInv, OwnHandlers, OnePublisher
<1>9. CASE plan = None
  <2>1. /\ targetPages' = [targetPages EXCEPT ![p].status = to]
        /\ UNCHANGED <<artifacts, targets, custody>>
    BY <1>1, <1>2, <1>3, <1>9 DEF Publish
  <2>2. targetPages' \in [TargetPages -> PageRow]
        /\ \A q \in TargetPages : targetPages'[q].generated = Generated(q)
    BY <1>4, <1>7, <2>1 DEF Generated
  <2>3. OwnTables'
    BY <1>5, <2>1, <2>2 DEF OwnInv, OwnTables, TablesTyped, ArtifactRow,
       OneDeclarationPerKey, Declared, OwnedIsGenerated, Generated, RetiredOwnsNothing,
       Reassigned, ContractSurvives, CustodianNamed, KeyHasReceipt, PredecessorsRetired
  <2>4. OwnHandlers'
    <3>1. \A g \in Handlers : owning'[g] \in {owning[g], NotOwning}
      BY <1>4, <1>5
    <3>2. owning' \in [Handlers -> OwningStates \cup {NotOwning}]
      BY <1>4, <1>5
    <3>3. \A g \in Handlers : Rewriting(g) => artifacts'[owning[g].artifact].status = "DECLARED"
      BY <2>1 DEF OwnInv, OwnHandlers, WriterStands, Declared
    <3> QED
      BY <2>1, <3>1, <3>2, <3>3, HandlersKeep DEF Declared
  <2> QED
    BY <2>3, <2>4 DEF OwnInv
<1>10. CASE plan # None
  <2>1. PICK a : a = plan.artifact
    OBVIOUS
  <2>2. PICK D : D = plan.desired
    OBVIOUS
  <2>3. a \in DOMAIN artifacts /\ D \in SUBSET TargetPages
        /\ plan.mode \in {"IN_PLACE", "SUCCESSOR"}
    BY <1>6, <1>10, <2>1, <2>2 DEF ValidPlan
  <2>4. /\ ArtifactFree(a) /\ Declared(a)
        /\ IF plan.mode = "IN_PLACE" THEN Reconcile(a, D) ELSE Succeed(a, D, None)
        /\ targetPages' = [Adopt(D \ TargetsOf(a)) EXCEPT ![p].status = to]
    BY <1>1, <1>2, <1>3, <1>10, <2>1, <2>2 DEF Publish, Custodian
  <2>5. \A g \in Handlers \ {h} : Rewriting(g) => owning[g].artifact # a
    BY <2>4 DEF ArtifactFree, Rewriting
  <2>6. /\ targetPages' \in [TargetPages -> PageRow]
        /\ \A q \in TargetPages : Generated(q) \/ q \in D \ TargetsOf(a)
                                  => targetPages'[q].generated
    <3>1. PICK P : P = Adopt(D \ TargetsOf(a))
      OBVIOUS
    <3>2. /\ P \in [TargetPages -> PageRow]
          /\ \A q \in TargetPages : Generated(q) \/ q \in D \ TargetsOf(a) => P[q].generated
      BY <1>4, <3>1, AdoptedPages
    <3> QED
      BY <1>7, <2>4, <3>1, <3>2
  <2>7. CASE plan.mode = "IN_PLACE"
    BY <1>4, <1>5, <1>8, <2>3, <2>4, <2>5, <2>6, <2>7, ReconcileKeeps
  <2>8. CASE plan.mode = "SUCCESSOR"
    <3>1. Succeed(a, D, None)
      BY <2>4, <2>8
    <3> QED
      BY <1>4, <1>5, <1>8, <2>3, <2>4, <2>5, <2>6, <3>1, SucceedKeeps
  <2> QED
    BY <2>3, <2>7, <2>8
<1> QED
  BY <1>9, <1>10

\* The invariant holds of the empty tables and is kept by every transaction.
THEOREM OwnershipInvariant == OwnershipSpec => []OwnInv
<1>1. OwnershipInit => OwnInv
  <2> SUFFICES ASSUME OwnershipInit PROVE OwnInv
    OBVIOUS
  <2>1. artifacts = <<>> /\ custody = <<>> /\ DOMAIN artifacts = {} /\ Len(artifacts) = 0
    BY DEF OwnershipInit
  <2>2. /\ \A p \in TargetPages : targets[p] = None
        /\ \A h \in Handlers : owning[h] = NotOwning /\ owning[h].stage = "idle"
    BY DEF OwnershipInit, NotOwning
  <2>3. TablesTyped
    BY <2>1 DEF OwnershipInit, TablesTyped, PageRow
  <2>4. OwnTables
    BY <2>1, <2>2, <2>3 DEF OwnTables, OneDeclarationPerKey, OwnedIsGenerated,
       RetiredOwnsNothing, ContractSurvives, CustodianNamed, KeyHasReceipt,
       PredecessorsRetired
  <2>5. owning \in [Handlers -> OwningStates]
    BY DEF OwnershipInit, OwningStates
  <2> QED
    BY <2>2, <2>4, <2>5 DEF OwnInv, OwnHandlers, OneWriter, WriterStands, OnePublisher,
       Rewriting, GeneratedWrittenByCustodian
<1>2. OwnInv /\ [OwnershipNext]_ownershipVars => OwnInv'
  <2> SUFFICES ASSUME OwnInv, [OwnershipNext]_ownershipVars PROVE OwnInv'
    OBVIOUS
  <2>1. ASSUME NEW by \in Automata, NEW k \in DeclareKeys, NEW key \in ArtifactKeys,
               NEW P \in SUBSET TargetPages, NEW c \in Contracts \cup {{}},
               DeclareArtifact(by, k, key, P, c)
        PROVE  OwnInv'
    BY <2>1, DeclareStep
  <2>2. ASSUME NEW h \in Handlers, NEW a \in DOMAIN artifacts, NEW by \in Automata,
               NEW D \in SUBSET TargetPages, CheckTargets(h, a, by, D, "reconciling", None)
        PROVE  OwnInv'
    BY <2>2, CheckStep
  <2>3. ASSUME NEW h \in Handlers, NEW a \in DOMAIN artifacts, NEW by \in Automata,
               NEW D \in SUBSET TargetPages, NEW k \in DeclareKeys,
               CheckTargets(h, a, by, D, "succeeding", k)
        PROVE  OwnInv'
    BY <2>3, CheckStep
  <2>4. ASSUME NEW h \in Handlers, WriteTargets(h) \/ AbandonOwnership(h) \/ Publish(h)
        PROVE  OwnInv'
    BY <2>4, WriteStep, AbandonStep, PublishStep
  <2>5. ASSUME NEW a \in DOMAIN artifacts, NEW c \in Contracts,
               BootstrapSetContract(a, c)
               \/ \E by \in Automata : UpdateExecutionContract(a, by, c)
        PROVE  OwnInv'
    BY <2>5, ContractStep
  <2>6. ASSUME NEW a \in DOMAIN artifacts, NEW by \in Automata, RetireArtifact(a, by)
        PROVE  OwnInv'
    BY <2>6, RetireStep
  <2>7. ASSUME NEW a \in DOMAIN artifacts, NEW to \in Automata, ReassignCustody(a, to)
        PROVE  OwnInv'
    BY <2>7, ReassignStep
  <2>8. ASSUME NEW by \in Automata, RevokeAutomaton(by)
        PROVE  OwnInv'
    BY <2>8, RevokeStep
  <2>9. ASSUME NEW h \in Handlers, NEW by \in Automata \cup {Person},
               NEW p \in TargetPages, NEW to \in {"active", "archived"}, NEW plan \in Plans,
               EvaluateChange(h, by, p, to, plan)
        PROVE  OwnInv'
    BY <2>9, EvaluateStep
  <2>10. CASE UNCHANGED ownershipVars
    BY <2>10 DEF ownershipVars, OwnInv, OwnTables, OwnHandlers, TablesTyped, ArtifactRow,
       OneDeclarationPerKey, Declared, OwnedIsGenerated, Generated, RetiredOwnsNothing,
       Reassigned, ContractSurvives, CustodianNamed, KeyHasReceipt, PredecessorsRetired,
       OneWriter, WriterStands, OnePublisher, Rewriting, GeneratedWrittenByCustodian, Line,
       OwningStates, ValidPlan
  <2> QED
    BY <2>1, <2>2, <2>3, <2>4, <2>5, <2>6, <2>7, <2>8, <2>9, <2>10 DEF OwnershipNext
<1> QED
  BY <1>1, <1>2, PTL DEF OwnershipSpec

\* Custody is exclusive and guarded (artifact_ownership.py, the publication guard):
\* whatever principals declare, adopt, hand off, retire, reassign and publish at once.
THEOREM OwnershipIsSafe == OwnershipSpec => []OwnershipSafe
<1>1. OwnInv => OwnershipSafe
  <2> SUFFICES ASSUME OwnInv PROVE OwnershipSafe
    OBVIOUS
  <2>1. TablesTyped /\ owning \in [Handlers -> OwningStates]
    BY DEF OwnInv, OwnTables, OwnHandlers
  <2>2. custody \in [DOMAIN artifacts -> SUBSET Automata]
    BY <2>1, ArtifactShapes DEF TablesTyped
  <2>3. OwnershipTypeOK
    BY <2>1, <2>2, OwningShapes DEF OwnershipTypeOK, TablesTyped
  <2> QED
    BY <2>3 DEF OwnershipSafe, OwnInv, OwnTables, OwnHandlers
<1> QED
  BY <1>1, OwnershipInvariant, PTL

-----------------------------------------------------------------------------
(***************************************************************************)
(* Entities: changes ripple to requests that agents claim, check and       *)
(* complete, while the pages they briefed on move.                         *)
(***************************************************************************)
Briefings == UNION {[P -> Nat] : P \in SUBSET CheckPages}
Statuses == {"OPEN", "CLAIMED", "COMPLETED", "CANCELLED"}

RequestRow ==
    [entity : EntityIds \cup {None}, reason : {"RIPPLE", "MANUAL"}, briefing : Briefings,
     status : Statuses, claimedBy : Agents \cup {None}, completedBy : Agents \cup {None},
     outcome : Outcomes \cup {None}, checks : SUBSET (CheckPages \X Nat),
     changes : SUBSET Corrections, closedAt : Nat]

WritingStates ==
    {NotWriting}
    \cup [stage : {"updating"}, entity : EntityIds, base : Nat, mints : BOOLEAN,
          briefing : SUBSET CheckPages]

PagesTyped ==
    /\ describes \subseteq EntityIds \X CheckPages
    /\ checkPages \in [CheckPages -> [status : {"active", "archived"}, revision : Nat]]
    /\ verified \subseteq CheckPages \X Nat /\ standing \subseteq verified
    /\ corrected \subseteq Corrections

\* What a row that is closed says, and what one that is open does not.
RowStands(w) ==
    /\ w.status = "OPEN" => w.claimedBy = None
    /\ w.status = "COMPLETED" => w.completedBy = w.claimedBy
    /\ \A p \in DOMAIN w.briefing :
        LET checked == <<p, w.briefing[p]>> \in w.checks \cap verified
            changed == \E c \in w.changes \cap corrected : CorrectionPage[c] = p
        IN  /\ w.outcome = "VERIFIED" => checked
            /\ w.outcome = "CORRECTED" => checked \/ changed

RowsStand == requests \in Seq(RequestRow) /\ \A r \in DOMAIN requests : RowStands(requests[r])

RippleAlone ==
    \A e \in EntityIds : \A r, s \in LiveRipples(e) : r = s

\* An entity's row has one writer, which has read it as it is, and which mints
\* a ripple only when none is live.
WriterAlone ==
    \A g, h \in Handlers :
        writing[g].stage = "updating" /\ writing[h].stage = "updating"
        /\ writing[g].entity = writing[h].entity => g = h
WriterRead ==
    \A h \in Handlers : writing[h].stage = "updating" =>
        LET e == writing[h].entity
        IN  /\ entities[e].version = writing[h].base /\ entities[e].status # "NONE"
            /\ writing[h].mints => LiveRipples(e) = {}

EntInv ==
    /\ entities \in [EntityIds -> EntityRow] /\ PagesTyped
    /\ writing \in [Handlers -> WritingStates]
    /\ NoLostUpdate /\ RowsStand /\ RippleAlone /\ WriterAlone /\ WriterRead

-----------------------------------------------------------------------------
\* The fields of a handler's record.
LEMMA WritingShapes ==
    ASSUME writing \in [Handlers -> WritingStates], NEW h \in Handlers
    PROVE  /\ writing[h].stage \in {"idle", "updating"}
           /\ writing[h].stage = "updating" =>
                 /\ writing[h].entity \in EntityIds /\ writing[h].base \in Nat
                 /\ writing[h].mints \in BOOLEAN /\ writing[h].briefing \in SUBSET CheckPages
BY DEF WritingStates, NotWriting

\* A briefing gives each of its pages a revision.
LEMMA BriefingTyped ==
    ASSUME PagesTyped, NEW P \in SUBSET CheckPages
    PROVE  Briefing(P) \in Briefings
<1>1. Briefing(P) \in [P -> Nat]
  BY DEF Briefing, PagesTyped
<1> QED
  BY <1>1 DEF Briefings

\* A row stands as more pages are verified and corrected.
LEMMA RowsKeepStanding ==
    ASSUME NEW w, RowStands(w), verified \subseteq verified', corrected \subseteq corrected',
           NEW u, u = w
    PROVE  RowStands(u)'
BY DEF RowStands

\* One request is claimed or closed: it was live if it is.
LEMMA RequestRowStep ==
    ASSUME EntInv, NEW r \in DOMAIN requests, NEW row \in RequestRow,
           requests' = [requests EXCEPT ![r] = row],
           row.entity = requests[r].entity, row.reason = requests[r].reason,
           row.status \in {"OPEN", "CLAIMED"} => Live(r), RowStands(row),
           unchangedPages, UNCHANGED <<entities, describes, writing>>
    PROVE  EntInv'
<1>1. requests \in Seq(RequestRow)
  BY DEF EntInv, RowsStand
<1>2. /\ requests' \in Seq(RequestRow) /\ DOMAIN requests' = DOMAIN requests
      /\ \A s \in DOMAIN requests : requests'[s] = IF s = r THEN row ELSE requests[s]
  BY <1>1
<1>3. RowsStand'
  BY <1>2 DEF EntInv, RowsStand, RowStands, unchangedPages
<1>4. \A e \in EntityIds : LiveRipples(e)' \subseteq LiveRipples(e)
  BY <1>2 DEF LiveRipples, Ripples, Live
<1>5. RippleAlone'
  BY <1>4 DEF EntInv, RippleAlone
<1>6. WriterRead'
  BY <1>4, WritingShapes DEF EntInv, WriterRead
<1> QED
  BY <1>3, <1>5, <1>6 DEF EntInv, PagesTyped, NoLostUpdate, WriterAlone, unchangedPages, EntityRow

\* A request is added: a ripple only to an entity that has none that is live.
LEMMA AddedRequest ==
    ASSUME EntInv, NEW e \in EntityIds \cup {None}, NEW reason \in {"RIPPLE", "MANUAL"},
           NEW P \in SUBSET CheckPages,
           requests' = Append(requests, NewRequest(e, reason, P)),
           reason = "RIPPLE" => e \in EntityIds /\ LiveRipples(e) = {},
           unchangedPages
    PROVE  /\ RowsStand' /\ RippleAlone'
           /\ \A f \in EntityIds : f # e \/ reason = "MANUAL" =>
                  LiveRipples(f)' = LiveRipples(f)
<1> DEFINE row == NewRequest(e, reason, P)
           n == Len(requests) + 1
<1>1. requests \in Seq(RequestRow) /\ Len(requests) \in Nat /\ n \notin DOMAIN requests
  BY DEF EntInv, RowsStand
<1>2. row \in RequestRow /\ RowStands(row) /\ row.entity = e /\ row.reason = reason
  BY BriefingTyped, NoneIsNoOutcome
  DEF NewRequest, RequestRow, RowStands, EntInv, Outcomes, Statuses
<1> HIDE DEF row
<1>3. /\ requests' \in Seq(RequestRow) /\ DOMAIN requests' = DOMAIN requests \cup {n}
      /\ \A s \in DOMAIN requests : requests'[s] = requests[s]
      /\ requests'[n] = row
  BY <1>1, <1>2 DEF row
<1>4. RowsStand'
  <2>1. \A s \in DOMAIN requests : RowStands(requests'[s])
    BY <1>3 DEF EntInv, RowsStand
  <2>2. \A s \in DOMAIN requests' : RowStands(requests'[s])
    BY <1>2, <1>3, <2>1
  <2> QED
    BY <1>3, <2>2 DEF RowsStand, RowStands, unchangedPages
<1>5. \A f \in EntityIds : f # e \/ reason = "MANUAL" => LiveRipples(f)' = LiveRipples(f)
  BY <1>1, <1>2, <1>3 DEF LiveRipples, Ripples, Live
<1>6. reason = "RIPPLE" => LiveRipples(e)' \subseteq {n}
  BY <1>1, <1>2, <1>3 DEF LiveRipples, Ripples, Live
<1>7. RippleAlone'
  BY <1>5, <1>6 DEF EntInv, RippleAlone
<1> QED
  BY <1>4, <1>5, <1>7

\* The entity's row is created or rewritten while no handler updates it.
LEMMA EntityRowStep ==
    ASSUME EntInv, NEW e \in EntityIds, NEW row \in EntityRow,
           entities' = [entities EXCEPT ![e] = row],
           row.version > 0 => row.base = row.version - 1,
           EntityFree(e) \/ entities[e].status = "NONE",
           unchangedPages, UNCHANGED <<describes, requests, writing>>
    PROVE  EntInv'
<1>1. /\ entities' \in [EntityIds -> EntityRow]
      /\ \A f \in EntityIds : entities'[f] = IF f = e THEN row ELSE entities[f]
  BY DEF EntInv
<1>2. NoLostUpdate'
  BY <1>1 DEF EntInv, NoLostUpdate
<1>3. \A h \in Handlers : writing[h].stage = "updating" => writing[h].entity # e
  BY DEF EntInv, WriterRead, EntityFree
<1>4. WriterRead'
  BY <1>1, <1>3, WritingShapes DEF EntInv, WriterRead, LiveRipples, Ripples, Live
<1> QED
  BY <1>1, <1>2, <1>4, SMTT(30) DEF EntInv, PagesTyped, RowsStand, RowStands, RippleAlone, LiveRipples,
     Ripples, Live, WriterAlone, unchangedPages, EntityRow

\* Entities are created, retired and reactivated.
LEMMA EntityStep ==
    ASSUME EntInv, NEW e \in EntityIds,
           CreateEntity(e)
           \/ \E base \in 1..MaxEntityVersion, status \in {"ACTIVE", "RETIRED"} :
                  RewriteEntity(e, base, status)
    PROVE  EntInv'
<1>1. CASE CreateEntity(e)
  <2>1. PICK row : row = [status |-> "ACTIVE", version |-> 1, changed |-> 0, base |-> 0]
    OBVIOUS
  <2>2. row \in EntityRow /\ row.base = row.version - 1
    BY <2>1 DEF EntityRow
  <2>3. /\ entities' = [entities EXCEPT ![e] = row] /\ entities[e].status = "NONE"
        /\ unchangedPages /\ UNCHANGED <<describes, requests, writing>>
    BY <1>1, <2>1 DEF CreateEntity
  <2> QED
    BY <2>2, <2>3, EntityRowStep
<1>2. ASSUME NEW base \in 1..MaxEntityVersion, NEW status \in {"ACTIVE", "RETIRED"},
             RewriteEntity(e, base, status)
      PROVE  EntInv'
  <2> DEFINE r == entities[e]
             row == [r EXCEPT !.status = status, !.version = r.version + 1, !.base = base]
  <2>1. entities \in [EntityIds -> EntityRow] /\ r \in EntityRow
    BY DEF EntInv
  <2>2. entities' = [entities EXCEPT ![e] = row]
    BY <1>2, <2>1 DEF RewriteEntity
  <2>3. r.version + 1 \in Nat /\ base \in Nat /\ r.version = base
    <3>1. r.version = base
      BY <1>2 DEF RewriteEntity
    <3>2. r.version \in Nat
      BY <2>1 DEF EntityRow
    <3> QED
      BY <3>1, <3>2
  <2>4. ASSUME NEW v \in Nat, NEW b \in Nat
        PROVE  LET w == [r EXCEPT !.status = status, !.version = v, !.base = b]
               IN  w \in EntityRow /\ w.version = v /\ w.base = b
    <3> HIDE DEF r
    <3> QED
      BY <2>1 DEF EntityRow
  <2>5. row \in EntityRow /\ row.version = r.version + 1 /\ row.base = base
    BY <2>3, <2>4
  <2>6. row.base = row.version - 1
    BY <2>3, <2>5
  <2>7. EntityFree(e) /\ unchangedPages /\ UNCHANGED <<describes, requests, writing>>
    BY <1>2 DEF RewriteEntity
  <2> HIDE DEF row
  <2> QED
    BY <2>2, <2>5, <2>6, <2>7, EntityRowStep
<1> QED
  BY <1>1, <1>2

\* A handler takes the lock of the entity's row, and looks for a live ripple.
LEMMA BeginUpdateStep ==
    ASSUME EntInv, NEW h \in Handlers, NEW e \in EntityIds, NEW base \in 1..MaxEntityVersion,
           BeginUpdate(h, e, base)
    PROVE  EntInv'
<1> DEFINE w == [stage |-> "updating", entity |-> e, base |-> base,
                 mints |-> Mints(e), briefing |-> Scope(e)]
<1>1. /\ writing' = [writing EXCEPT ![h] = w] /\ EntityFree(e)
      /\ entities[e].version = base /\ entities[e].status # "NONE"
      /\ unchangedPages /\ UNCHANGED <<entities, describes, requests>>
      /\ writing \in [Handlers -> WritingStates]
  BY DEF BeginUpdate, EntInv
<1>2. w \in WritingStates
  BY DEF WritingStates, Mints, Scope, Described
<1>3. w.stage = "updating" /\ w.entity = e /\ w.base = base
      /\ (w.mints => LiveRipples(e) = {})
  BY DEF Mints
<1> HIDE DEF w
<1>4. /\ writing' \in [Handlers -> WritingStates]
      /\ \A g \in Handlers : writing'[g] = IF g = h THEN w ELSE writing[g]
  BY <1>1, <1>2
<1>5. WriterAlone'
  BY <1>1, <1>3, <1>4 DEF EntInv, WriterAlone, EntityFree
<1>6. WriterRead'
  BY <1>1, <1>3, <1>4 DEF EntInv, WriterRead, LiveRipples, Ripples, Live
<1> QED
  <2>1. PagesTyped' /\ NoLostUpdate'
    BY <1>1 DEF EntInv, PagesTyped, NoLostUpdate, unchangedPages
  <2>2. RowsStand'
    BY <1>1 DEF EntInv, RowsStand, RowStands, unchangedPages
  <2>3. RippleAlone'
    BY <1>1 DEF EntInv, RippleAlone, LiveRipples, Ripples, Live
  <2> QED
    BY <1>1, <1>4, <1>5, <1>6, <2>1, <2>2, <2>3 DEF EntInv, EntityRow

\* The entity's new version is committed with the ripple it asks for.
LEMMA CommitUpdateStep ==
    ASSUME EntInv, NEW h \in Handlers, CommitUpdate(h)
    PROVE  EntInv'
<1>1. PICK e : e = writing[h].entity
  OBVIOUS
<1>2. PICK v : v = entities[e].version + 1
  OBVIOUS
<1>3. /\ writing[h].stage = "updating"
      /\ entities' = [entities EXCEPT ![e].version = v, ![e].base = writing[h].base,
                                      ![e].changed = v]
      /\ IF writing[h].mints
         THEN requests' = Append(requests, NewRequest(e, "RIPPLE", writing[h].briefing))
         ELSE requests' = requests
      /\ writing' = [writing EXCEPT ![h] = NotWriting]
      /\ unchangedPages /\ UNCHANGED describes
  BY <1>1, <1>2 DEF CommitUpdate
<1>4. /\ e \in EntityIds /\ writing[h].base \in Nat /\ writing[h].briefing \in SUBSET CheckPages
      /\ entities[e].version = writing[h].base /\ writing \in [Handlers -> WritingStates]
      /\ entities \in [EntityIds -> EntityRow]
      /\ writing[h].mints => LiveRipples(e) = {}
  BY <1>1, <1>3, WritingShapes DEF EntInv, WriterRead
<1>5. v \in Nat /\ v - 1 = writing[h].base
  BY <1>2, <1>4
<1>6. PICK r : r = entities[e]
  OBVIOUS
<1>7. PICK b : b = writing[h].base
  OBVIOUS
<1>8. PICK row \in EntityRow :
          entities' = [entities EXCEPT ![e] = row] /\ row.version = v /\ row.base = b
  <2>1. r \in EntityRow
    BY <1>4, <1>6
  <2> DEFINE w == [r EXCEPT !.version = v, !.base = b, !.changed = v]
  <2>2. w \in EntityRow /\ w.version = v /\ w.base = b
    BY <1>4, <1>5, <1>7, <2>1 DEF EntityRow
  <2>3. entities' = [entities EXCEPT ![e] = w]
    BY <1>3, <1>4, <1>6, <1>7
  <2> HIDE DEF w
  <2> QED
    BY <2>2, <2>3
<1>9. /\ entities' \in [EntityIds -> EntityRow]
      /\ \A f \in EntityIds : entities'[f] = IF f = e THEN row ELSE entities[f]
  BY <1>4, <1>8
<1>10. NoLostUpdate'
  BY <1>5, <1>7, <1>8, <1>9 DEF EntInv, NoLostUpdate
<1>11. /\ writing' \in [Handlers -> WritingStates]
       /\ \A g \in Handlers : writing'[g] = IF g = h THEN NotWriting ELSE writing[g]
       /\ NotWriting.stage = "idle"
  BY <1>3, <1>4 DEF WritingStates, NotWriting
<1>12. /\ RowsStand' /\ RippleAlone'
       /\ \A f \in EntityIds : f # e => LiveRipples(f)' = LiveRipples(f)
  <2>1. CASE writing[h].mints
    BY <1>3, <1>4, <2>1, AddedRequest
  <2>2. CASE ~writing[h].mints
    BY <1>3, <2>2 DEF EntInv, RowsStand, RowStands, RippleAlone, LiveRipples, Ripples, Live,
       unchangedPages
  <2> QED
    BY <2>1, <2>2
<1>13. WriterAlone'
  BY <1>11 DEF EntInv, WriterAlone
<1>14. WriterRead'
  <2>1. \A g \in Handlers : writing'[g].stage = "updating" =>
            g # h /\ writing'[g] = writing[g]
    BY <1>11
  <2>2. \A g \in Handlers : writing[g].stage = "updating" /\ g # h =>
            writing[g].entity \in EntityIds /\ writing[g].entity # e
    BY <1>1, <1>3, <1>4, WritingShapes DEF EntInv, WriterAlone
  <2>3. \A g \in Handlers : writing[g].stage = "updating" /\ g # h =>
            /\ entities'[writing[g].entity].version = writing[g].base
            /\ entities'[writing[g].entity].status # "NONE"
    BY <1>9, <2>2 DEF EntInv, WriterRead
  <2>4. ASSUME NEW g \in Handlers, writing[g].stage = "updating", g # h, writing[g].mints,
               NEW f, f = writing[g].entity
        PROVE  LiveRipples(f)' = {}
    BY <1>12, <2>2, <2>4 DEF EntInv, WriterRead
  <2> QED
    BY <2>1, <2>3, <2>4 DEF WriterRead
<1> QED
  BY <1>3, <1>9, <1>10, <1>11, <1>12, <1>13, <1>14 DEF EntInv, PagesTyped, unchangedPages, EntityRow

\* A request is asked for by hand.
LEMMA CreateRequestStep ==
    ASSUME EntInv, NEW e \in EntityIds \cup {None}, NEW P \in SUBSET CheckPages,
           CreateRequest(e, P)
    PROVE  EntInv'
<1>1. /\ requests' = Append(requests, NewRequest(e, "MANUAL", P))
      /\ unchangedPages /\ UNCHANGED <<entities, describes, writing>>
  BY DEF CreateRequest
<1>2. /\ RowsStand' /\ RippleAlone'
      /\ \A f \in EntityIds : LiveRipples(f)' = LiveRipples(f)
  BY <1>1, AddedRequest
<1>3. WriterRead'
  BY <1>1, <1>2, WritingShapes DEF EntInv, WriterRead
<1> QED
  BY <1>1, <1>2, <1>3 DEF EntInv, PagesTyped, NoLostUpdate, WriterAlone, unchangedPages, EntityRow

\* A request is claimed, or cancelled.
LEMMA ClaimStep ==
    ASSUME EntInv, NEW r \in DOMAIN requests,
           CancelRequest(r) \/ \E agent \in Agents : ClaimRequest(r, agent)
    PROVE  EntInv'
<1>1. PICK q : q = requests[r]
  OBVIOUS
<1>2. q \in RequestRow /\ RowStands(q) /\ requests \in Seq(RequestRow)
  BY <1>1 DEF EntInv, RowsStand
<1>3. CASE CancelRequest(r)
  <2> DEFINE v == VersionOf(q.entity)
             row == [q EXCEPT !.status = "CANCELLED", !.closedAt = v]
  <2>1. v \in Nat
    BY <1>2 DEF VersionOf, EntInv, EntityRow, RequestRow
  <2>2. requests' = [requests EXCEPT ![r] = row]
    BY <1>1, <1>2, <1>3 DEF CancelRequest
  <2>3. row \in RequestRow /\ row.entity = q.entity /\ row.reason = q.reason
        /\ row.status = "CANCELLED" /\ RowStands(row)
    <3> HIDE DEF v
    <3> QED
      BY <1>2, <2>1 DEF RequestRow, RowStands, Statuses
  <2> HIDE DEF row
  <2> QED
    BY <1>1, <1>3, <2>2, <2>3, RequestRowStep DEF CancelRequest
<1>4. ASSUME NEW agent \in Agents, ClaimRequest(r, agent)
      PROVE  EntInv'
  <2> DEFINE row == [q EXCEPT !.status = "CLAIMED", !.claimedBy = agent]
  <2>1. requests' = [requests EXCEPT ![r] = row]
    BY <1>1, <1>2, <1>4 DEF ClaimRequest
  <2>2. row \in RequestRow /\ row.entity = q.entity /\ row.reason = q.reason
        /\ RowStands(row)
    BY <1>2 DEF RequestRow, RowStands, Statuses
  <2> HIDE DEF row
  <2> QED
    BY <1>1, <1>4, <2>1, <2>2, RequestRowStep DEF ClaimRequest, Live
<1> QED
  BY <1>3, <1>4

\* A request is completed by its claimant with evidence for every page.
LEMMA CompleteStep ==
    ASSUME EntInv, NEW r \in DOMAIN requests, NEW agent \in Agents, NEW outcome \in Outcomes,
           NEW checks \in {{}, verified}, NEW changes \in {{}, corrected}, NEW perPage,
           CompleteRequest(r, agent, outcome, checks, changes, perPage)
    PROVE  EntInv'
<1>1. PICK q : q = requests[r]
  OBVIOUS
<1>2. q \in RequestRow /\ RowStands(q) /\ requests \in Seq(RequestRow) /\ PagesTyped
  BY <1>1 DEF EntInv, RowsStand
<1>3. PICK v : v = VersionOf(q.entity)
  OBVIOUS
<1>4. v \in Nat
  BY <1>2, <1>3 DEF VersionOf, EntInv, EntityRow, RequestRow
<1>5. PICK by : by = IF q.claimedBy = None THEN agent ELSE q.claimedBy
  OBVIOUS
<1>6. by = agent
  BY <1>1, <1>2, <1>5 DEF CompleteRequest, Live, RowStands
<1> DEFINE row == [q EXCEPT !.status = "COMPLETED", !.completedBy = agent, !.claimedBy = by,
                            !.outcome = outcome, !.checks = checks, !.changes = changes,
                            !.closedAt = v]
<1>7. requests' = [requests EXCEPT ![r] = row]
  BY <1>1, <1>2, <1>3, <1>5 DEF CompleteRequest
<1>8. checks \in SUBSET (CheckPages \X Nat) /\ changes \in SUBSET Corrections
  BY <1>2 DEF PagesTyped
<1>9. /\ row \in RequestRow /\ row.entity = q.entity /\ row.reason = q.reason
      /\ row.status = "COMPLETED" /\ row.briefing = q.briefing
      /\ row.completedBy = row.claimedBy
      /\ row.outcome = outcome /\ row.checks = checks /\ row.changes = changes
  BY <1>2, <1>4, <1>6, <1>8 DEF RequestRow, Statuses
<1> HIDE DEF row
<1>10. RowStands(row)
  <2> SUFFICES ASSUME NEW p \in DOMAIN q.briefing
               PROVE  LET checked == <<p, q.briefing[p]>> \in checks \cap verified
                          changed == \E c \in changes \cap corrected : CorrectionPage[c] = p
                      IN  /\ outcome = "VERIFIED" => checked
                          /\ outcome = "CORRECTED" => checked \/ changed
    BY <1>9 DEF RowStands
  <2>1. outcome # "INCONCLUSIVE" =>
            LET o == OutcomeOf(outcome, perPage, p)
            IN  /\ changes \subseteq corrected
                /\ \/ o = "INCONCLUSIVE"
                   \/ o = "VERIFIED" /\ VerifiedOK(r, p, checks)
                   \/ o = "CORRECTED" /\ CorrectedOK(p, changes)
                   \/ outcome = "CORRECTED" /\ VerifiedOK(r, p, checks)
    BY <1>1 DEF CompleteRequest, Reconciled
  <2>2. VerifiedOK(r, p, checks) => <<p, q.briefing[p]>> \in checks \cap verified
    BY <1>1, <1>2 DEF VerifiedOK, PagesTyped
  <2>3. outcome # "MIXED" => OutcomeOf(outcome, perPage, p) = outcome
    BY DEF OutcomeOf
  <2>4. changes \subseteq corrected /\ CorrectedOK(p, changes) =>
            \E c \in changes \cap corrected : CorrectionPage[c] = p
    BY DEF CorrectedOK
  <2> QED
    BY <2>1, <2>2, <2>3, <2>4
<1> QED
  BY <1>1, <1>7, <1>9, <1>10, RequestRowStep DEF CompleteRequest

\* What is verified and what is published meanwhile takes no evidence away.
LEMMA EvidenceStep ==
    ASSUME EntInv,
           (\E p \in CheckPages : VerifyPage(p))
           \/ \E c \in Corrections, status \in {"active", "archived"} :
                  PublishCorrection(c, status)
    PROVE  EntInv'
<1>1. /\ UNCHANGED <<entities, describes, requests, writing>>
      /\ verified \subseteq verified' /\ corrected \subseteq corrected'
  BY DEF VerifyPage, PublishCorrection
<1>2. PagesTyped'
  <2>1. ASSUME NEW p \in CheckPages, VerifyPage(p) PROVE PagesTyped'
    <3>1. <<p, checkPages[p].revision>> \in CheckPages \X Nat
      BY DEF EntInv, PagesTyped
    <3> QED
      BY <2>1, <3>1 DEF VerifyPage, EntInv, PagesTyped
  <2>2. ASSUME NEW c \in Corrections, NEW status \in {"active", "archived"},
               PublishCorrection(c, status)
        PROVE  PagesTyped'
    <3>1. PICK p : p = CorrectionPage[c]
      OBVIOUS
    <3>2. p \in CheckPages
      BY <3>1, CorrectionsHavePages
    <3>3. checkPages' \in [CheckPages -> [status : {"active", "archived"}, revision : Nat]]
      BY <2>2, <3>1, <3>2 DEF PublishCorrection, EntInv, PagesTyped
    <3> QED
      BY <2>2, <3>3 DEF PublishCorrection, EntInv, PagesTyped
  <2> QED
    BY <2>1, <2>2
<1>3. RowsStand'
  <2>1. \A r \in DOMAIN requests : RowStands(requests[r])'
    BY <1>1, RowsKeepStanding DEF EntInv, RowsStand
  <2> QED
    BY <1>1, <2>1 DEF EntInv, RowsStand, RequestRow
<1> QED
  BY <1>1, <1>2, <1>3 DEF EntInv, NoLostUpdate, RippleAlone, LiveRipples, Ripples, Live,
     WriterAlone, WriterRead, EntityRow

\* A page is linked, or a transaction ends that writes nothing.
LEMMA LinkOrAbandonStep ==
    ASSUME EntInv,
           (\E e \in EntityIds, p \in CheckPages : LinkPage(e, p))
           \/ \E h \in Handlers : AbandonWrite(h)
    PROVE  EntInv'
<1>1. ASSUME NEW e \in EntityIds, NEW p \in CheckPages, LinkPage(e, p)
      PROVE  EntInv'
  <2>1. describes' \subseteq EntityIds \X CheckPages
    BY <1>1 DEF LinkPage, EntInv, PagesTyped
  <2>2. UNCHANGED <<entities, checkPages, verified, standing, corrected, requests, writing>>
    BY <1>1 DEF LinkPage, unchangedPages
  <2> QED
    BY <2>1, <2>2 DEF EntInv, PagesTyped, NoLostUpdate, RowsStand, RowStands, RippleAlone,
       LiveRipples, Ripples, Live, WriterAlone, WriterRead, EntityRow
<1>2. ASSUME NEW h \in Handlers, AbandonWrite(h)
      PROVE  EntInv'
  <2>1. /\ writing' \in [Handlers -> WritingStates]
        /\ \A g \in Handlers : writing'[g] = IF g = h THEN NotWriting ELSE writing[g]
        /\ NotWriting.stage = "idle"
    BY <1>2 DEF AbandonWrite, EntInv, WritingStates, NotWriting
  <2> QED
    BY <1>2, <2>1 DEF AbandonWrite, EntInv, PagesTyped, NoLostUpdate, RowsStand, RowStands,
       RippleAlone, LiveRipples, Ripples, Live, WriterAlone, WriterRead, unchangedPages, EntityRow
<1> QED
  BY <1>1, <1>2

\* The invariant holds at first and is kept by every transaction.
THEOREM EntitiesInvariant == EntitiesSpec => []EntInv
<1>1. EntitiesInit => EntInv
  <2> SUFFICES ASSUME EntitiesInit PROVE EntInv
    OBVIOUS
  <2>1. /\ entities \in [EntityIds -> EntityRow] /\ NoLostUpdate
    BY DEF EntitiesInit, EntityRow, NoLostUpdate
  <2>2. requests = <<>> /\ DOMAIN requests = {}
    BY DEF EntitiesInit
  <2>3. writing \in [Handlers -> WritingStates] /\ \A h \in Handlers : writing[h].stage = "idle"
    BY DEF EntitiesInit, WritingStates, NotWriting
  <2>4. PagesTyped
    BY DEF EntitiesInit, PagesTyped
  <2>5. RowsStand /\ RippleAlone
    BY <2>2 DEF RowsStand, RippleAlone, LiveRipples, Ripples
  <2> QED
    BY <2>1, <2>3, <2>4, <2>5 DEF EntInv, WriterAlone, WriterRead
<1>2. EntInv /\ [EntitiesNext]_entityVars => EntInv'
  <2> SUFFICES ASSUME EntInv, [EntitiesNext]_entityVars PROVE EntInv'
    OBVIOUS
  <2>1. ASSUME NEW e \in EntityIds,
               CreateEntity(e)
               \/ \E base \in 1..MaxEntityVersion, status \in {"ACTIVE", "RETIRED"} :
                      RewriteEntity(e, base, status)
        PROVE  EntInv'
    BY <2>1, EntityStep
  <2>2. CASE (\E e \in EntityIds, p \in CheckPages : LinkPage(e, p))
             \/ \E h \in Handlers : AbandonWrite(h)
    BY <2>2, LinkOrAbandonStep
  <2>3. ASSUME NEW h \in Handlers, NEW e \in EntityIds, NEW base \in 1..MaxEntityVersion,
               BeginUpdate(h, e, base)
        PROVE  EntInv'
    BY <2>3, BeginUpdateStep
  <2>4. ASSUME NEW h \in Handlers, CommitUpdate(h)
        PROVE  EntInv'
    BY <2>4, CommitUpdateStep
  <2>5. ASSUME NEW e \in EntityIds, CreateRequest(e, Scope(e))
        PROVE  EntInv'
    BY <2>5, CreateRequestStep DEF Scope, Described
  <2>6. ASSUME NEW P \in SUBSET {p \in CheckPages : checkPages[p].status = "active"},
               CreateRequest(None, P)
        PROVE  EntInv'
    BY <2>6, CreateRequestStep
  <2>7. ASSUME NEW r \in DOMAIN requests,
               CancelRequest(r) \/ \E agent \in Agents : ClaimRequest(r, agent)
        PROVE  EntInv'
    BY <2>7, ClaimStep
  <2>8. ASSUME NEW r \in {q \in DOMAIN requests : Live(q)}, NEW agent \in Agents,
               NEW outcome \in Outcomes, NEW checks \in {{}, verified},
               NEW changes \in {{}, corrected},
               NEW perPage \in [DOMAIN requests[r].briefing -> PageOutcomes],
               CompleteRequest(r, agent, outcome, checks, changes, perPage)
        PROVE  EntInv'
    BY <2>8, CompleteStep
  <2>9. CASE (\E p \in CheckPages : VerifyPage(p))
             \/ \E c \in Corrections, status \in {"active", "archived"} :
                    PublishCorrection(c, status)
    BY <2>9, EvidenceStep
  <2>10. CASE UNCHANGED entityVars
    BY <2>10 DEF entityVars, EntInv, PagesTyped, NoLostUpdate, RowsStand, RowStands,
       RippleAlone, LiveRipples, Ripples, Live, WriterAlone, WriterRead, EntityRow
  <2> QED
    BY <2>1, <2>2, <2>3, <2>4, <2>5, <2>6, <2>7, <2>8, <2>9, <2>10 DEF EntitiesNext
<1> QED
  BY <1>1, <1>2, PTL DEF EntitiesSpec

\* Entities lose no update, have one live ripple, and requests are closed by their
\* claimant with evidence (model_api, verification_api), however many act at once.
THEOREM EntitiesAreSafe == EntitiesSpec => []EntitiesSafe
<1>1. EntInv => EntitiesSafe
  <2> SUFFICES ASSUME EntInv PROVE EntitiesSafe
    OBVIOUS
  <2>1. OneLiveRipple
    <3> SUFFICES ASSUME NEW e \in EntityIds PROVE Cardinality(LiveRipples(e)) <= 1
      BY DEF OneLiveRipple
    <3>1. CASE LiveRipples(e) = {}
      BY <3>1, FS_EmptySet
    <3>2. CASE LiveRipples(e) # {}
      <4>1. PICK r : r \in LiveRipples(e)
        BY <3>2
      <4>2. LiveRipples(e) = {r}
        BY <4>1 DEF EntInv, RippleAlone
      <4>3. Cardinality({r}) = 1
        BY FS_Singleton
      <4> QED
        BY <4>2, <4>3
    <3> QED
      BY <3>1, <3>2
  <2>2. EntitiesTypeOK
    <3>1. \A r \in DOMAIN requests : requests[r] \in RequestRow
      BY DEF EntInv, RowsStand
    <3>2. \A r \in DOMAIN requests :
              /\ requests[r].status \in {"OPEN", "CLAIMED", "COMPLETED", "CANCELLED"}
              /\ DOMAIN requests[r].briefing \subseteq CheckPages
      BY <3>1 DEF RequestRow, Statuses, Briefings
    <3> QED
      BY <3>2, WritingShapes DEF EntInv, EntitiesTypeOK, PagesTyped
  <2>3. ClosedWithEvidence /\ CompletedByClaimant
    BY DEF EntInv, RowsStand, RowStands, ClosedWithEvidence, CompletedByClaimant
  <2> QED
    BY <2>1, <2>2, <2>3 DEF EntitiesSafe, EntInv
<1> QED
  BY <1>1, EntitiesInvariant, PTL
=============================================================================
