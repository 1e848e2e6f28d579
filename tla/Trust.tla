------------------------------- MODULE Trust -------------------------------
(***************************************************************************)
(* Page trust: trust_api (classification, ownership, verification, expiry),*)
(* the SQL function docs.expire_due_verifications, and the part of         *)
(* publication.publish_change that makes the verifications of edited pages *)
(* outdated.                                                               *)
(*                                                                         *)
(* A transaction is split where it can wait for a row lock while it holds  *)
(* others.  verify and publish_change lock the page first and its          *)
(* verifications second, the expiry the other way round; PostgreSQL ends   *)
(* such a wait by aborting one of the transactions.  What a transaction    *)
(* writes becomes visible at its commit.                                   *)
(*                                                                         *)
(* Dates are 1..MaxTime, and 0 a moment that has passed.  `verifiable'     *)
(* says that publication_state and knowledge_class permit a verification.  *)
(***************************************************************************)
EXTENDS Naturals, Sequences, FiniteSets

CONSTANTS Pages,        \* resource ids, numbered in the order of their paths
          Workers,      \* request handlers with their clients
          Owners,       \* principals
          MaxTime,      \* the last date a client may name
          MaxRevision,  \* bound: revisions of a page
          MaxVersion,   \* bound: metadata versions of a page
          None

ASSUME TrustAssumption ==
    /\ Pages \subseteq Nat
    /\ MaxTime \in Nat /\ MaxRevision \in Nat /\ MaxVersion \in Nat
    /\ None \notin Workers \cup Owners \cup Pages \cup Nat

VARIABLES page,           \* docs.pages, the trust columns
          verifications,  \* docs.page_verifications, oldest first
          history,        \* docs.page_metadata_history, oldest first
          pageLock,       \* who holds the lock on a page row
          rowLock,        \* who holds the lock on its VERIFIED verification
          pc,             \* where each worker is
          subject,        \* the page its client read
          seen,           \* what the client read
          loaded,         \* the page rows the transaction read as it locked them
          todo,           \* pages it still has to lock or to write
          scope,          \* publish: touched pages; expiry: pages expired
          cutoff,         \* expiry: the date it was called with
          known           \* expiry: the verifications in its snapshot

tables == <<page, verifications, history>>
locks == <<pageLock, rowLock>>
request == <<subject, seen, loaded, todo, scope, cutoff, known>>
vars == <<tables, locks, pc, request>>

Dates == 0..MaxTime \cup {None}

NewPage == [revision |-> 1, version |-> 1, verification |-> "UNVERIFIED",
            verifiable |-> TRUE, owner |-> None, due |-> None]

NoneSeen == [p \in Pages |-> 0]
NothingLoaded == [p \in Pages |-> NewPage]

Init ==
    /\ page = [p \in Pages |-> NewPage]
    /\ verifications = [p \in Pages |-> <<>>]
    /\ history = [p \in Pages |-> <<>>]
    /\ pageLock = [p \in Pages |-> None]
    /\ rowLock = [p \in Pages |-> None]
    /\ pc = [w \in Workers |-> "idle"]
    /\ subject = [w \in Workers |-> None]
    /\ seen = [w \in Workers |-> NewPage]
    /\ loaded = [w \in Workers |-> NothingLoaded]
    /\ todo = [w \in Workers |-> {}]
    /\ scope = [w \in Workers |-> {}]
    /\ cutoff = [w \in Workers |-> 0]
    /\ known = [w \in Workers |-> NoneSeen]

Reach(w, at) == pc' = [pc EXCEPT ![w] = at]

Released(lock, w) == [p \in Pages |-> IF lock[p] = w THEN None ELSE lock[p]]

\* Mutant: the connection is kept with its transaction open.
FinishHoldingLocks(w) ==
    /\ Reach(w, "idle")
    /\ UNCHANGED locks
    /\ subject' = [subject EXCEPT ![w] = None]
    /\ seen' = [seen EXCEPT ![w] = NewPage]
    /\ loaded' = [loaded EXCEPT ![w] = NothingLoaded]
    /\ todo' = [todo EXCEPT ![w] = {}]
    /\ scope' = [scope EXCEPT ![w] = {}]
    /\ cutoff' = [cutoff EXCEPT ![w] = 0]
    /\ known' = [known EXCEPT ![w] = NoneSeen]

\* The transaction is over: its locks are gone.
Finish(w) ==
    /\ Reach(w, "idle")
    /\ pageLock' = Released(pageLock, w)
    /\ rowLock' = Released(rowLock, w)
    /\ subject' = [subject EXCEPT ![w] = None]
    /\ seen' = [seen EXCEPT ![w] = NewPage]
    /\ loaded' = [loaded EXCEPT ![w] = NothingLoaded]
    /\ todo' = [todo EXCEPT ![w] = {}]
    /\ scope' = [scope EXCEPT ![w] = {}]
    /\ cutoff' = [cutoff EXCEPT ![w] = 0]
    /\ known' = [known EXCEPT ![w] = NoneSeen]

Verified(p) ==
    {n \in 1..Len(verifications[p]) : verifications[p][n].state = "VERIFIED"}

\* The verifications of p with every VERIFIED one in a new state.
Marked(p, state) ==
    [n \in 1..Len(verifications[p]) |->
        IF n \in Verified(p)
        THEN [verifications[p][n] EXCEPT !.state = state]
        ELSE verifications[p][n]]

\* Pages are taken in the order of their paths.
First(p, S) == p \in S /\ \A q \in S : p <= q

-----------------------------------------------------------------------------
(***************************************************************************)
(* A client reads a page (GET .../trust) and submits what it makes of it.  *)
(***************************************************************************)
ReadPage(w, p) ==
    /\ pc[w] = "idle"
    /\ Reach(w, "read")
    /\ subject' = [subject EXCEPT ![w] = p]
    /\ seen' = [seen EXCEPT ![w] = page[p]]
    /\ UNCHANGED <<tables, locks, loaded, todo, scope, cutoff, known>>

\* Mutant: the new row is kept.
ReplaceFirst(p, old, new) ==
    /\ page' = [page EXCEPT ![p] = new]
    /\ history' = [history EXCEPT ![p] = Append(@, new)]

\* Every edit of metadata keeps the row it read and replaces.
Replace(p, old, new) ==
    /\ page' = [page EXCEPT ![p] = new]
    /\ history' = [history EXCEPT ![p] = Append(@, old)]

\* Mutant: nobody compares versions.
FreshAlways(w) == TRUE

\* A version read earlier makes the request fail (PAGE_METADATA_VERSION_STALE).
Fresh(w) == seen[w].version = page[subject[w]].version

Classify(w, verifiable, owner, due) ==
    LET p == subject[w] IN
    /\ pc[w] = "read"
    /\ pageLock[p] = None
    /\ Fresh(w)
    /\ page[p].version < MaxVersion
    /\ Replace(p, page[p], [page[p] EXCEPT !.verifiable = verifiable,
                                           !.owner = owner, !.due = due,
                                           !.version = @ + 1])
    /\ Finish(w)
    /\ UNCHANGED verifications

AssignOwner(w, owner) ==
    LET p == subject[w] IN
    /\ pc[w] = "read"
    /\ pageLock[p] = None
    /\ Fresh(w)
    /\ page[p].version < MaxVersion
    /\ Replace(p, page[p], [page[p] EXCEPT !.owner = owner, !.version = @ + 1])
    /\ Finish(w)
    /\ UNCHANGED verifications

\* A refused request, or a client that leaves it at reading.
Refuse(w) ==
    /\ pc[w] = "read"
    /\ pageLock[subject[w]] = None
    /\ Finish(w)
    /\ UNCHANGED tables

(***************************************************************************)
(* verify compares revisions only; it waits for the page row and then for  *)
(* the verification it revokes.                                            *)
(***************************************************************************)
LockToVerify(w) ==
    LET p == subject[w] IN
    /\ pc[w] = "read"
    /\ pageLock[p] = None
    /\ page[p].revision = seen[w].revision
    /\ page[p].verifiable
    /\ page[p].version < MaxVersion
    /\ pageLock' = [pageLock EXCEPT ![p] = w]
    /\ loaded' = [loaded EXCEPT ![w][p] = page[p]]
    /\ Reach(w, "verifying")
    /\ UNCHANGED <<tables, rowLock, subject, seen, todo, scope, cutoff, known>>

CommitVerify(w, expires) ==
    LET p == subject[w]
        row == [revision |-> loaded[w][p].revision, state |-> "VERIFIED",
                expires |-> expires]
    IN
    /\ pc[w] = "verifying"
    /\ rowLock[p] = None
    /\ Replace(p, loaded[w][p],
               [page[p] EXCEPT !.verification = "VERIFIED",
                               !.due = expires, !.version = @ + 1])
    /\ verifications' = [verifications EXCEPT
                            ![p] = Append(Marked(p, "REVOKED"), row)]
    /\ Finish(w)

-----------------------------------------------------------------------------
(***************************************************************************)
(* docs.expire_due_verifications: one statement.  The verifications due in *)
(* its snapshot are locked, looked at again and marked; then the pages of  *)
(* those it marked.                                                        *)
(***************************************************************************)
\* Of the verifications w knows, those of p that are due now.
DueRows(w, p) ==
    {n \in Verified(p) : /\ n <= known[w][p]
                         /\ verifications[p][n].expires # None
                         /\ verifications[p][n].expires <= cutoff[w]}

DuePages(date) ==
    {p \in Pages : \E n \in Verified(p) :
        /\ verifications[p][n].expires # None
        /\ verifications[p][n].expires <= date}

StartExpire(w, date) ==
    /\ pc[w] = "idle"
    /\ Reach(w, "expiring")
    /\ cutoff' = [cutoff EXCEPT ![w] = date]
    /\ known' = [known EXCEPT ![w] =
                    [p \in Pages |-> Len(verifications[p])]]
    /\ todo' = [todo EXCEPT ![w] = DuePages(date)]
    /\ UNCHANGED <<tables, locks, subject, seen, loaded, scope>>

\* Mutant: a verification somebody else holds is skipped.
ExpireUnlocked(w, p) ==
    /\ pc[w] = "expiring"
    /\ p \in todo[w]
    /\ todo' = [todo EXCEPT ![w] = @ \ {p}]
    /\ IF DueRows(w, p) # {} /\ rowLock[p] = None
       THEN /\ rowLock' = [rowLock EXCEPT ![p] = w]
            /\ scope' = [scope EXCEPT ![w] = @ \cup {p}]
       ELSE UNCHANGED <<rowLock, scope>>
    /\ UNCHANGED <<tables, pageLock, pc, subject, seen, loaded, cutoff, known>>

ExpireRow(w, p) ==
    /\ pc[w] = "expiring"
    /\ p \in todo[w]
    /\ rowLock[p] = None
    /\ todo' = [todo EXCEPT ![w] = @ \ {p}]
    /\ IF DueRows(w, p) # {}
       THEN /\ rowLock' = [rowLock EXCEPT ![p] = w]
            /\ scope' = [scope EXCEPT ![w] = @ \cup {p}]
       ELSE UNCHANGED <<rowLock, scope>>
    /\ UNCHANGED <<tables, pageLock, pc, subject, seen, loaded, cutoff, known>>

RowsExpired(w) ==
    /\ pc[w] = "expiring"
    /\ todo[w] = {}
    /\ Reach(w, "closing")
    /\ todo' = [todo EXCEPT ![w] = scope[w]]
    /\ UNCHANGED <<tables, locks, subject, seen, loaded, scope,
                   cutoff, known>>

ExpirePage(w, p) ==
    /\ pc[w] = "closing"
    /\ p \in todo[w]
    /\ pageLock[p] = None
    /\ pageLock' = IF page[p].verification = "VERIFIED"
                   THEN [pageLock EXCEPT ![p] = w] ELSE pageLock
    /\ todo' = [todo EXCEPT ![w] = @ \ {p}]
    /\ UNCHANGED <<tables, rowLock, pc, subject, seen, loaded, scope, cutoff,
                   known>>

\* Every row it has locked is one it has written.
CommitExpire(w) ==
    /\ pc[w] = "closing"
    /\ todo[w] = {}
    /\ verifications' = [p \in Pages |->
          IF rowLock[p] = w THEN Marked(p, "EXPIRED") ELSE verifications[p]]
    /\ page' = [p \in Pages |->
          IF pageLock[p] = w
          THEN [page[p] EXCEPT !.verification = "EXPIRED",
                               !.due = IF @ = None THEN cutoff[w] ELSE @]
          ELSE page[p]]
    /\ Finish(w)
    /\ UNCHANGED history

-----------------------------------------------------------------------------
(***************************************************************************)
(* publish_change: one publication at a time (advisory lock), every page   *)
(* locked in the order of the paths; then, page by page, the verifications *)
(* of what it touches become outdated.                                     *)
(***************************************************************************)
StartPublish(w, touched) ==
    /\ pc[w] = "idle"
    /\ \A u \in Workers : pc[u] \notin {"locking", "outdating"}
    /\ \A p \in touched : page[p].revision < MaxRevision
    /\ Reach(w, "locking")
    /\ todo' = [todo EXCEPT ![w] = Pages]
    /\ scope' = [scope EXCEPT ![w] = touched]
    /\ UNCHANGED <<tables, locks, subject, seen, loaded, cutoff, known>>

\* Mutant: the pages are read without FOR UPDATE.
LoadPage(w, p) ==
    /\ pc[w] = "locking"
    /\ First(p, todo[w])
    /\ loaded' = [loaded EXCEPT ![w][p] = page[p]]
    /\ todo' = [todo EXCEPT ![w] = @ \ {p}]
    /\ UNCHANGED <<tables, locks, pc, subject, seen, scope, cutoff, known>>

LockPage(w, p) ==
    /\ pc[w] = "locking"
    /\ First(p, todo[w])
    /\ pageLock[p] = None
    /\ pageLock' = [pageLock EXCEPT ![p] = w]
    /\ loaded' = [loaded EXCEPT ![w][p] = page[p]]
    /\ todo' = [todo EXCEPT ![w] = @ \ {p}]
    /\ UNCHANGED <<tables, rowLock, pc, subject, seen, scope, cutoff, known>>

PagesLocked(w) ==
    /\ pc[w] = "locking"
    /\ todo[w] = {}
    /\ Reach(w, "outdating")
    /\ todo' = [todo EXCEPT ![w] = scope[w]]
    /\ UNCHANGED <<tables, locks, subject, seen, loaded, scope,
                   cutoff, known>>

OutdateRow(w, p) ==
    /\ pc[w] = "outdating"
    /\ First(p, todo[w])
    /\ todo' = [todo EXCEPT ![w] = @ \ {p}]
    /\ IF loaded[w][p].verification = "VERIFIED"
       THEN rowLock[p] = None /\ rowLock' = [rowLock EXCEPT ![p] = w]
       ELSE UNCHANGED rowLock
    /\ UNCHANGED <<tables, pageLock, pc, subject, seen, loaded, scope, cutoff,
                   known>>

\* What a publication makes of the trust columns of a page it touches.
Edited(row) ==
    [row EXCEPT
       !.revision = @ + 1,
       !.verification = IF @ = "VERIFIED" THEN "OUTDATED" ELSE @,
       !.due = IF row.verification = "VERIFIED" THEN 0 ELSE @]

CommitPublish(w) ==
    /\ pc[w] = "outdating"
    /\ todo[w] = {}
    /\ page' = [p \in Pages |->
          IF p \in scope[w] THEN Edited(loaded[w][p]) ELSE page[p]]
    /\ verifications' = [p \in Pages |->
          IF rowLock[p] = w THEN Marked(p, "OUTDATED") ELSE verifications[p]]
    /\ Finish(w)
    /\ UNCHANGED history

-----------------------------------------------------------------------------
(***************************************************************************)
(* Locks somebody waits for, and the deadlocks PostgreSQL resolves.        *)
(***************************************************************************)
AwaitedRows(w) ==
    IF pc[w] = "verifying" THEN {subject[w]}
    ELSE IF pc[w] = "expiring" THEN todo[w]
    ELSE IF pc[w] = "outdating"
    THEN {p \in todo[w] : /\ First(p, todo[w])
                          /\ loaded[w][p].verification = "VERIFIED"}
    ELSE {}

AwaitedPages(w) ==
    IF pc[w] = "closing" THEN todo[w]
    ELSE IF pc[w] = "locking" THEN {p \in todo[w] : First(p, todo[w])}
    ELSE {}

Blockers(w) ==
    {rowLock[p] : p \in AwaitedRows(w)} \cup {pageLock[p] : p \in AwaitedPages(w)}

\* Workers that wait for each other, all of them.
Deadlocked(S) ==
    \A w \in S : /\ Blockers(w) # {} /\ Blockers(w) \subseteq S
                 /\ \E u \in S : w \in Blockers(u)

BreakDeadlock(w) ==
    /\ \E S \in SUBSET Workers : w \in S /\ Deadlocked(S)
    /\ Finish(w)
    /\ UNCHANGED tables

\* The request fails in any other way: the transaction is undone.
Crash(w) ==
    /\ pc[w] # "idle"
    /\ Finish(w)
    /\ UNCHANGED tables

Step(w) ==
    \/ Refuse(w)
    \/ \E expires \in 1..MaxTime \cup {None} : CommitVerify(w, expires)
    \/ \E p \in Pages : ExpireRow(w, p) \/ ExpirePage(w, p)
                        \/ LockPage(w, p) \/ OutdateRow(w, p)
    \/ RowsExpired(w) \/ CommitExpire(w)
    \/ PagesLocked(w) \/ CommitPublish(w)
    \/ BreakDeadlock(w)

Client(w) ==
    \/ \E p \in Pages : ReadPage(w, p)
    \/ \E verifiable \in BOOLEAN, owner \in Owners \cup {None},
          due \in 1..MaxTime \cup {None} :
          Classify(w, verifiable, owner, due)
    \/ \E owner \in Owners : AssignOwner(w, owner)
    \/ LockToVerify(w)
    \/ \E date \in 1..MaxTime : StartExpire(w, date)
    \/ \E touched \in SUBSET Pages \ {{}} : StartPublish(w, touched)

Next == \E w \in Workers : Client(w) \/ Step(w) \/ Crash(w)

Spec == Init /\ [][Next]_vars

\* Row lock queues are first come, first served.
Fairness == \A w \in Workers : SF_vars(Step(w))
FairSpec == Spec /\ Fairness

-----------------------------------------------------------------------------
(***************************************************************************)
(* Properties                                                              *)
(***************************************************************************)
Row == [revision : Nat, version : Nat,
        verification : {"UNVERIFIED", "VERIFIED", "OUTDATED", "EXPIRED"},
        verifiable : BOOLEAN, owner : Owners \cup {None}, due : Dates]

Verification == [revision : Nat,
                 state : {"VERIFIED", "REVOKED", "OUTDATED", "EXPIRED"},
                 expires : Dates]

Stages == {"idle", "read", "verifying", "expiring", "closing", "locking",
           "outdating"}

\* Every variable has its type.
TypeOK ==
    /\ page \in [Pages -> Row]
    /\ verifications \in [Pages -> Seq(Verification)]
    /\ history \in [Pages -> Seq(Row)]
    /\ pageLock \in [Pages -> Workers \cup {None}]
    /\ rowLock \in [Pages -> Workers \cup {None}]
    /\ pc \in [Workers -> Stages]
    /\ subject \in [Workers -> Pages \cup {None}]
    /\ seen \in [Workers -> Row]
    /\ loaded \in [Workers -> [Pages -> Row]]
    /\ todo \in [Workers -> SUBSET Pages]
    /\ scope \in [Workers -> SUBSET Pages]
    /\ cutoff \in [Workers -> 0..MaxTime]
    /\ known \in [Workers -> [Pages -> Nat]]

\* A page shows VERIFIED exactly when one verification of it stands, made of
\* the revision the page has now, although verification, publication and
\* expiry lock the two tables in different orders.
VerifiedIsCurrent ==
    \A p \in Pages :
        IF page[p].verification = "VERIFIED"
        THEN \E n \in Verified(p) :
                 /\ Verified(p) = {n}
                 /\ verifications[p][n].revision = page[p].revision
        ELSE Verified(p) = {}

\* Each metadata version a page has had is in its history, once and in order
\* (_snapshot runs before the UPDATE, under the lock of the page).
MetadataHistory ==
    \A p \in Pages :
        /\ Len(history[p]) + 1 = page[p].version
        /\ \A k \in 1..Len(history[p]) : history[p][k].version = k

\* An expiry about to commit has missed none of the verifications that were
\* due when it started, whatever it had to wait for meanwhile.
ExpiryMissesNothing ==
    \A w \in Workers : pc[w] = "closing" =>
        \A p \in Pages \ scope[w] : DueRows(w, p) = {}

\* A verification is of the revision its verifier read, also when
\* publications and other verifications came in between.
VerifierSawIt ==
    [][\A w \in Workers :
          /\ pc[w] = "verifying"
          /\ pc'[w] = "idle"
          /\ verifications' # verifications
          => LET rows == verifications'[subject[w]]
             IN  rows[Len(rows)].revision = seen[w].revision]_vars

\* The worker's step changes its page on behalf of a client who read it.
Edits(w) == pc[w] = "read" /\ pc'[w] = "idle" /\ page' # page

\* Nobody overwrites an owner or a classification without having read it
\* (expected_metadata_version).
NoLostClassification ==
    [][\A w \in Workers : Edits(w) =>
          /\ page[subject[w]].owner = seen[w].owner
          /\ page[subject[w]].verifiable = seen[w].verifiable]_vars

\* As stated by README.md and not so in the code (ReviewDate.cfg): nobody
\* overwrites a review date without having read it.
NoLostReviewDate ==
    [][\A w \in Workers :
          Edits(w) /\ page'[subject[w]].due # page[subject[w]].due =>
              page[subject[w]].due = seen[w].due]_vars

\* Every request ends: whoever waits for a page or a verification gets it or
\* is told of a deadlock.
RequestsEnd == \A w \in Workers : pc[w] # "idle" ~> pc[w] = "idle"

-----------------------------------------------------------------------------
(***************************************************************************)
(* The inductive invariant behind these properties.                        *)
(***************************************************************************)
\* Which page rows a request holds at each of its stages.
PageLocksHeld ==
    \A w \in Workers :
        /\ pc[w] \in {"read", "verifying"} => subject[w] \in Pages
        /\ pc[w] \in {"idle", "read", "expiring"} =>
              \A p \in Pages : pageLock[p] # w
        /\ pc[w] = "verifying" => pageLock[subject[w]] = w
        /\ pc[w] = "closing" => \A p \in Pages :
              pageLock[p] = w <=> p \in scope[w] \ todo[w]
        /\ pc[w] = "locking" => \A p \in Pages \ todo[w] : pageLock[p] = w
        /\ pc[w] = "outdating" => \A p \in Pages : pageLock[p] = w
        /\ pc[w] \in {"closing", "outdating"} => todo[w] \subseteq scope[w]

\* Which verifications it holds; only standing ones are ever held.
RowLocksHeld ==
    /\ \A w \in Workers : pc[w] = "idle" => scope[w] = {}
    /\ \A w \in Workers, p \in Pages :
          /\ pc[w] \in {"idle", "read", "verifying", "locking"} =>
                rowLock[p] # w
          /\ pc[w] \in {"expiring", "closing"} =>
                (rowLock[p] = w <=> p \in scope[w])
          /\ pc[w] = "outdating" =>
                (rowLock[p] = w <=> /\ p \in scope[w] \ todo[w]
                                   /\ page[p].verification = "VERIFIED")
    /\ \A p \in Pages : rowLock[p] # None => page[p].verification = "VERIFIED"

\* What a request read of a row as it locked it is still so.
LoadedIsCurrent ==
    \A w \in Workers :
        /\ pc[w] \in {"verifying", "locking", "outdating"} =>
              \A p \in Pages : pageLock[p] = w => loaded[w][p] = page[p]
        /\ pc[w] = "verifying" =>
              loaded[w][subject[w]].revision = seen[w].revision

\* Owner and classification change only together with the version.
SeenIsOld ==
    \A w \in Workers : pc[w] = "read" =>
        /\ seen[w].version <= page[subject[w]].version
        /\ Fresh(w) =>
              /\ seen[w].owner = page[subject[w]].owner
              /\ seen[w].verifiable = page[subject[w]].verifiable

\* An expiry knows verifications that exist, and has dealt with those of the
\* pages it has left behind.
ExpiryTracked ==
    \A w \in Workers : pc[w] \in {"expiring", "closing"} =>
        \A p \in Pages :
            /\ known[w][p] <= Len(verifications[p])
            /\ p \notin scope[w] /\ (pc[w] = "expiring" => p \notin todo[w]) =>
                  DueRows(w, p) = {}

Inductive ==
    /\ TypeOK
    /\ PageLocksHeld
    /\ RowLocksHeld
    /\ LoadedIsCurrent
    /\ VerifiedIsCurrent
    /\ MetadataHistory
    /\ SeenIsOld
    /\ ExpiryTracked
=============================================================================
