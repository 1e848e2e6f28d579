---------------------------- MODULE Publication ----------------------------
(***************************************************************************)
(* Changes and their publication: the request handlers of agent_api and    *)
(* agent_shortcuts_api over docs.changes and docs.change_operations, and   *)
(* publication.validate_change / publish_change over the corpus.           *)
(*                                                                         *)
(* Each worker is one request handler with its own database connection.    *)
(* Its transaction is split at every point where another transaction can   *)
(* be observed (READ COMMITTED): between the status read and the insert of *)
(* add_operation, between the SELECTs of validate_change, and at the locks *)
(* publish_change waits for.  One operation is evaluated per step.         *)
(*                                                                         *)
(* Locks are those of the code: the transaction-scoped advisory lock       *)
(* 'docplane-publication' (pubLock), FOR UPDATE on the change row and, in  *)
(* a publication, FOR UPDATE on every page row.  The foreign keys of       *)
(* docs.change_operations make an insert wait for the last two.            *)
(***************************************************************************)
EXTENDS Corpus

CONSTANTS Changes,      \* change ids
          Workers,      \* concurrent request handlers
          MaxOps,       \* bound: operations per change
          OpTypes,      \* operation types the clients of a run submit
          ClientIds,    \* may a client choose the id of a CREATE_PAGE?
          StartCorpora  \* the corpora a behaviour may start from

\* A corpus as the importer or earlier publications leave it: every page at
\* its first revision, one page per path, and past the candidate checks.
Imported(c) ==
    /\ c \in CorpusState
    /\ \A i \in Existing(c.pages) : c.pages[i].revision = 1
    /\ \A i, j \in Existing(c.pages) :
          c.pages[i].path = c.pages[j].path => i = j
    /\ Sound(Live(c.pages), c.redirects)

ASSUME PublicationAssumption ==
    /\ None \notin Workers \cup Changes
    /\ MaxOps \in Nat
    /\ OpTypes \subseteq AllOpTypes
    /\ ClientIds \in BOOLEAN
ASSUME StartAssumption == \A c \in StartCorpora : Imported(c)

VARIABLES corpus,       \* the committed corpus
          versions,     \* docs.page_versions, per page
          changes,      \* docs.changes with their operations
          pubLock,      \* holder of the advisory lock
          pc,           \* where each worker is
          job,          \* the change it works on
          slot,         \* add_operation: the sequence number it computed
          ev,           \* its evaluation
          next          \* the next operation it evaluates

vars == <<corpus, versions, changes, pubLock, pc, job, slot, ev, next>>

NoChange == [status |-> "none", ops |-> <<>>, base |-> None,
             summary |-> None]

NewChange(base, ops) == [status |-> "DRAFT", ops |-> ops, base |-> base,
                         summary |-> None]

Init ==
    /\ corpus \in StartCorpora
    /\ versions = [i \in PageIds |-> {}]
    /\ changes = [c \in Changes |-> NoChange]
    /\ pubLock = None
    /\ pc = [w \in Workers |-> "idle"]
    /\ job = [w \in Workers |-> None]
    /\ slot = [w \in Workers |-> 0]
    /\ ev = [w \in Workers |-> None]
    /\ next = [w \in Workers |-> 0]

-----------------------------------------------------------------------------
Mutable(c) == changes[c].status \in {"DRAFT", "VALIDATED"}

\* FOR UPDATE on the change row is held from its SELECT to the commit.
ChangeRowHeld(c) ==
    \E w \in Workers :
        job[w] = c /\ pc[w] \in {"loading", "validating", "publishing"}

PageRowsHeld == \E w \in Workers : pc[w] = "publishing"

\* Mutant: the advisory lock is not tied to the transaction.
FinishHoldingLock(w) ==
    /\ pc' = [pc EXCEPT ![w] = "idle"]
    /\ job' = [job EXCEPT ![w] = None]
    /\ slot' = [slot EXCEPT ![w] = 0]
    /\ ev' = [ev EXCEPT ![w] = None]
    /\ next' = [next EXCEPT ![w] = 0]
    /\ pubLock' = pubLock

\* The end of a request: the transaction is over and its locks are gone.
Finish(w) ==
    /\ pc' = [pc EXCEPT ![w] = "idle"]
    /\ job' = [job EXCEPT ![w] = None]
    /\ slot' = [slot EXCEPT ![w] = 0]
    /\ ev' = [ev EXCEPT ![w] = None]
    /\ next' = [next EXCEPT ![w] = 0]
    /\ pubLock' = IF pubLock = w THEN None ELSE pubLock

Reach(w, at) ==
    /\ pc' = [pc EXCEPT ![w] = at]
    /\ UNCHANGED <<slot, ev, next>>

-----------------------------------------------------------------------------
(***************************************************************************)
(* create_change: a change may be bound to the state identity its author   *)
(* read; an unbound one has none.                                          *)
(***************************************************************************)
CreateChange(c, base) ==
    /\ changes[c].status = "none"
    /\ changes' = [changes EXCEPT ![c] = NewChange(base, <<>>)]
    /\ UNCHANGED <<corpus, versions, pubLock, pc, job, slot, ev, next>>

(***************************************************************************)
(* add_operation reads the change's status and the next sequence number    *)
(* without a lock ...                                                      *)
(***************************************************************************)
BeginAdd(w, c) ==
    /\ pc[w] = "idle"
    /\ Mutable(c)
    /\ Len(changes[c].ops) < MaxOps
    /\ pc' = [pc EXCEPT ![w] = "adding"]
    /\ job' = [job EXCEPT ![w] = c]
    /\ slot' = [slot EXCEPT ![w] = Len(changes[c].ops) + 1]
    /\ UNCHANGED <<corpus, versions, changes, pubLock, ev, next>>

Creates(o, i) == o.type = "CREATE_PAGE" /\ o.id = i

CreatedIds == {i \in PageIds : \E c \in Changes :
    \E k \in 1..Len(changes[c].ops) : Creates(changes[c].ops[k], i)}

\* An id the server drew (uuid4), or one the client put in the payload.
IdOffered(i) ==
    \/ ClientIds
    \/ corpus.pages[i].status = "absent" /\ i \notin CreatedIds

(***************************************************************************)
(* The operations a client may submit now: page operations name a page     *)
(* that exists (foreign key) at the revision the client fetched.           *)
(***************************************************************************)
Submitted ==
    LET rev(i) == corpus.pages[i].revision
        present == Existing(corpus.pages)
    IN  {o \in
          {[type |-> "REPLACE_DOCUMENT", page |-> i, rev |-> rev(i),
            body |-> b, links |-> l, nav |-> n] :
              i \in present, b \in Bodies, l \in LinkSets,
              n \in {None}}
          \cup {[type |-> "PATCH_TEXT", page |-> i, rev |-> rev(i),
                 find |-> corpus.pages[i].body, body |-> b, links |-> l] :
              i \in present, b \in Bodies, l \in LinkSets}
          \cup {[type |-> "MOVE_PAGE", page |-> i, rev |-> rev(i), to |-> p,
                 nav |-> None, redirect |-> r] :
              i \in present, p \in Paths, r \in BOOLEAN}
          \cup {[type |-> "REPARENT_NAV", page |-> i, rev |-> rev(i),
                 nav |-> n] : i \in present, n \in Navs}
          \cup {[type |-> t, page |-> i, rev |-> rev(i)] :
              i \in present, t \in {"ARCHIVE_PAGE", "RESTORE_PAGE"}}
          \cup {[type |-> "CREATE_PAGE", id |-> i, path |-> p, nav |-> n,
                 body |-> b, links |-> l] :
              i \in {j \in PageIds : IdOffered(j)}, p \in Paths, n \in Navs,
              b \in Bodies, l \in LinkSets}
          \cup {[type |-> "ADD_REDIRECT", from |-> p, to |-> q] :
              p \in Paths, q \in Paths}
          \cup {[type |-> "REMOVE_REDIRECT", from |-> p] : p \in Paths}
          \cup {[type |-> "REORDER_SECTIONS", order |-> x] : x \in Orders} :
        o.type \in OpTypes}

(***************************************************************************)
(* ... and then inserts the operation and reopens the change, whatever its *)
(* status is by then.  An operation that took the same sequence number     *)
(* first makes the insert fail on UNIQUE (change_id, sequence).            *)
(***************************************************************************)
InsertOperation(w, o) ==
    LET c == job[w] IN
    /\ pc[w] = "adding"
    /\ ~ChangeRowHeld(c)
    /\ o.type \in PageOpTypes => ~PageRowsHeld
    /\ changes' = IF Len(changes[c].ops) + 1 # slot[w] THEN changes
                  ELSE [changes EXCEPT ![c].status = "DRAFT",
                                       ![c].ops = Append(@, o),
                                       ![c].summary = None]
    /\ Finish(w)
    /\ UNCHANGED <<corpus, versions>>

\* Mutant: the UPDATE does not wait for a lock on the row.
AbandonAnyway(c) ==
    /\ Mutable(c)
    /\ changes' = [changes EXCEPT ![c].status = "ABANDONED",
                                  ![c].summary = None]
    /\ UNCHANGED <<corpus, versions, pubLock, pc, job, slot, ev, next>>

(***************************************************************************)
(* abandon_change: one UPDATE guarded by the status.                       *)
(***************************************************************************)
AbandonChange(c) ==
    /\ Mutable(c)
    /\ ~ChangeRowHeld(c)
    /\ changes' = [changes EXCEPT ![c].status = "ABANDONED",
                                  ![c].summary = None]
    /\ UNCHANGED <<corpus, versions, pubLock, pc, job, slot, ev, next>>

-----------------------------------------------------------------------------
(***************************************************************************)
(* validate_change holds the change row; it reads the pages in one         *)
(* statement and the redirects and sections in later ones, without locks.  *)
(***************************************************************************)
BeginValidate(w, c) ==
    /\ pc[w] = "idle"
    /\ ~ChangeRowHeld(c)
    /\ Mutable(c)
    /\ pc' = [pc EXCEPT ![w] = "loading"]
    /\ job' = [job EXCEPT ![w] = c]
    /\ ev' = [ev EXCEPT ![w] = StartEvaluation(corpus, None)]
    /\ UNCHANGED <<corpus, versions, changes, pubLock, slot, next>>

LoadRoutes(w) ==
    /\ pc[w] = "loading"
    /\ pc' = [pc EXCEPT ![w] = "validating"]
    /\ ev' = [ev EXCEPT ![w] =
                StartEvaluation([corpus EXCEPT !.pages = ev[w].origin.pages],
                                changes[job[w]].base)]
    /\ next' = [next EXCEPT ![w] = 1]
    /\ UNCHANGED <<corpus, versions, changes, pubLock, job, slot>>

\* One turn of the operation loop of evaluate_change.
EvaluateNext(w) ==
    /\ pc[w] \in {"validating", "publishing"}
    /\ next[w] <= Len(changes[job[w]].ops)
    /\ ev' = [ev EXCEPT ![w] = Evaluate(@, changes[job[w]].ops[next[w]])]
    /\ next' = [next EXCEPT ![w] = @ + 1]
    /\ UNCHANGED <<corpus, versions, changes, pubLock, pc, job, slot>>

\* The rest of evaluate_change: link repair, then the candidate checks.
Evaluated(w) == next[w] > Len(changes[job[w]].ops)
Result(w) == RepairLinks(ev[w])
ChangePasses(w) == Passed(Result(w)) /\ changes[job[w]].ops # <<>>

\* Mutant: record the identity of the corpus as it is by now.
FinishValidateLate(w) ==
    LET c == job[w] IN
    /\ pc[w] = "validating"
    /\ Evaluated(w)
    /\ changes' = [changes EXCEPT
          ![c].status = IF ChangePasses(w) THEN "VALIDATED" ELSE "DRAFT",
          ![c].summary = StateIdentity(corpus)]
    /\ Finish(w)
    /\ UNCHANGED <<corpus, versions>>

FinishValidate(w) ==
    LET c == job[w] IN
    /\ pc[w] = "validating"
    /\ Evaluated(w)
    /\ changes' = [changes EXCEPT
          ![c].status = IF ChangePasses(w) THEN "VALIDATED" ELSE "DRAFT",
          ![c].summary = StateIdentity(ev[w].origin)]
    /\ Finish(w)
    /\ UNCHANGED <<corpus, versions>>

-----------------------------------------------------------------------------
(***************************************************************************)
(* publish_change: wait for the advisory lock, then for the change row.    *)
(***************************************************************************)
RequestPublish(w, c) ==
    /\ pc[w] = "idle"
    /\ changes[c].status # "none"
    /\ job' = [job EXCEPT ![w] = c]
    /\ Reach(w, "queued")
    /\ UNCHANGED <<corpus, versions, changes, pubLock>>

(***************************************************************************)
(* rollback_page: commit a change whose one operation replaces the page    *)
(* with an earlier version of it, then publish that change.                *)
(***************************************************************************)
RollbackPage(w, c, i, v) ==
    /\ pc[w] = "idle"
    /\ changes[c].status = "none"
    /\ v \in versions[i]
    /\ ~PageRowsHeld
    /\ changes' = [changes EXCEPT ![c] = NewChange(None,
          <<[type |-> "REPLACE_DOCUMENT", page |-> i,
             rev |-> corpus.pages[i].revision, body |-> v.body,
             links |-> v.links, nav |-> v.nav]>>)]
    /\ job' = [job EXCEPT ![w] = c]
    /\ Reach(w, "queued")
    /\ UNCHANGED <<corpus, versions, pubLock>>

TakePublicationLock(w) ==
    /\ pc[w] = "queued"
    /\ pubLock = None
    /\ pubLock' = w
    /\ Reach(w, "locked")
    /\ UNCHANGED <<corpus, versions, changes, job>>

\* A change that is already published is returned as it is.
ReturnSettled(w) ==
    /\ pc[w] = "locked"
    /\ ~ChangeRowHeld(job[w])
    /\ ~Mutable(job[w])
    /\ Finish(w)
    /\ UNCHANGED <<corpus, versions, changes>>

LockChangeAndPages(w) ==
    /\ pc[w] = "locked"
    /\ ~ChangeRowHeld(job[w])
    /\ Mutable(job[w])
    /\ pc' = [pc EXCEPT ![w] = "publishing"]
    /\ ev' = [ev EXCEPT ![w] =
                StartEvaluation(corpus, changes[job[w]].base)]
    /\ next' = [next EXCEPT ![w] = 1]
    /\ UNCHANGED <<corpus, versions, changes, pubLock, job, slot>>

RejectPublish(w) ==
    LET c == job[w] IN
    /\ pc[w] = "publishing"
    /\ Evaluated(w)
    /\ ~ChangePasses(w)
    /\ changes' = [changes EXCEPT
          ![c].status = "DRAFT",
          ![c].summary = StateIdentity(ev[w].origin)]
    /\ Finish(w)
    /\ UNCHANGED <<corpus, versions>>

\* The database refuses a row: the transaction rolls back, and the request
\* ends in a server error that leaves the change as it was.
FailPublish(w) ==
    /\ pc[w] = "publishing"
    /\ Evaluated(w)
    /\ ChangePasses(w)
    /\ UniqueViolation(Result(w))
    /\ Finish(w)
    /\ UNCHANGED <<corpus, versions, changes>>

\* _snapshot_page: ON CONFLICT (resource_id, revision) DO NOTHING.
Snapshot(i, page) ==
    IF \E v \in versions[i] : v.revision = page.revision
    THEN versions[i] ELSE versions[i] \cup {page}

CommitPublish(w) ==
    LET c == job[w]
        r == Result(w)
    IN
    /\ pc[w] = "publishing"
    /\ Evaluated(w)
    /\ ChangePasses(w)
    /\ ~UniqueViolation(r)
    /\ corpus' = Written(r)
    /\ versions' = [i \in PageIds |->
          IF i \in r.touched \ r.created
          THEN Snapshot(i, r.origin.pages[i]) ELSE versions[i]]
    /\ changes' = [changes EXCEPT
          ![c].status = "PUBLISHED",
          ![c].summary = StateIdentity(r.origin)]
    /\ Finish(w)

\* The process or its connection dies: the open transaction is undone.
Crash(w) ==
    /\ pc[w] # "idle"
    /\ Finish(w)
    /\ UNCHANGED <<corpus, versions, changes>>

-----------------------------------------------------------------------------
WorkerStep(w) ==
    \/ LoadRoutes(w)
    \/ EvaluateNext(w)
    \/ FinishValidate(w)
    \/ TakePublicationLock(w)
    \/ ReturnSettled(w)
    \/ LockChangeAndPages(w)
    \/ RejectPublish(w)
    \/ FailPublish(w)
    \/ CommitPublish(w)

Next ==
    \/ \E c \in Changes : \E base \in {None, StateIdentity(corpus)} :
          CreateChange(c, base)
    \/ \E c \in Changes : AbandonChange(c)
    \/ \E w \in Workers, c \in Changes :
          \/ BeginAdd(w, c)
          \/ BeginValidate(w, c)
          \/ RequestPublish(w, c)
          \/ \E i \in PageIds : \E v \in versions[i] : RollbackPage(w, c, i, v)
    \/ \E w \in Workers : \E o \in Submitted : InsertOperation(w, o)
    \/ \E w \in Workers : WorkerStep(w) \/ Crash(w)

Spec == Init /\ [][Next]_vars

(***************************************************************************)
(* Database lock queues are first come, first served, so a worker whose    *)
(* turn comes again and again gets the lock; the steps of a running        *)
(* transaction are its own.                                                *)
(***************************************************************************)
Fairness == \A w \in Workers :
    /\ SF_vars(TakePublicationLock(w))
    /\ SF_vars(ReturnSettled(w) \/ LockChangeAndPages(w))
    /\ SF_vars(\E o \in Submitted : InsertOperation(w, o))
    /\ WF_vars(WorkerStep(w))

FairSpec == Spec /\ Fairness
-----------------------------------------------------------------------------
(***************************************************************************)
(* Properties.                                                             *)
(***************************************************************************)
ChangeStatuses == {"none", "DRAFT", "VALIDATED", "PUBLISHED", "ABANDONED"}
Places == {"idle", "adding", "loading", "validating", "queued", "locked",
           "publishing"}
Busy(w) == pc[w] \in {"loading", "validating", "publishing"}

Identities ==
    [pages : [PageIds -> [path : Paths \cup {None}, nav : Navs \cup {None},
                          revision : Nat,
                          status : {"absent", "active", "archived"}]],
     redirects : Redirects, sections : Orders]

Change == [status : ChangeStatuses, ops : Seq(Ops),
           base : Identities \cup {None}, summary : Identities \cup {None}]

TablesOK ==
    /\ corpus \in CorpusState
    /\ versions \in [PageIds -> SUBSET Row]
    /\ changes \in [Changes -> Change]

WorkersOK ==
    /\ pubLock \in Workers \cup {None}
    /\ pc \in [Workers -> Places]
    /\ job \in [Workers -> Changes \cup {None}]
    /\ slot \in [Workers -> Nat]
    /\ ev \in [Workers -> Evaluation \cup {None}]
    /\ next \in [Workers -> Nat]
    /\ \A w \in Workers :
          /\ pc[w] # "idle" => job[w] \in Changes
          /\ Busy(w) => ev[w] \in Evaluation
          /\ pc[w] \in {"validating", "publishing"} => next[w] > 0

\* The type of the state: the tables hold rows of their declared shape, and
\* a worker holds a change and an evaluation exactly while it works on one.
TypeOK == TablesOK /\ WorkersOK

(***************************************************************************)
(* The committed corpus is sound after every publication, whatever the     *)
(* interleaving of authors: no two active pages share a path, no redirect  *)
(* source is an active page, every redirect reaches an active page, and    *)
(* the active pages form one navigation tree (evaluate_change's candidate  *)
(* checks, against what publish_change actually writes).                   *)
(***************************************************************************)
CorpusSound == Sound(Live(corpus.pages), corpus.redirects)

(***************************************************************************)
(* The corpus a publication evaluates is the corpus it overwrites: the     *)
(* advisory lock and the row locks of publish_change make its              *)
(* PAGE_REVISION_RACE answer unreachable.                                  *)
(***************************************************************************)
NoRevisionRace ==
    \A w \in Workers : pc[w] = "publishing" => ev[w].origin = corpus

(***************************************************************************)
(* docs.page_versions holds each superseded revision of a page exactly     *)
(* once, with no gap: publication snapshots before it overwrites.          *)
(***************************************************************************)
HistoryComplete ==
    \A i \in PageIds :
        /\ {v.revision : v \in versions[i]} = 1..(corpus.pages[i].revision - 1)
        /\ \A u, v \in versions[i] : u.revision = v.revision => u = v

(***************************************************************************)
(* Every committed corpus passes the checks generator.run makes before it  *)
(* builds, so a publication that was accepted can be deployed.             *)
(***************************************************************************)
CommittedCorpusBuilds == Buildable(corpus)

(***************************************************************************)
(* An evaluation that passes can be written: publication never reaches a   *)
(* raw UNIQUE(path) database error.                                        *)
(***************************************************************************)
NoRawDatabaseError ==
    \A w \in Workers :
        pc[w] = "publishing" /\ Evaluated(w) /\ ChangePasses(w)
            => ~UniqueViolation(Result(w))

\* The step publishes change c.
Publishes(c) ==
    changes[c].status # "PUBLISHED" /\ changes'[c].status = "PUBLISHED"

OpsOn(c, i) == {k \in 1..Len(changes[c].ops) :
    changes[c].ops[k].type \in PageOpTypes /\ changes[c].ops[k].page = i}

UpdatesPrepared ==
    /\ corpus' # corpus => \E c \in Changes : Publishes(c)
    /\ \A c \in Changes : Publishes(c) =>
         \A i \in Existing(corpus.pages) :
            LET old == corpus.pages[i]
                new == corpus'.pages[i]
            IN  /\ \A k \in OpsOn(c, i) :
                      /\ changes[c].ops[k].rev = old.revision
                      /\ new.revision = old.revision + 1
                /\ OpsOn(c, i) = {} =>
                      \/ new = old
                      \/ new = [old EXCEPT !.revision = @ + 1,
                                           !.links = new.links]

(***************************************************************************)
(* No lost update: the corpus changes only by publishing a change, every   *)
(* page operation of that change was prepared against the revision it      *)
(* overwrites, and a page the change does not name keeps everything but    *)
(* its links.                                                              *)
(***************************************************************************)
NoLostUpdate == [][UpdatesPrepared]_vars

BaseMatches ==
    \A c \in Changes : Publishes(c) /\ changes[c].base # None
        => changes[c].base = StateIdentity(corpus)

(***************************************************************************)
(* A change bound to a base_state_identity is published only onto exactly  *)
(* that state.                                                             *)
(***************************************************************************)
BaseStateBinds == [][BaseMatches]_vars

(***************************************************************************)
(* Validation predicts publication: a VALIDATED change whose recorded      *)
(* identity is still that of the corpus is not rejected, although          *)
(* validate_change reads without locks and between other commits.          *)
(***************************************************************************)
ValidationPredicts ==
    [][\A w \in Workers :
          /\ pc[w] = "publishing"
          /\ changes[job[w]].status = "VALIDATED"
          /\ changes[job[w]].summary = StateIdentity(corpus)
          => changes'[job[w]].status # "DRAFT"]_vars

HistoryKept ==
    \A i \in Existing(corpus.pages) :
        /\ versions[i] \subseteq versions'[i]
        /\ corpus'.pages[i] # corpus.pages[i] =>
              corpus.pages[i] \in versions'[i]

(***************************************************************************)
(* The history of a page is append-only, and whatever a publication        *)
(* overwrites is in it.                                                    *)
(***************************************************************************)
HistoryKeeps == [][HistoryKept]_vars

(***************************************************************************)
(* "Published changes are immutable audit records"                         *)
(* (docs/architecture/agent-onboarding.md).                                *)
(***************************************************************************)
PublishedImmutable ==
    [][\A c \in Changes :
          changes[c].status = "PUBLISHED" =>
              /\ changes'[c].status = "PUBLISHED"
              /\ changes'[c].ops = changes[c].ops]_vars

(***************************************************************************)
(* A move keeps the meaning of links: when a publication moves pages, a    *)
(* link that led to a page still leads to it, directly or through a        *)
(* redirect, in every active page the change does not rewrite itself.      *)
(***************************************************************************)
Lands(redirects, l) == IF redirects[l] = None THEN l ELSE redirects[l]

Rewrites(c, i) == \E k \in OpsOn(c, i) :
    changes[c].ops[k].type \in {"REPLACE_DOCUMENT", "PATCH_TEXT"}

MovesOf(c, i) == {k \in OpsOn(c, i) : changes[c].ops[k].type = "MOVE_PAGE"}

LinksKept(c) ==
    \A i, q \in Active(corpus.pages) \cap Active(corpus'.pages) :
        ~Rewrites(c, i) /\ corpus.pages[q].path \in corpus.pages[i].links
        => \E l \in corpus'.pages[i].links :
              Lands(corpus'.redirects, l) = corpus'.pages[q].path

LinksFollowMoves ==
    [][\A c \in Changes : Publishes(c) => LinksKept(c)]_vars

(***************************************************************************)
(* The same, for changes that move each page at most once.                 *)
(***************************************************************************)
LinksFollowSingleMoves ==
    [][\A c \in Changes :
          /\ Publishes(c)
          /\ \A i \in PageIds : Cardinality(MovesOf(c, i)) <= 1
          => LinksKept(c)]_vars

(***************************************************************************)
(* Every request ends: nobody waits forever for the advisory lock or for a *)
(* row, whatever the other workers do and even if they crash.              *)
(***************************************************************************)
RequestsEnd ==
    \A w \in Workers : pc[w] # "idle" ~> pc[w] = "idle"

-----------------------------------------------------------------------------
(***************************************************************************)
(* The inductive invariant behind the theorems of PublicationProofs: who   *)
(* holds which lock, and how the working copy of an evaluation relates to  *)
(* its origin and to the operations evaluated so far.                      *)
(***************************************************************************)
Locking ==
    /\ \A w \in Workers :
          /\ pubLock = w <=> pc[w] \in {"locked", "publishing"}
          /\ pc[w] # "idle" => changes[job[w]].status # "none"
    /\ \A w, u \in Workers :
          Busy(w) /\ Busy(u) /\ job[w] = job[u] => w = u

Numbered == \A i \in Existing(corpus.pages) : corpus.pages[i].revision > 0

\* Ids the server draws name one CREATE_PAGE, and an absent page before it.
OneCreatePerId ==
    ClientIds \/
    \A c, d \in Changes :
        \A k \in 1..Len(changes[c].ops), l \in 1..Len(changes[d].ops) :
            /\ changes[c].ops[k].type = "CREATE_PAGE"
            /\ changes[d].ops[l].type = "CREATE_PAGE"
            /\ changes[c].ops[k].id = changes[d].ops[l].id
            => c = d /\ k = l

\* What the working copy has not touched is as the origin has it.
CandidateKept(e) ==
    /\ e.created \subseteq e.touched
    /\ \A i \in PageIds :
          /\ i \notin e.touched => e.cand.pages[i] = e.origin.pages[i]
          /\ i \in e.touched => e.cand.pages[i].status # "absent"
          /\ i \in e.touched \ e.created =>
                e.origin.pages[i].status # "absent"
          /\ i \notin e.created =>
                e.cand.pages[i].revision = e.origin.pages[i].revision

\* e is the working copy once the first n - 1 of ops are evaluated.
WorkingCopy(e, ops, n) ==
    /\ CandidateKept(e)
    /\ \A i \in e.created :
          \E k \in 1..Len(ops) : k < n /\ Creates(ops[k], i)
    /\ \A s \in e.shadow :
          /\ s.id \in e.created
          /\ \/ e.origin.pages[s.id].status # "absent"
             \/ \E k, l \in 1..Len(ops) :
                   k # l /\ Creates(ops[k], s.id) /\ Creates(ops[l], s.id)

EvaluationInv ==
    \A w \in Workers :
        Busy(w) => WorkingCopy(ev[w], changes[job[w]].ops, next[w])

\* What a publication has checked of the first n - 1 operations: the base it
\* is bound to, and the revision each page operation was prepared against.
Checked(e, change, n) ==
    /\ e.ok =>
          /\ change.base = None \/ change.base = StateIdentity(e.origin)
          /\ \A k \in 1..Len(change.ops) :
                k < n /\ change.ops[k].type \in PageOpTypes =>
                   LET i == change.ops[k].page
                   IN  /\ i \in e.touched
                       /\ \/ i \in e.created
                          \/ change.ops[k].rev = e.origin.pages[i].revision
    /\ \A i \in e.touched \ e.created :
          \E k \in 1..Len(change.ops) :
             change.ops[k].type \in PageOpTypes /\ change.ops[k].page = i

PublicationChecks ==
    \A w \in Workers : pc[w] = "publishing" =>
        /\ Mutable(job[w])
        /\ Checked(ev[w], changes[job[w]], next[w])

Inductive ==
    /\ TypeOK
    /\ Locking
    /\ NoRevisionRace
    /\ Numbered
    /\ HistoryComplete
    /\ OneCreatePerId
    /\ EvaluationInv
    /\ PublicationChecks

(***************************************************************************)
(* The invariant behind ValidationPredicts and PublicationIsAtomic: what   *)
(* an evaluation has computed is determined by the corpus it started from  *)
(* and by the change, and that corpus is, page by page, a committed one.   *)
(***************************************************************************)
\* P holds pages as they were committed, now or earlier.
PagesKnown(P) == \A i \in PageIds :
    /\ P[i].revision <= corpus.pages[i].revision
    /\ P[i].revision = corpus.pages[i].revision => P[i] = corpus.pages[i]

WouldPass(c, base, ops) ==
    /\ Passed(RepairLinks(Evaluations(c, base, ops)[Len(ops)]))
    /\ ops # <<>>

UnopenedIsEmpty ==
    \A c \in Changes : changes[c].status = "none" => changes[c] = NoChange

\* e is the evaluation of the first n - 1 operations of the change.
IsEvaluation(e, change, n) ==
    /\ n <= Len(change.ops) + 1
    /\ e = Evaluations(e.origin, change.base, change.ops)[n - 1]

EvaluationsDetermined ==
    \A w \in Workers :
        /\ pc[w] \in {"validating", "publishing"} =>
              IsEvaluation(ev[w], changes[job[w]], next[w])
        /\ pc[w] \in {"loading", "validating"} =>
              PagesKnown(ev[w].origin.pages)

\* A recorded validation is of pages known then, and it passed.
Validates(O, change) ==
    /\ PagesKnown(O.pages)
    /\ StateIdentity(O) = change.summary
    /\ WouldPass(O, change.base, change.ops)

ValidationsBacked ==
    \A c \in Changes : changes[c].status = "VALIDATED" =>
        \E O \in CorpusState : Validates(O, changes[c])

Determined == UnopenedIsEmpty /\ EvaluationsDetermined /\ ValidationsBacked

(***************************************************************************)
(* The invariant behind LinksFollowSingleMoves: where the operations       *)
(* evaluated so far have left paths, links and the map of moves.           *)
(***************************************************************************)
PathsUnique == \A i, j \in Existing(corpus.pages) :
    corpus.pages[i].path = corpus.pages[j].path => i = j

Moves(o, i) == o.type = "MOVE_PAGE" /\ o.page = i

MovesOnce(ops) == \A k, l \in 1..Len(ops), i \in PageIds :
    Moves(ops[k], i) /\ Moves(ops[l], i) => k = l

Untouched(e, ops, n) == \A i \in PageIds :
    IF i \in e.created THEN e.cand.pages[i].revision = 0
    ELSE /\ \/ e.cand.pages[i].path = e.origin.pages[i].path
            \/ \E k \in 1..Len(ops) : k < n /\ Moves(ops[k], i)
         /\ \/ e.cand.pages[i].links = e.origin.pages[i].links
            \/ \E k \in 1..Len(ops) :
                  /\ k < n
                  /\ ops[k].type \in {"REPLACE_DOCUMENT", "PATCH_TEXT"}
                  /\ ops[k].page = i

Moved(e, ops, n) ==
    /\ \A k \in 1..Len(ops), i \in PageIds : k < n /\ Moves(ops[k], i) =>
          /\ e.origin.pages[i].status # "absent"
          /\ e.moves[e.origin.pages[i].path] = ops[k].to
          /\ i \notin e.created => e.cand.pages[i].path = ops[k].to
    /\ \A p \in Paths : e.moves[p] # None =>
          \E k \in 1..Len(ops), i \in PageIds :
             /\ k < n /\ Moves(ops[k], i)
             /\ e.origin.pages[i].path = p

MovesTracked(e, ops, n) ==
    e.ok => Untouched(e, ops, n) /\ (MovesOnce(ops) => Moved(e, ops, n))

PublicationMoves == \A w \in Workers : pc[w] = "publishing" =>
    MovesTracked(ev[w], changes[job[w]].ops, next[w])

Tracked == PathsUnique /\ PublicationMoves
=============================================================================
