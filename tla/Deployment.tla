----------------------------- MODULE Deployment -----------------------------
(***************************************************************************)
(* Releases and certification: runtime.deploy_current_state, the build of  *)
(* generator.run / generator._build_site and search.build_index.           *)
(*                                                                         *)
(* One uvicorn process serves every request, so runtime._DEPLOY_LOCK makes *)
(* builds one at a time; publications go on committing meanwhile.  The     *)
(* database, the content directory, the site directory and the search      *)
(* index survive the process; the lock and the requests do not.            *)
(*                                                                         *)
(* A page is the number of the publication that last wrote it, and 0 when  *)
(* no active page has that path: state_identity hashes path and revision   *)
(* of every page, so two states have one identity exactly when they are    *)
(* equal here.  How a publication arrives at its state is the subject of   *)
(* Publication; here any state past its candidate checks may come next.    *)
(***************************************************************************)
EXTENDS Naturals, Sequences, FiniteSets

CONSTANTS Paths,        \* page paths
          UrlOf,        \* the URL each path renders to
          Workers,      \* request handlers that publish or retry
          MaxCommits,   \* bound: publications
          MaxAttempts,  \* bound: deployments
          Crashes,      \* may the process stop between two steps?
          Errors,       \* may I/O, mkdocs, rsync or the database fail?
          Redirect,     \* the artifact of a compatibility route
          None

ASSUME DeploymentAssumption ==
    /\ MaxCommits \in Nat /\ MaxAttempts \in Nat
    /\ Crashes \in BOOLEAN /\ Errors \in BOOLEAN
    /\ None \notin Workers \cup Paths
    /\ Redirect \notin Nat

VARIABLES corpus,       \* the committed corpus: pages and redirects
          attempts,     \* docs.deployment_attempts, in order
          cert,         \* docs.corpus_certification
          receipts,     \* the deployment a change's receipt names
          lock,         \* holder of _DEPLOY_LOCK
          pc,           \* where each worker is
          own,          \* the publication it deploys, 0 for a retry
          cycle,        \* the attempt it made, 0 before that
          build,        \* the state it loaded
          content,      \* DOCS_CONTENT_DIR
          manifest,     \* the managed files of MANIFEST_PATH
          nav,          \* the redirects of MKDOCS_NAV_YML
          staging,      \* STAGING_SITE_DIR
          site,         \* SITE_DIR, what the front serves
          index,        \* the search index
          interrupted,  \* ghost: a request died since the last outcome
          history       \* ghost: the corpora committed so far, in order

database == <<corpus, attempts, cert, receipts>>
files == <<content, manifest, nav, staging, site, index>>
locals == <<own, cycle, build>>
process == <<lock, pc, locals>>
vars == <<database, process, files, interrupted, history>>

Pages == [Paths -> 0..MaxCommits]
Routes == [Paths -> Paths \cup {None}]
States == [pages : Pages, redirects : Routes]
Active(pages) == {p \in Paths : pages[p] # 0}
NoPages == [p \in Paths |-> 0]
NoRoutes == [p \in Paths |-> None]
NoCorpus == [pages |-> NoPages, redirects |-> NoRoutes]

Idle == [w \in Workers |-> "idle"]

Init ==
    /\ corpus = NoCorpus
    /\ attempts = <<>>
    /\ cert = [state |-> "UNAVAILABLE", working |-> None, deployed |-> None]
    /\ receipts = [k \in 1..MaxCommits |-> 0]
    /\ lock = None
    /\ pc = Idle
    /\ own = [w \in Workers |-> 0]
    /\ cycle = [w \in Workers |-> 0]
    /\ build = [w \in Workers |-> NoCorpus]
    /\ content = NoPages
    /\ manifest = {}
    /\ nav = NoRoutes
    /\ staging = NoPages
    /\ site = NoPages
    /\ index = NoPages
    /\ interrupted = FALSE
    /\ history = <<NoCorpus>>

\* Publications committed so far.
Clock == Len(history) - 1

Reach(w, at) == pc' = [pc EXCEPT ![w] = at]

Leave(w) ==
    /\ Reach(w, "idle")
    /\ own' = [own EXCEPT ![w] = 0]
    /\ cycle' = [cycle EXCEPT ![w] = 0]
    /\ build' = [build EXCEPT ![w] = NoCorpus]

-----------------------------------------------------------------------------
(***************************************************************************)
(* Publications.  The candidate checks of evaluate_change keep redirect    *)
(* sources off active pages and redirect targets on them; they do not look *)
(* at rendered URLs.                                                       *)
(***************************************************************************)
Authorable(s) ==
    \A p \in Paths : s.redirects[p] # None =>
        /\ s.pages[p] = 0
        /\ s.pages[s.redirects[p]] # 0

\* Bound: each request that deploys makes at most one attempt.
Room == Len(attempts) + Cardinality({w \in Workers :
            pc[w] \in {"waiting", "locked", "loading"}}) < MaxAttempts

\* The handler of a publish commits its transaction and goes on to deploy.
Publish(w) ==
    /\ pc[w] = "idle"
    /\ Clock < MaxCommits
    /\ Room
    /\ \E kept \in SUBSET Active(corpus.pages), written \in SUBSET Paths,
          redirects \in Routes :
          LET pages == [p \in Paths |-> IF p \in written THEN Clock + 1
                                        ELSE IF p \in kept THEN corpus.pages[p]
                                        ELSE 0]
          IN  corpus' = [pages |-> pages, redirects |-> redirects]
    /\ Authorable(corpus')
    /\ corpus' # corpus
    /\ history' = Append(history, corpus')
    /\ own' = [own EXCEPT ![w] = Clock + 1]
    /\ Reach(w, "waiting")
    /\ UNCHANGED <<attempts, cert, receipts, lock, cycle, build, files,
                   interrupted>>

\* POST /api/v1/publication/retry
Retry(w) ==
    /\ pc[w] = "idle"
    /\ Room
    /\ own' = [own EXCEPT ![w] = 0]
    /\ Reach(w, "waiting")
    /\ UNCHANGED <<database, lock, cycle, build, files, interrupted, history>>

-----------------------------------------------------------------------------
(***************************************************************************)
(* deploy_current_state, first transaction.  load_release_state reads the  *)
(* pages and then the redirects, each statement with a snapshot of its own *)
(* (READ COMMITTED); the attempt becomes visible with the commit.          *)
(***************************************************************************)
\* Mutant: every request builds at once.
TakeNoLock(w) ==
    /\ pc[w] = "waiting"
    /\ lock' = w
    /\ Reach(w, "locked")
    /\ UNCHANGED <<database, locals, files, interrupted, history>>

TakeLock(w) ==
    /\ pc[w] = "waiting"
    /\ lock = None
    /\ lock' = w
    /\ Reach(w, "locked")
    /\ UNCHANGED <<database, locals, files, interrupted, history>>

LoadPages(w) ==
    /\ pc[w] = "locked"
    /\ build' = [build EXCEPT ![w].pages = corpus.pages]
    /\ Reach(w, "loading")
    /\ UNCHANGED <<database, lock, own, cycle, files, interrupted,
                   history>>

LoadRoutes(w) ==
    /\ pc[w] = "loading"
    /\ build' = [build EXCEPT ![w].redirects = corpus.redirects]
    /\ attempts' = Append(attempts, [status |-> "BUILDING", target |-> build'[w],
                                     change |-> own[w]])
    /\ cycle' = [cycle EXCEPT ![w] = Len(attempts')]
    /\ Reach(w, "checking")
    /\ UNCHANGED <<corpus, cert, receipts, lock, own, files, interrupted,
                   history>>

-----------------------------------------------------------------------------
(***************************************************************************)
(* generator.run.  validate_redirects and validate_routes raise before a   *)
(* file is touched.                                                        *)
(***************************************************************************)
RoutesValid(pages) ==
    \A p, q \in Active(pages) : UrlOf[p] = UrlOf[q] => p = q

Buildable(s) == Authorable(s) /\ RoutesValid(s.pages)

Check(w) ==
    /\ pc[w] = "checking"
    /\ Reach(w, IF Buildable(build[w]) THEN "writing" ELSE "failing")
    /\ UNCHANGED <<database, lock, locals, files, interrupted, history>>

\* Files the previous manifest lists and this release does not have.
Retired(w) == {p \in manifest : build[w].pages[p] = 0 /\ content[p] # 0}

UnlinkFile(w, p) ==
    /\ pc[w] = "writing"
    /\ p \in Retired(w)
    /\ content' = [content EXCEPT ![p] = 0]
    /\ UNCHANGED <<database, process, manifest, nav, staging, site, index,
                   interrupted, history>>

Missing(w) == {p \in Active(build[w].pages) : content[p] # build[w].pages[p]}

WriteFile(w, p) ==
    /\ pc[w] = "writing"
    /\ Retired(w) = {}
    /\ p \in Missing(w)
    /\ content' = [content EXCEPT ![p] = build[w].pages[p]]
    /\ UNCHANGED <<database, process, manifest, nav, staging, site, index,
                   interrupted, history>>

\* write_text truncates the manifest before it writes it; an unreadable
\* manifest is read as an empty one.
TruncateManifest(w) ==
    /\ pc[w] = "writing"
    /\ Retired(w) = {} /\ Missing(w) = {}
    /\ manifest' = {}
    /\ Reach(w, "listing")
    /\ UNCHANGED <<database, lock, locals, content, nav, staging, site,
                   index, interrupted, history>>

WriteManifest(w) ==
    /\ pc[w] = "listing"
    /\ manifest' = Active(build[w].pages)
    /\ Reach(w, "routing")
    /\ UNCHANGED <<database, lock, locals, content, nav, staging, site,
                   index, interrupted, history>>

WriteNav(w) ==
    /\ pc[w] = "routing"
    /\ nav' = build[w].redirects
    /\ Reach(w, "building")
    /\ UNCHANGED <<database, lock, locals, content, manifest, staging,
                   site, index, interrupted, history>>

(***************************************************************************)
(* _build_site.  mkdocs renders every file of the content directory, and   *)
(* the redirects plugin writes its stubs over what is there.  The missing  *)
(* redirect artifacts _build_site looks for are an outcome of the plugin   *)
(* and covered by Raise.                                                   *)
(***************************************************************************)
Rendered(pages, redirects) ==
    [p \in Paths |-> IF redirects[p] # None THEN Redirect ELSE pages[p]]

BuildSite(w) ==
    /\ pc[w] = "building"
    /\ staging' = Rendered(content, nav)
    /\ Reach(w, "promoting")
    /\ UNCHANGED <<database, lock, locals, content, manifest, nav, site,
                   index, interrupted, history>>

\* rsync replaces or deletes one file at a time.
PromoteFile(w, p) ==
    /\ pc[w] = "promoting"
    /\ site[p] # staging[p]
    /\ site' = [site EXCEPT ![p] = staging[p]]
    /\ UNCHANGED <<database, process, content, manifest, nav, staging, index,
                   interrupted, history>>

\* Mutant: rsync without --delete.
EndPromotionEarly(w) ==
    /\ pc[w] = "promoting"
    /\ \A p \in Paths : staging[p] # 0 => site[p] = staging[p]
    /\ Reach(w, "indexing")
    /\ UNCHANGED <<database, lock, locals, files, interrupted, history>>

EndPromotion(w) ==
    /\ pc[w] = "promoting"
    /\ site = staging
    /\ Reach(w, "indexing")
    /\ UNCHANGED <<database, lock, locals, files, interrupted, history>>

\* build_index has one caller, which holds _DEPLOY_LOCK: _INDEX_LOCK is free
\* and the pending flag is never set.  The file is replaced atomically.
WriteIndex(w) ==
    /\ pc[w] = "indexing"
    /\ index' = build[w].pages
    /\ Reach(w, "recording")
    /\ UNCHANGED <<database, lock, locals, content, manifest, nav,
                   staging, site, interrupted, history>>

-----------------------------------------------------------------------------
(***************************************************************************)
(* The outcome, recorded in one transaction, after which the lock is free. *)
(* A publication then attaches it to the receipt of its change.            *)
(***************************************************************************)
\* Mutant: the lock is released by hand, and on this path it is not.
SettleHoldingLock(w, status) ==
    /\ attempts' = [attempts EXCEPT ![cycle[w]].status = status]
    /\ lock' = lock
    /\ IF own[w] = 0 THEN Leave(w)
       ELSE Reach(w, "attaching") /\ UNCHANGED locals
    /\ interrupted' = FALSE
    /\ UNCHANGED <<corpus, receipts, files, history>>

Settle(w, status) ==
    /\ attempts' = [attempts EXCEPT ![cycle[w]].status = status]
    /\ lock' = None
    /\ IF own[w] = 0 THEN Leave(w)
       ELSE Reach(w, "attaching") /\ UNCHANGED locals
    /\ interrupted' = FALSE
    /\ UNCHANGED <<corpus, receipts, files, history>>

Complete(w) ==
    /\ pc[w] = "recording"
    /\ cert' = [state |-> "CURRENT", working |-> build[w],
                deployed |-> build[w]]
    /\ Settle(w, "COMPLETED")

\* Mutants: the status of the attempt written as the certification's state;
\* a failure that leaves the working identity as it was.
RecordFailed(w) ==
    /\ pc[w] = "failing"
    /\ cert' = [cert EXCEPT !.state = "FAILED", !.working = build[w]]
    /\ Settle(w, "FAILED")

RecordFailureOnly(w) ==
    /\ pc[w] = "failing"
    /\ cert' = [cert EXCEPT !.state = "DEPLOYMENT_FAILED"]
    /\ Settle(w, "FAILED")

RecordFailure(w) ==
    /\ pc[w] = "failing"
    /\ cert' = [cert EXCEPT !.state = "DEPLOYMENT_FAILED", !.working = build[w]]
    /\ Settle(w, "FAILED")

AttachReceipt(w) ==
    /\ pc[w] = "attaching"
    /\ receipts' = [receipts EXCEPT ![own[w]] = cycle[w]]
    /\ Leave(w)
    /\ UNCHANGED <<corpus, attempts, cert, lock, files, interrupted, history>>

-----------------------------------------------------------------------------
Building == {"checking", "writing", "listing", "routing", "building",
             "promoting", "indexing", "recording"}

\* Any exception of the build is caught and recorded as its failure.
Raise(w) ==
    /\ Errors
    /\ pc[w] \in Building
    /\ Reach(w, "failing")
    /\ UNCHANGED <<database, lock, locals, files, interrupted, history>>

\* A database error outside the try block ends the request: nothing is
\* recorded and the lock is released by the with statement.
LoseDatabase(w) ==
    /\ Errors
    /\ pc[w] \in {"locked", "loading", "failing", "attaching"}
    /\ lock' = IF lock = w THEN None ELSE lock
    /\ Leave(w)
    /\ interrupted' = TRUE
    /\ UNCHANGED <<database, files, history>>

\* The process stops: every request and the lock are gone.
Crash ==
    /\ Crashes
    /\ pc # Idle
    /\ pc' = Idle
    /\ lock' = None
    /\ own' = [w \in Workers |-> 0]
    /\ cycle' = [w \in Workers |-> 0]
    /\ build' = [w \in Workers |-> NoCorpus]
    /\ interrupted' = TRUE
    /\ UNCHANGED <<database, files, history>>

Work(w) ==
    \/ TakeLock(w) \/ LoadPages(w) \/ LoadRoutes(w) \/ Check(w)
    \/ \E p \in Paths : UnlinkFile(w, p) \/ WriteFile(w, p) \/ PromoteFile(w, p)
    \/ TruncateManifest(w) \/ WriteManifest(w) \/ WriteNav(w) \/ BuildSite(w)
    \/ EndPromotion(w) \/ WriteIndex(w)
    \/ Complete(w) \/ RecordFailure(w) \/ AttachReceipt(w)

Next ==
    \/ \E w \in Workers : Publish(w) \/ Retry(w) \/ Work(w)
                          \/ Raise(w) \/ LoseDatabase(w)
    \/ Crash

Spec == Init /\ [][Next]_vars

-----------------------------------------------------------------------------
(***************************************************************************)
(* Properties                                                              *)
(***************************************************************************)
Artifacts == 0..MaxCommits \cup {Redirect}
Stages == Building \cup {"idle", "waiting", "locked", "loading", "failing",
                         "attaching"}
Attempt == [status : {"BUILDING", "COMPLETED", "FAILED"}, target : States,
            change : 0..MaxCommits]

\* Every variable has its type.
TypeOK ==
    /\ corpus \in States
    /\ attempts \in Seq(Attempt)
    /\ cert \in [state : {"UNAVAILABLE", "CURRENT", "DEPLOYMENT_FAILED"},
                 working : States \cup {None}, deployed : States \cup {None}]
    /\ receipts \in [1..MaxCommits -> Nat]
    /\ lock \in Workers \cup {None}
    /\ pc \in [Workers -> Stages]
    /\ own \in [Workers -> 0..MaxCommits]
    /\ cycle \in [Workers -> Nat]
    /\ build \in [Workers -> States]
    /\ content \in Pages /\ manifest \in SUBSET Paths /\ nav \in Routes
    /\ staging \in [Paths -> Artifacts] /\ site \in [Paths -> Artifacts]
    /\ index \in Pages
    /\ interrupted \in BOOLEAN
    /\ history \in Seq(States) /\ Len(history) \in 1..(MaxCommits + 1)

Deploying == \E w \in Workers : pc[w] \notin {"idle", "attaching"}

\* The certification may name another working state than the database has
\* only while a request is still going to deploy, or after one died on its
\* way (deploy_current_state records its target on success and on failure).
DriftIsAccounted ==
    cert.working # corpus =>
        Deploying \/ interrupted \/ cert.state = "UNAVAILABLE"

\* A file an interrupted build left and no manifest lists.
Orphan(p) == content[p] # 0 /\ p \notin manifest

\* With no build on its way, a CURRENT certification names what is served:
\* every path of the site and of the search index is that of the certified
\* state, whatever faults came before, but for the orphans.
CertifiedIsServed ==
    cert.state = "CURRENT" /\ lock = None /\ ~interrupted =>
        LET served == Rendered(cert.deployed.pages, cert.deployed.redirects)
        IN  /\ index = cert.deployed.pages
            /\ \A p \in Paths : site[p] = served[p] \/ Orphan(p)

\* The pages of a state were read no earlier than publication k ended, and
\* its redirects no earlier than its pages.
Includes(target, k) ==
    \E i, j \in (k + 1)..Len(history) :
        /\ i <= j
        /\ target.pages = history[i].pages
        /\ target.redirects = history[j].redirects

TargetsInclude ==
    \A n \in 1..Len(attempts) :
        Includes(attempts[n].target, attempts[n].change)

ReceiptsName ==
    \A k \in 1..MaxCommits : receipts[k] # 0 =>
        /\ receipts[k] <= Len(attempts)
        /\ attempts[receipts[k]].change = k
        /\ attempts[receipts[k]].status # "BUILDING"

\* A deployment made for a change builds a corpus that has the change in it,
\* and the receipt of a change names a deployment made for it that settled.
ReleaseHasChange == TargetsInclude /\ ReceiptsName

\* No release takes a page back to an older revision (builds are serialised
\* and each loads its state under the lock).
NoOlderRelease ==
    [][\A p \in Paths : {site[p], site'[p]} \subseteq Nat \ {0} =>
          site'[p] >= site[p]]_vars

-----------------------------------------------------------------------------
(***************************************************************************)
(* The inductive invariant behind these properties.                        *)
(***************************************************************************)
Loaded(w) == pc[w] \in Building \cup {"failing"}
Holding(w) == Loaded(w) \/ pc[w] \in {"locked", "loading"}

\* The lock is held by the request between taking it and its outcome.
LockHeld == \A w \in Workers : Holding(w) <=> lock = w

\* A request that loaded something older than what is committed now.
Behind(w) ==
    \/ pc[w] = "loading" /\ build[w].pages # corpus.pages
    \/ Loaded(w) /\ build[w] # corpus

Waiting == \E w \in Workers : pc[w] = "waiting"

\* If a build is behind, the publication that overtook it waits to deploy.
NothingMissed ==
    /\ (\E w \in Workers : Behind(w)) => Waiting
    /\ cert.working # corpus /\ cert.state # "UNAVAILABLE" /\ ~interrupted =>
          Waiting \/ \E w \in Workers : Holding(w) /\ ~Behind(w)

\* What a request knows of the history and of its attempt.
Tracked(w) ==
    /\ own[w] < Len(history)
    /\ pc[w] = "loading" =>
          \E i \in (own[w] + 1)..Len(history) :
              build[w].pages = history[i].pages
    /\ Loaded(w) \/ pc[w] = "attaching" =>
          /\ cycle[w] \in 1..Len(attempts)
          /\ attempts[cycle[w]].change = own[w]
    /\ pc[w] = "attaching" =>
          /\ own[w] # 0
          /\ attempts[cycle[w]].status # "BUILDING"

RequestsTracked ==
    /\ corpus = history[Len(history)]
    /\ \A w \in Workers : Tracked(w)

\* x is not a newer revision than y, where both are revisions at all.
NotNewer(x, y) == x \in Nat \ {0} /\ y \in Nat \ {0} => x <= y

\* Revisions move from the corpus to builds, content, staging and site.
FileAges(p) ==
    /\ \A x \in {corpus.pages[p], content[p], staging[p], site[p]} :
          x \in Nat => x <= Clock
    /\ \A x \in {content[p], staging[p], site[p]} :
          NotNewer(x, corpus.pages[p])
    /\ NotNewer(staging[p], content[p])
    /\ NotNewer(site[p], content[p])

BuildAges(w, p) ==
    /\ build[w].pages[p] <= Clock
    /\ NotNewer(build[w].pages[p], corpus.pages[p])
    /\ pc[w] = "loading" \/ Loaded(w) =>
          \A x \in {content[p], staging[p], site[p]} :
              NotNewer(x, build[w].pages[p])
    /\ pc[w] = "promoting" => NotNewer(site[p], staging[p])

Ages == \A p \in Paths : FileAges(p) /\ \A w \in Workers : BuildAges(w, p)

\* The stages that come after each step of a build.
Indexed == {"recording"}
Promoted == Indexed \cup {"indexing"}
Staged == Promoted \cup {"promoting"}
Routed == Staged \cup {"building"}
Listed == Routed \cup {"routing"}
Copied == Listed \cup {"listing"}

\* How far the files of a build agree with the state it loaded.
BuildStages ==
    \A w \in Workers :
        /\ pc[w] \in Copied => \A p \in Active(build[w].pages) :
                                   content[p] = build[w].pages[p]
        /\ pc[w] \in Listed => manifest = Active(build[w].pages)
        /\ pc[w] \in Routed => nav = build[w].redirects
        /\ pc[w] \in Staged => staging = Rendered(content, nav)
        /\ pc[w] \in Promoted => site = staging
        /\ pc[w] \in Indexed => index = build[w].pages

Inductive ==
    /\ TypeOK
    /\ LockHeld
    /\ NothingMissed
    /\ RequestsTracked
    /\ ReleaseHasChange
    /\ Ages
    /\ BuildStages
    /\ CertifiedIsServed

-----------------------------------------------------------------------------
Fairness == \A w \in Workers : WF_vars(Work(w))
FairSpec == Spec /\ Fairness

\* Where nothing crashes, whatever is committed is accounted for in the
\* end: a failed build too records the state it was for and frees the lock.
DriftEnds ==
    Clock > 0 /\ cert.working # corpus ~> cert.working = corpus \/ interrupted

\* As stated by the documents; the code can break each of them:
\* the deployed state is one the database was in,
CertifiedWasCommitted ==
    cert.deployed # None => \E k \in 1..Len(history) : history[k] = cert.deployed

\* a completed release serves the pages of PostgreSQL and no others,
CertifiedIsExact ==
    cert.state = "CURRENT" /\ lock = None /\ ~interrupted =>
        site = Rendered(cert.deployed.pages, cert.deployed.redirects)

\* no build but the certified one is served,
OnlyCertifiedServed ==
    cert.deployed # None /\ lock = None =>
        \A p \in Paths : site[p] = Rendered(cert.deployed.pages,
                                            cert.deployed.redirects)[p]
                         \/ Orphan(p)

\* and a publication is recorded through its deployment receipt.
ReceiptComes == \A k \in 1..MaxCommits : Clock = k ~> receipts[k] # 0
=============================================================================
