------------------------------- MODULE Corpus -------------------------------
(***************************************************************************)
(* The authored corpus of Docplane (docs.pages, docs.redirects and         *)
(* docs.sections) and the evaluation of a change against it: what          *)
(* publication.evaluate_change does to a working copy, operation by        *)
(* operation, the checks it makes on the resulting candidate corpus, and   *)
(* the checks generator.run makes on a committed corpus before it builds.  *)
(*                                                                         *)
(* Data is abstracted to what these rules tell apart.  A path is a model   *)
(* value with the URL it renders to; a navigation path is a model value    *)
(* with the relation saying which pairs cannot share one navigation tree;  *)
(* a document is a body and the set of paths its links resolve to.         *)
(***************************************************************************)
EXTENDS Integers, Sequences, FiniteSets

CONSTANTS PageIds,      \* resource ids; their order is the commit order
          Paths,        \* source paths ("a/b.md")
          UrlOf,        \* rendered_url: the URL a path is served at
          Navs,         \* navigation paths
          BadNavs,      \* navigation paths build_nav rejects on their own
          NavClash,     \* pairs of navigation paths one tree cannot hold
          Bodies,       \* document texts, links aside
          LinkSets,     \* the sets of links a submitted document may have
          Orders,       \* section orders
          None          \* no path, no navigation path, no body, no identity

ASSUME PageIdsAssumption == PageIds \subseteq Nat
ASSUME NoneAssumption == None \notin Paths \cup Navs \cup Bodies
ASSUME UrlAssumption == DOMAIN UrlOf = Paths
ASSUME NavAssumption ==
    /\ BadNavs \subseteq Navs
    /\ NavClash \subseteq Navs \X Navs
    /\ \A n, m \in Navs : <<n, m>> \in NavClash => <<m, n>> \in NavClash
ASSUME LinkSetsAssumption == LinkSets \subseteq SUBSET Paths

(***************************************************************************)
(* A row of docs.pages.  A revision is a fresh uuid per committed version; *)
(* the page's version number stands for it, and 0 for the uuid of a page   *)
(* that is created in a change and not yet committed, which no client can  *)
(* name.                                                                   *)
(***************************************************************************)
Row == [path : Paths, nav : Navs, body : Bodies, links : SUBSET Paths,
        revision : Nat, status : {"active", "archived"}]

AbsentPage == [path |-> None, nav |-> None, body |-> None, links |-> {},
               revision |-> 0, status |-> "absent"]

Page == Row \cup {AbsentPage}

Redirects == [Paths -> Paths \cup {None}]

CorpusState == [pages : [PageIds -> Page], redirects : Redirects,
                sections : Orders]

Existing(pages) == {i \in PageIds : pages[i].status # "absent"}
Active(pages)   == {i \in PageIds : pages[i].status = "active"}
Sources(redirects) == {s \in Paths : redirects[s] # None}

(***************************************************************************)
(* runtime.state_identity hashes exactly these fields.                     *)
(***************************************************************************)
StateIdentity(c) ==
    [pages |-> [i \in PageIds |->
                  [path |-> c.pages[i].path, nav |-> c.pages[i].nav,
                   revision |-> c.pages[i].revision,
                   status |-> c.pages[i].status]],
     redirects |-> c.redirects, sections |-> c.sections]

-----------------------------------------------------------------------------
(***************************************************************************)
(* Operations.  expected_revision is `rev'; a `nav' of None means the      *)
(* payload leaves the navigation path alone.  PATCH_TEXT stands for every  *)
(* edit that quotes what it replaces (text patches, section replacement    *)
(* and insertion): it applies only where `find' is the text it finds.      *)
(* REPARENT_NAV stands for PATCH_METADATA too.                             *)
(***************************************************************************)
PageOps ==
    [type : {"REPLACE_DOCUMENT"}, page : PageIds, rev : Nat \ {0},
     body : Bodies, links : SUBSET Paths, nav : Navs \cup {None}]
    \cup [type : {"PATCH_TEXT"}, page : PageIds, rev : Nat \ {0},
          find : Bodies, body : Bodies, links : SUBSET Paths]
    \cup [type : {"MOVE_PAGE"}, page : PageIds, rev : Nat \ {0},
          to : Paths, nav : Navs \cup {None}, redirect : BOOLEAN]
    \cup [type : {"REPARENT_NAV"}, page : PageIds, rev : Nat \ {0},
          nav : Navs]
    \cup [type : {"ARCHIVE_PAGE", "RESTORE_PAGE"}, page : PageIds,
          rev : Nat \ {0}]

CreateOps ==
    [type : {"CREATE_PAGE"}, id : PageIds, path : Paths, nav : Navs,
     body : Bodies, links : SUBSET Paths]

RouteOps ==
    [type : {"ADD_REDIRECT"}, from : Paths, to : Paths]
    \cup [type : {"REMOVE_REDIRECT"}, from : Paths]
    \cup [type : {"REORDER_SECTIONS"}, order : Orders]

Ops == PageOps \cup CreateOps \cup RouteOps

PageOpTypes == {"REPLACE_DOCUMENT", "PATCH_TEXT", "MOVE_PAGE",
                "REPARENT_NAV", "ARCHIVE_PAGE", "RESTORE_PAGE"}
RouteOpTypes == {"ADD_REDIRECT", "REMOVE_REDIRECT", "REORDER_SECTIONS"}
AllOpTypes == PageOpTypes \cup {"CREATE_PAGE"} \cup RouteOpTypes

-----------------------------------------------------------------------------
(***************************************************************************)
(* The working copy of one evaluation.  `pages' is by_id; `shadow' holds   *)
(* the entries of the page list that a CREATE_PAGE with the same id has    *)
(* displaced from by_id and that the candidate checks still see.           *)
(***************************************************************************)
Evaluation ==
    [origin : CorpusState, cand : CorpusState,
     shadow : SUBSET [id : PageIds, page : Row],
     moves : Redirects, touched : SUBSET PageIds, created : SUBSET PageIds,
     ok : BOOLEAN]

NoMoves == [p \in Paths |-> None]

\* Mutant: forget to compare the state a change is bound to.
StartUnbound(c, base) ==
    [origin |-> c, cand |-> c, shadow |-> {}, moves |-> NoMoves,
     touched |-> {}, created |-> {}, ok |-> TRUE]

StartEvaluation(c, base) ==
    [origin |-> c, cand |-> c, shadow |-> {}, moves |-> NoMoves,
     touched |-> {}, created |-> {},
     ok |-> base = None \/ base = StateIdentity(c)]

\* Every entry of the page list, with the id it carries.
Entries(ev) ==
    {[id |-> i, page |-> ev.cand.pages[i]] : i \in Existing(ev.cand.pages)}
    \cup ev.shadow

ActiveEntries(ev) == {e \in Entries(ev) : e.page.status = "active"}

(***************************************************************************)
(* When an operation is accepted by the evaluation.                        *)
(***************************************************************************)
\* Mutant: forget expected_revision.
CurrentAnyRevision(ev, o) == ev.cand.pages[o.page].status # "absent"

Current(ev, o) ==
    /\ ev.cand.pages[o.page].status # "absent"
    /\ ev.cand.pages[o.page].revision = o.rev

Accepts(ev, o) ==
    /\ o.type \in PageOpTypes => Current(ev, o)
    /\ o.type = "CREATE_PAGE" =>
          \A e \in Entries(ev) : e.page.path # o.path
    /\ o.type = "PATCH_TEXT" => ev.cand.pages[o.page].body = o.find
    /\ o.type = "MOVE_PAGE" =>
          \A e \in ActiveEntries(ev) : e.id # o.page => e.page.path # o.to
    /\ o.type = "RESTORE_PAGE" =>
          ev.cand.pages[o.page].path \notin Sources(ev.cand.redirects)
    /\ o.type = "ADD_REDIRECT" =>
          \A e \in ActiveEntries(ev) : e.page.path # o.from

(***************************************************************************)
(* What an accepted operation does to the working copy.                    *)
(***************************************************************************)
Edited(page, o) ==
    [page EXCEPT
       !.path = IF o.type = "MOVE_PAGE" THEN o.to ELSE @,
       !.nav = IF o.type \in {"REPLACE_DOCUMENT", "MOVE_PAGE", "REPARENT_NAV"}
                  /\ o.nav # None THEN o.nav ELSE @,
       !.body = IF o.type \in {"REPLACE_DOCUMENT", "PATCH_TEXT"}
                THEN o.body ELSE @,
       !.links = IF o.type \in {"REPLACE_DOCUMENT", "PATCH_TEXT"}
                 THEN o.links ELSE @,
       !.status = IF o.type = "ARCHIVE_PAGE" THEN "archived"
                  ELSE IF o.type = "RESTORE_PAGE" THEN "active" ELSE @]

ApplyPageOp(ev, o) ==
    LET old == ev.cand.pages[o.page]
        edited == [ev EXCEPT !.cand.pages[o.page] = Edited(old, o),
                             !.touched = @ \cup {o.page}]
    IN  IF o.type # "MOVE_PAGE" THEN edited
        ELSE [edited EXCEPT
                !.moves[old.path] = o.to,
                !.cand.redirects[old.path] =
                    IF o.redirect THEN o.to ELSE @]

ApplyCreate(ev, o) ==
    [ev EXCEPT
       !.shadow = IF ev.cand.pages[o.id].status = "absent" THEN @
                  ELSE @ \cup {[id |-> o.id, page |-> ev.cand.pages[o.id]]},
       !.cand.pages[o.id] =
           [path |-> o.path, nav |-> o.nav, body |-> o.body,
            links |-> o.links, revision |-> 0, status |-> "active"],
       !.touched = @ \cup {o.id},
       !.created = @ \cup {o.id}]

ApplyRouteOp(ev, o) ==
    [ev EXCEPT
       !.cand.redirects =
           IF o.type = "ADD_REDIRECT" THEN [@ EXCEPT ![o.from] = o.to]
           ELSE IF o.type = "REMOVE_REDIRECT" THEN [@ EXCEPT ![o.from] = None]
           ELSE @,
       !.cand.sections =
           IF o.type = "REORDER_SECTIONS" THEN o.order ELSE @]

\* One turn of the operation loop; a rejected operation fails the change.
Evaluate(ev, o) ==
    IF ~Accepts(ev, o) THEN [ev EXCEPT !.ok = FALSE]
    ELSE IF o.type \in PageOpTypes THEN ApplyPageOp(ev, o)
    ELSE IF o.type = "CREATE_PAGE" THEN ApplyCreate(ev, o)
    ELSE ApplyRouteOp(ev, o)

\* The working copy after each prefix of ops: the operation loop as a whole.
Evaluations(c, base, ops) ==
    LET after[n \in 0..Len(ops)] ==
          IF n = 0 THEN StartEvaluation(c, base)
          ELSE Evaluate(after[n - 1], ops[n])
    IN  after

(***************************************************************************)
(* After the loop: when pages moved and nothing failed, the links of every *)
(* active page that existed before are rewritten from old to new path, in  *)
(* one simultaneous substitution.                                          *)
(***************************************************************************)
Retarget(links, moves) ==
    {IF moves[l] = None THEN l ELSE moves[l] : l \in links}

\* Mutant: skip the pages the change itself edits.
RepairableUntouched(ev) == {i \in Active(ev.cand.pages) \ ev.touched :
                                ev.origin.pages[i].status # "absent"}

Repairable(ev) == {i \in Active(ev.cand.pages) :
                       ev.origin.pages[i].status # "absent"}

RepairLinks(ev) ==
    IF ~ev.ok \/ Sources(ev.moves) = {} THEN ev
    ELSE LET changed == {i \in Repairable(ev) :
                           Retarget(ev.cand.pages[i].links, ev.moves)
                             # ev.cand.pages[i].links}
         IN  [ev EXCEPT
                !.cand.pages = [i \in PageIds |->
                    IF i \in changed
                    THEN [ev.cand.pages[i] EXCEPT !.links =
                              Retarget(ev.cand.pages[i].links, ev.moves)]
                    ELSE ev.cand.pages[i]],
                !.touched = @ \cup changed]

-----------------------------------------------------------------------------
(***************************************************************************)
(* The checks on a candidate corpus.  `live' is the list of active pages   *)
(* as a set of entries.                                                    *)
(***************************************************************************)
LivePaths(live) == {e.page.path : e \in live}

PathsDistinct(live) ==
    \A e, f \in live : e.page.path = f.page.path => e = f

RedirectsSound(live, redirects) ==
    \A s \in Sources(redirects) :
        /\ s \notin LivePaths(live)
        /\ redirects[s] # s
        /\ redirects[s] \in LivePaths(live)

NavSound(live) ==
    /\ \A e \in live : e.page.nav \notin BadNavs
    /\ \A e, f \in live :
          e # f => <<e.page.nav, f.page.nav>> \notin NavClash

Sound(live, redirects) ==
    /\ PathsDistinct(live)
    /\ RedirectsSound(live, redirects)
    /\ NavSound(live)

\* Mutants: leave out the redirect checks, or the navigation checks.
PassedAnyRedirect(ev) ==
    /\ ev.ok
    /\ PathsDistinct(ActiveEntries(ev))
    /\ NavSound(ActiveEntries(ev))

PassedAnyNav(ev) ==
    /\ ev.ok
    /\ PathsDistinct(ActiveEntries(ev))
    /\ RedirectsSound(ActiveEntries(ev), ev.cand.redirects)

Passed(ev) == ev.ok /\ Sound(ActiveEntries(ev), ev.cand.redirects)

\* The active pages of a committed corpus, as entries.
Live(pages) == {[id |-> i, page |-> pages[i]] : i \in Active(pages)}

(***************************************************************************)
(* What generator.run demands of a committed corpus before it builds: one  *)
(* claim per rendered URL, representable redirects, one navigation tree.   *)
(***************************************************************************)
RoutesValid(live, redirects) ==
    /\ \A e, f \in live :
          UrlOf[e.page.path] = UrlOf[f.page.path] => e = f
    /\ \A s, t \in Sources(redirects) : UrlOf[s] = UrlOf[t] => s = t
    /\ \A e \in live, s \in Sources(redirects) :
          UrlOf[e.page.path] # UrlOf[s]

RedirectsValid(live, redirects) ==
    /\ RedirectsSound(live, redirects)
    /\ \A s \in Sources(redirects) :
          /\ redirects[s] \notin Sources(redirects)
          /\ UrlOf[redirects[s]] # UrlOf[s]

Buildable(c) ==
    /\ RoutesValid(Live(c.pages), c.redirects)
    /\ RedirectsValid(Live(c.pages), c.redirects)
    /\ NavSound(Live(c.pages))

-----------------------------------------------------------------------------
(***************************************************************************)
(* Writing an evaluated candidate.  Rows are written one at a time in the  *)
(* order of their ids, so the constraint UNIQUE (path), which covers       *)
(* archived pages too, sees the new paths of smaller ids and the old paths *)
(* of larger ones; a created id that exists violates the primary key.      *)
(***************************************************************************)
PathWhenWriting(ev, j, k) ==
    IF j \in ev.touched /\ j < k
    THEN ev.cand.pages[j].path ELSE ev.origin.pages[j].path

UniqueViolation(ev) ==
    \/ \E i \in ev.created : ev.origin.pages[i].status # "absent"
    \/ \E k \in ev.touched : \E j \in PageIds \ {k} :
          PathWhenWriting(ev, j, k) = ev.cand.pages[k].path

\* Mutant: a rewritten page keeps its revision.
WrittenInPlace(ev) ==
    [ev.cand EXCEPT !.pages = [i \in PageIds |->
        IF i \in ev.created
        THEN [ev.cand.pages[i] EXCEPT !.revision = 1]
        ELSE ev.cand.pages[i]]]

Written(ev) ==
    [ev.cand EXCEPT !.pages = [i \in PageIds |->
        IF i \in ev.touched
        THEN [ev.cand.pages[i] EXCEPT !.revision =
                IF i \in ev.created THEN 1
                ELSE ev.origin.pages[i].revision + 1]
        ELSE ev.origin.pages[i]]]
=============================================================================
