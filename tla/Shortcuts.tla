------------------------------ MODULE Shortcuts ------------------------------
(***************************************************************************)
(* One-call edits of a page (replace_page and patch_page of                *)
(* agent_shortcuts_api): a change is created, given its one operation,     *)
(* validated and published, in transactions of their own, under keys       *)
(* derived from the key of the call.  A call may stop between any two of   *)
(* them, and be sent again, also while it still runs; meanwhile others     *)
(* edit and move the page, abandon the change and add operations to it.    *)
(* The transactions themselves are the module Publication's.               *)
(***************************************************************************)
EXTENDS Requests, Integers, Sequences, FiniteSets

CONSTANTS
    CallKeys,
    Texts,              \* contents a call may ask for
    PagePaths,
    MaxPageRevision

ASSUME RevisionIsBounded == MaxPageRevision \in Nat \ {0}
ASSUME PagesHavePaths == PagePaths # {}
ASSUME NoneIsNoChange ==
    None \notin [status : {"DRAFT", "PUBLISHED", "ABANDONED"}, title : PagePaths,
                ops : Seq([key : CallKeys \cup {None},
                           body : [revision : Nat, text : Texts \cup {None}]])]

VARIABLES
    shortPage,      \* the page: path, revision and content
    shortChanges,   \* key -> the change created under it, or None
    calls,          \* handler -> its call
    replaced,       \* history: key -> the operations published under it, in order
    succeeded,      \* history: what was asked under a key, and the revision answered
    refusals        \* history: what a refusal found

shortcutVars == <<shortPage, shortChanges, calls, replaced, succeeded, refusals>>

NoCall == [stage |-> "idle"]
Bodies == [revision : 1..MaxPageRevision, text : Texts]

ShortcutsInit ==
    /\ shortPage = [path |-> CHOOSE p \in PagePaths : TRUE, revision |-> 1, text |-> None]
    /\ shortChanges = [k \in CallKeys |-> None]
    /\ calls = [h \in Handlers |-> NoCall]
    /\ replaced = [k \in CallKeys |-> <<>>]
    /\ succeeded = {}
    /\ refusals = {}

Change(h) == shortChanges[calls[h].key]
Reach(h, stage) == calls' = [calls EXCEPT ![h].stage = stage]

\* What may stand in the way of the call, when it is refused.
Obstacle(h) ==
    IF Change(h) # None /\ Change(h).status # "DRAFT" THEN Change(h).status
    ELSE IF Change(h) # None /\ Change(h).title # calls[h].title THEN "MOVED"
    ELSE IF shortPage.revision # calls[h].body.revision THEN "EDITED"
    ELSE IF Change(h) # None /\ \E i \in DOMAIN Change(h).ops :
                Change(h).ops[i].key # calls[h].key \/ Change(h).ops[i].body # calls[h].body
         THEN "OTHER_BODY" ELSE "NONE"
Refuse(h) ==
    /\ calls' = [calls EXCEPT ![h] = NoCall]
    /\ refusals' = refusals \cup {Obstacle(h)}

-----------------------------------------------------------------------------
(* Others *)

EditPage ==
    /\ shortPage.revision < MaxPageRevision
    /\ \E p \in PagePaths :
        shortPage' = [path |-> p, revision |-> shortPage.revision + 1, text |-> None]
    /\ UNCHANGED <<shortChanges, calls, replaced, succeeded, refusals>>

AbandonShortcut(k) ==
    /\ shortChanges[k] # None /\ shortChanges[k].status = "DRAFT"
    /\ shortChanges' = [shortChanges EXCEPT ![k].status = "ABANDONED"]
    /\ UNCHANGED <<shortPage, calls, replaced, succeeded, refusals>>

\* add_operation by another contributor, on this page.
AddForeignOperation(k) ==
    /\ shortChanges[k] # None /\ shortChanges[k].status = "DRAFT"
    /\ Len(shortChanges[k].ops) < 2
    /\ shortChanges' = [shortChanges EXCEPT ![k].ops =
           Append(@, [key |-> None, body |-> [revision |-> shortPage.revision, text |-> None]])]
    /\ UNCHANGED <<shortPage, calls, replaced, succeeded, refusals>>

-----------------------------------------------------------------------------
(* The call *)

\* The page is looked up; the change is titled by its path.
BeginCall(h, k, body) ==
    /\ calls[h] = NoCall
    /\ body.revision <= shortPage.revision
    /\ calls' = [calls EXCEPT ![h] = [stage |-> "create", key |-> k, body |-> body,
                                      title |-> shortPage.path, revision |-> 0]]
    /\ UNCHANGED <<shortPage, shortChanges, replaced, succeeded, refusals>>

OnlyOperation(h) == <<[key |-> calls[h].key, body |-> calls[h].body]>>

\* Mutant: a change that is published answers whatever is asked under its key.
ReplaysAny(h) == Change(h).ops # <<>>

\* _assert_published_replay, _assert_published_patch_replay
Replays(h) == Change(h).ops = OnlyOperation(h)

\* create_change, and what its status means: a DRAFT or VALIDATED change, here
\* DRAFT, goes on, and a PUBLISHED one is the answer.
CreateShortcutChange(h) ==
    LET k == calls[h].key
    IN  /\ calls[h].stage = "create"
        /\ IF Change(h) = None
           THEN /\ shortChanges' = [shortChanges EXCEPT ![k] =
                       [status |-> "DRAFT", title |-> calls[h].title, ops |-> <<>>]]
                /\ Reach(h, "operate") /\ UNCHANGED refusals
           ELSE /\ UNCHANGED shortChanges
                /\ IF Change(h).title = calls[h].title /\ Change(h).status = "DRAFT"
                   THEN Reach(h, "operate") /\ UNCHANGED refusals
                   ELSE IF Change(h).title = calls[h].title
                           /\ Change(h).status = "PUBLISHED" /\ Replays(h)
                   THEN Reach(h, "identify") /\ UNCHANGED refusals
                   ELSE Refuse(h)
        /\ UNCHANGED <<shortPage, replaced, succeeded>>

\* The operations of the change that have the derived key.
OperationsUnderKey(h) ==
    {i \in DOMAIN Change(h).ops : Change(h).ops[i].key = calls[h].key}

\* Mutant: an operation that is there already is a conflict.
ConflictsAny(h) == OperationsUnderKey(h) # {}

\* add_operation, after the unique violation: the key has another operation.
Conflicts(h) ==
    \E i \in OperationsUnderKey(h) : Change(h).ops[i].body # calls[h].body

\* add_operation
AddShortcutOperation(h) ==
    LET k == calls[h].key
    IN  /\ calls[h].stage = "operate"
        /\ IF Change(h).status # "DRAFT" \/ Conflicts(h)
           THEN Refuse(h) /\ UNCHANGED shortChanges
           ELSE /\ shortChanges' = IF OperationsUnderKey(h) # {} THEN shortChanges
                       ELSE [shortChanges EXCEPT ![k].ops = @ \o OnlyOperation(h)]
                /\ Reach(h, "validate") /\ UNCHANGED refusals
        /\ UNCHANGED <<shortPage, replaced, succeeded>>

\* validate_change: what it finds is not looked at.
ValidateShortcut(h) ==
    /\ calls[h].stage = "validate"
    /\ IF Change(h).status = "DRAFT" THEN Reach(h, "publish") /\ UNCHANGED refusals
       ELSE Refuse(h)
    /\ UNCHANGED <<shortPage, shortChanges, replaced, succeeded>>

Evaluates(h) ==
    \A i \in DOMAIN Change(h).ops : Change(h).ops[i].body.revision = shortPage.revision

\* publish_change: the page gets one revision, with the text of the last operation.
PublishShortcut(h) ==
    LET k == calls[h].key
        ops == Change(h).ops
    IN  /\ calls[h].stage = "publish"
        /\ \/ /\ Change(h).status = "DRAFT" /\ Evaluates(h)
              /\ shortPage.revision < MaxPageRevision
              /\ shortPage' = [shortPage EXCEPT !.revision = @ + 1,
                                                !.text = ops[Len(ops)].body.text]
              /\ shortChanges' = [shortChanges EXCEPT ![k].status = "PUBLISHED"]
              /\ replaced' = [replaced EXCEPT ![k] =
                     Append(@, [ops |-> ops, from |-> shortPage.revision])]
              /\ Reach(h, "identify") /\ UNCHANGED refusals
           \/ /\ Change(h).status = "PUBLISHED"
              /\ Reach(h, "identify")
              /\ UNCHANGED <<shortPage, shortChanges, replaced, refusals>>
           \/ /\ Change(h).status = "ABANDONED" \/ (Change(h).status = "DRAFT" /\ ~Evaluates(h))
              /\ Refuse(h)
              /\ UNCHANGED <<shortPage, shortChanges, replaced>>
        /\ UNCHANGED succeeded

\* _with_page_identity: the page is read again, after the publication.
AnswerShortcut(h) ==
    /\ calls[h].stage = "identify"
    /\ succeeded' = succeeded \cup
           {[key |-> calls[h].key, body |-> calls[h].body, revision |-> shortPage.revision]}
    /\ calls' = [calls EXCEPT ![h] = NoCall]
    /\ UNCHANGED <<shortPage, shortChanges, replaced, refusals>>

\* The process ends, or the deployment of the publication fails.
StopCall(h) ==
    /\ calls[h] # NoCall
    /\ calls' = [calls EXCEPT ![h] = NoCall]
    /\ UNCHANGED <<shortPage, shortChanges, replaced, succeeded, refusals>>

ShortcutsNext ==
    \/ EditPage
    \/ \E k \in CallKeys : AbandonShortcut(k) \/ AddForeignOperation(k)
    \/ \E h \in Handlers :
        \/ \E k \in CallKeys, body \in Bodies : BeginCall(h, k, body)
        \/ CreateShortcutChange(h) \/ AddShortcutOperation(h) \/ ValidateShortcut(h)
        \/ PublishShortcut(h) \/ AnswerShortcut(h) \/ StopCall(h)

ShortcutsSpec == ShortcutsInit /\ [][ShortcutsNext]_shortcutVars

-----------------------------------------------------------------------------
(* Properties *)

ShortcutsTypeOK ==
    /\ shortPage.revision \in 1..MaxPageRevision /\ shortPage.path \in PagePaths
    /\ \A k \in CallKeys : shortChanges[k] = None
            \/ /\ shortChanges[k].status \in {"DRAFT", "PUBLISHED", "ABANDONED"}
               /\ \A i \in DOMAIN shortChanges[k].ops :
                    shortChanges[k].ops[i].body \in [revision : 1..MaxPageRevision,
                                                     text : Texts \cup {None}]
    /\ refusals \subseteq {"PUBLISHED", "ABANDONED", "MOVED", "EDITED", "OTHER_BODY", "NONE"}

\* A call that succeeds has been published, once, on the revision its caller had
\* read, whoever of the deliveries of its key published it and whatever was sent
\* under the key besides.
SuccessIsPublishedOnce ==
    \A s \in succeeded :
        /\ Len(replaced[s.key]) = 1
        /\ replaced[s.key][1].from = s.body.revision
        /\ \E i \in DOMAIN replaced[s.key][1].ops :
                replaced[s.key][1].ops[i] = [key |-> s.key, body |-> s.body]

\* A call that was stopped anywhere, and sent again, is not refused for what it has
\* left behind: only others who edited or moved the page, or worked on the change,
\* or a delivery that has published it, are in its way.
RefusedForAReason == "NONE" \notin refusals

\* A one-call edit that is answered with success is published once, and one that is
\* refused has its reason, through repeats and stops between its commits.
ShortcutsSafe == ShortcutsTypeOK /\ SuccessIsPublishedOnce /\ RefusedForAReason

-----------------------------------------------------------------------------
(* What the code does not have *)

\* "Returning the identity here makes the success case self-verifying"
\* (_with_page_identity): the revision answered is the one that was made.
IdentityIsOwn ==
    \A s \in succeeded : s.revision = replaced[s.key][1].from + 1

\* A replay of a call that was published is not refused because the page has since
\* got another path, which is in the title of the change.
ReplayIsAnswered ==
    [][\A h \in Handlers :
        calls[h].stage = "create" /\ calls'[h] = NoCall /\ refusals' # refusals
            /\ Change(h) # None /\ Change(h).status = "PUBLISHED"
        => ~Replays(h)]_shortcutVars
=============================================================================
