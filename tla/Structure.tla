------------------------------ MODULE Structure ------------------------------
(***************************************************************************)
(* The structured schema projection of one DATABASE (structure_api): the   *)
(* declaring generator replaces the document of its artifact, and agents   *)
(* read an identity, a body and the relations of it.  A read is one        *)
(* request and one connection, but a statement for each part, and          *)
(* db.get_conn leaves the isolation at READ COMMITTED.                     *)
(***************************************************************************)
EXTENDS Requests, Integers

CONSTANTS
    Projected,      \* the generated artifacts whose source is the DATABASE
    Documents,      \* documents, each with its own contract version
    MaxPuts         \* bound of the model: transactions that put a projection

ASSUME NoneIsNoDocument == None \notin Documents
ASSUME NoneIsNoProjection == None \notin [version : Nat, document : Documents, at : Nat]
ASSUME PutsBound == MaxPuts \in Nat

VARIABLES
    declared,       \* the artifacts that are DECLARED
    projections,    \* model.artifact_projections: artifact -> its row, or None
    puts,           \* transactions begun; now() is the number of one
    putting,        \* handler -> the put it runs
    asking,         \* handler -> what its read has answered so far
    published       \* history: <<artifact, version, document>> ever stored

structureVars == <<declared, projections, puts, putting, asking, published>>

NotPutting == [stage |-> "idle"]
NotAsking == [stage |-> "idle"]

StructureInit ==
    /\ declared = Projected
    /\ projections = [a \in Projected |-> None]
    /\ puts = 0
    /\ putting = [h \in Handlers |-> NotPutting]
    /\ asking = [h \in Handlers |-> NotAsking]
    /\ published = {}

Idle(h) == putting[h] = NotPutting /\ asking[h] = NotAsking
RowLocked(a) == \E h \in Handlers : putting[h].stage = "locked" /\ putting[h].artifact = a

BeginPut(h, a, d) ==
    /\ Idle(h)
    /\ puts < MaxPuts
    /\ puts' = puts + 1
    /\ putting' = [putting EXCEPT ![h] =
          [stage |-> "begun", artifact |-> a, document |-> d, at |-> puts + 1]]
    /\ UNCHANGED <<declared, projections, asking, published>>

\* Mutant: the status is checked by the read before the lock only.
LockWhateverStatus(h) ==
    /\ putting[h].stage = "begun"
    /\ ~RowLocked(putting[h].artifact)
    /\ putting' = [putting EXCEPT ![h].stage = "locked"]
    /\ UNCHANGED <<declared, projections, puts, asking, published>>

\* SELECT ... FOR UPDATE OF a, and the refusal of an artifact not DECLARED.
LockProjected(h) ==
    LET a == putting[h].artifact
    IN  /\ putting[h].stage = "begun"
        /\ ~RowLocked(a)
        /\ putting' = [putting EXCEPT ![h] =
              IF a \in declared THEN [@ EXCEPT !.stage = "locked"] ELSE NotPutting]
        /\ UNCHANGED <<declared, projections, puts, asking, published>>

\* Mutant: a new document keeps the version.
VersionKept(a) == IF projections[a] = None THEN 1 ELSE projections[a].version

Versioned(a) == IF projections[a] = None THEN 1 ELSE projections[a].version + 1

\* The document that is stored already is kept with its version.
CommitPut(h) ==
    LET a == putting[h].artifact
        d == putting[h].document
        kept == projections[a] # None /\ projections[a].document = d
    IN  /\ putting[h].stage = "locked"
        /\ projections' = IF kept THEN projections ELSE [projections EXCEPT ![a] =
              [version |-> Versioned(a), document |-> d, at |-> putting[h].at]]
        /\ published' = published \cup
              {<<a, projections'[a].version, projections'[a].document>>}
        /\ putting' = [putting EXCEPT ![h] = NotPutting]
        /\ UNCHANGED <<declared, puts, asking>>

AbandonPut(h) ==
    /\ putting[h] # NotPutting
    /\ putting' = [putting EXCEPT ![h] = NotPutting]
    /\ UNCHANGED <<declared, projections, puts, asking, published>>

\* model_api retires an artifact under the lock of its row.
RetireProjected(a) ==
    /\ a \in declared
    /\ ~RowLocked(a)
    /\ declared' = declared \ {a}
    /\ UNCHANGED <<projections, puts, putting, asking, published>>

\* _active: the DECLARED artifact whose row was touched last.
Served(a) ==
    /\ a \in declared /\ projections[a] # None
    /\ \A b \in declared :
        projections[b] # None => projections[b].at <= projections[a].at

AskIdentity(h, a) ==
    /\ Idle(h)
    /\ Served(a)
    /\ asking' = [asking EXCEPT ![h] =
          [stage |-> "identified", artifact |-> a, identity |-> projections[a]]]
    /\ UNCHANGED <<declared, projections, puts, putting, published>>

\* _schema_body, _relation, or the whole document of find_columns.
AskBody(h) ==
    /\ asking[h].stage = "identified"
    /\ asking' = [asking EXCEPT ![h] =
          [stage |-> "described", artifact |-> @.artifact, identity |-> @.identity,
           body |-> projections[@.artifact]]]
    /\ UNCHANGED <<declared, projections, puts, putting, published>>

\* Mutant: the identity is read once more for the answer.
AskRelationsAnew(h) ==
    /\ asking[h].stage = "described"
    /\ asking' = [asking EXCEPT ![h] =
          [stage |-> "answered", artifact |-> @.artifact,
           identity |-> projections[@.artifact], body |-> @.body,
           relations |-> projections[@.artifact]]]
    /\ UNCHANGED <<declared, projections, puts, putting, published>>

\* _relations.
AskRelations(h) ==
    /\ asking[h].stage = "described"
    /\ asking' = [asking EXCEPT ![h] =
          [stage |-> "answered", artifact |-> @.artifact, identity |-> @.identity,
           body |-> @.body, relations |-> projections[@.artifact]]]
    /\ UNCHANGED <<declared, projections, puts, putting, published>>

EndAsking(h) ==
    /\ asking[h] # NotAsking
    /\ asking' = [asking EXCEPT ![h] = NotAsking]
    /\ UNCHANGED <<declared, projections, puts, putting, published>>

StructureNext ==
    \/ \E h \in Handlers, a \in Projected, d \in Documents : BeginPut(h, a, d)
    \/ \E h \in Handlers : LockProjected(h)
    \/ \E h \in Handlers : CommitPut(h)
    \/ \E h \in Handlers : AbandonPut(h)
    \/ \E a \in Projected : RetireProjected(a)
    \/ \E h \in Handlers, a \in Projected : AskIdentity(h, a)
    \/ \E h \in Handlers : AskBody(h)
    \/ \E h \in Handlers : AskRelations(h)
    \/ \E h \in Handlers : EndAsking(h)

StructureSpec == StructureInit /\ [][StructureNext]_structureVars

-----------------------------------------------------------------------------
(* Properties *)

ProjectionRows == [version : Nat \ {0}, document : Documents, at : Nat]

StructureTypeOK ==
    /\ declared \subseteq Projected
    /\ projections \in [Projected -> ProjectionRows \cup {None}]
    /\ puts \in 0..MaxPuts
    /\ published \subseteq Projected \X (Nat \ {0}) \X Documents
    /\ \A h \in Handlers :
        /\ putting[h].stage \in {"idle", "begun", "locked"}
        /\ asking[h].stage \in {"idle", "identified", "described", "answered"}

\* An artifact and a projection version name one document for ever, whatever
\* puts overlap: what _identity gives a reader is an identity
\* (put_artifact_projection).
VersionNamesDocument ==
    \A p, q \in published : p[1] = q[1] /\ p[2] = q[2] => p[3] = q[3]

\* What an answer shows is never older than the identity it carries, nor its
\* relations than its body (describe_table reads them in this order).
AnswerGoesForward ==
    \A h \in Handlers :
        /\ asking[h].stage \in {"described", "answered"} =>
              asking[h].identity.version <= asking[h].body.version
        /\ asking[h].stage = "answered" =>
              asking[h].body.version <= asking[h].relations.version

\* "Only while DECLARED": the projection of an artifact that is retired never
\* changes, even by a put that began before (the header of structure_api).
RetiredIsFrozen ==
    [][\A a \in Projected \ declared : projections'[a] = projections[a]]_structureVars

\* An identity is of one document, answers go forward from it, and what is retired
\* stays as it is, whatever puts and reads overlap.
StructureSafe ==
    /\ [](StructureTypeOK /\ VersionNamesDocument /\ AnswerGoesForward)
    /\ RetiredIsFrozen

\* "An agent always knows what it read": an answer is one document, the one its
\* identity names.  The code does not have it: a put may commit between the
\* statements of a read.
IdentityNamesAnswer ==
    \A h \in Handlers : asking[h].stage = "answered" =>
        /\ asking[h].body.document = asking[h].identity.document
        /\ asking[h].relations.document = asking[h].identity.document

\* published_at (updated_at, which touch_updated_at sets to now(), when the
\* transaction began) tells the order of the versions.  The code does not have
\* it: the put that began first may take the lock last.
PublishedAtGrows ==
    [][\A a \in Projected : projections[a] # None =>
        projections[a].at <= projections'[a].at]_structureVars
=============================================================================
