------------------------------ MODULE Generators ------------------------------
(***************************************************************************)
(* A catalogue generator (scripts/schema_catalogue.py and its siblings):   *)
(* each scheduled run reads its source and, if the catalogue is not the    *)
(* one of that source, declares its artifact, creates a change, adds its   *)
(* operation, publishes, links, stores its projection and records the      *)
(* GENERATION evidence, each with a call of its own to the API, under      *)
(* idempotency keys.  A run may end after any call, or before its answer.  *)
(*                                                                         *)
(* schema_catalogue binds its keys to the transition, from the last        *)
(* evidence to the source; the other generators bind them to the source.   *)
(* One generator, which alone writes its artifact and its page; one page   *)
(* stands for the set of its pages.                                        *)
(***************************************************************************)
EXTENDS Requests, Integers, Sequences, FiniteSets

CONSTANTS
    Structures,         \* what the source may be, by its fingerprint
    MaxSourceChanges,   \* bound of the model
    MaxDrawn            \* bound of the model on the identities drawn

ASSUME NoneIsNoStructure == None \notin Structures
ASSUME NoneIsNoArtifact == None \notin [version : 1..2, adopted : BOOLEAN]
ASSUME NoneIsNoCataloguePage ==
    None \notin [id : Nat \cup (BOOLEAN \X Nat \X Structures), content : Structures,
                 revision : Nat \ {0}]
ASSUME GeneratorBounds == MaxSourceChanges \in Nat /\ MaxDrawn \in Nat

VARIABLES
    keying,         \* "transition" or "target"
    source,         \* what the source is
    sourceChanges,  \* how often it has changed
    artifact,       \* the declared artifact, [version, adopted], or None
    page,           \* the generated page, [id, content, revision], or None
    catalogued,     \* the page that the source entity CATALOGUES, or None
    projection,     \* the stored projection, or None
    evidence,       \* the GENERATION observations, by their structures
    genChanges,     \* the changes of the generator, a row for each key
    projected,      \* the keys that have a projection receipt
    drawn,          \* how often uuid4() has been drawn
    genRun          \* the run, and how the last one ended

generatorVars == <<keying, source, sourceChanges, artifact, page, catalogued,
                   projection, evidence, genChanges, projected, drawn, genRun>>

Ended(outcome) == [stage |-> "idle", outcome |-> outcome]

GeneratorsInit ==
    /\ keying \in {"transition", "target"}
    /\ source \in Structures /\ sourceChanges = 0
    /\ artifact = None /\ page = None /\ catalogued = None /\ projection = None
    /\ evidence = <<>> /\ genChanges = {} /\ projected = {} /\ drawn = 0
    /\ genRun = Ended("none")

ChangeSource ==
    /\ sourceChanges < MaxSourceChanges
    /\ sourceChanges' = sourceChanges + 1
    /\ source' \in Structures \ {source}
    /\ UNCHANGED <<keying, artifact, page, catalogued, projection, evidence,
                   genChanges, projected, drawn, genRun>>

\* last_generation_fingerprint.
LastGenerated == IF evidence = <<>> THEN None ELSE evidence[Len(evidence)]

\* transition_identity and _key: the artifact, the last evidence and the target,
\* or, for the other generators, the target.
TransitionKey == <<artifact # None, Len(evidence), source>>
TargetKey == <<FALSE, 0, source>>

\* The operation on the page as it is found, and the identity of a page to create.
PageOperation(newId) ==
    IF page = None
    THEN [type |-> "CREATE_PAGE", id |-> newId, revision |-> 0, content |-> source]
    ELSE [type |-> "REPLACE_DOCUMENT", id |-> page.id, revision |-> page.revision,
          content |-> source]

\* The declared targets are the pages that the source asks for.
NeedsReconciliation == artifact = None \/ ~artifact.adopted

RunFor(key, newId, stage) ==
    [stage |-> stage, key |-> key, structure |-> source, operation |-> PageOperation(newId)]

\* Mutant: the identity of a new page is drawn, as the other generators do.
StartTransitionRunDrawing ==
    /\ keying = "transition" /\ genRun.stage = "idle"
    /\ drawn < MaxDrawn /\ drawn' = drawn + 1
    /\ genRun' = RunFor(TransitionKey, drawn',
          IF ~NeedsReconciliation /\ LastGenerated = source /\ projection # None
          THEN IF projection = source THEN "linkUnchanged" ELSE "linkRepair"
          ELSE IF artifact = None THEN "declare" ELSE "plan")
    /\ UNCHANGED <<keying, source, sourceChanges, artifact, page, catalogued,
                   projection, evidence, genChanges, projected>>

\* _reconcile of schema_catalogue, up to its first write.
StartTransitionRun ==
    /\ keying = "transition" /\ genRun.stage = "idle"
    /\ genRun' = RunFor(TransitionKey, TransitionKey,
          IF ~NeedsReconciliation /\ LastGenerated = source /\ projection # None
          THEN IF projection = source THEN "linkUnchanged" ELSE "linkRepair"
          ELSE IF artifact = None THEN "declare" ELSE "plan")
    /\ UNCHANGED <<keying, source, sourceChanges, artifact, page, catalogued,
                   projection, evidence, genChanges, projected, drawn>>

\* main of meter_list, work_catalogue and invariant_register: the identity of a
\* new page is drawn.
StartTargetRun ==
    /\ keying = "target" /\ genRun.stage = "idle"
    /\ page = None => drawn < MaxDrawn
    /\ drawn' = IF page = None THEN drawn + 1 ELSE drawn
    /\ genRun' = RunFor(TargetKey, drawn',
          IF ~NeedsReconciliation /\ LastGenerated = source
          THEN "linkUnchanged"
          ELSE IF artifact = None THEN "declare" ELSE "plan")
    /\ UNCHANGED <<keying, source, sourceChanges, artifact, page, catalogued,
                   projection, evidence, genChanges, projected>>

DeclareEmpty ==
    /\ genRun.stage = "declare"
    /\ artifact' = [version |-> 1, adopted |-> FALSE]
    /\ genRun' = [genRun EXCEPT !.stage = "plan"]
    /\ UNCHANGED <<keying, source, sourceChanges, page, catalogued, projection,
                   evidence, genChanges, projected, drawn>>

\* generated_ownership_plan: what the body of the change says.
OwnershipPlan == [version |-> artifact.version, target |-> genRun.operation.id]
RowsOf(key) == {c \in genChanges : c.key = key}

\* The API replays a key with the same body, and refuses it with another.
CreateChange ==
    LET rows == RowsOf(genRun.key)
    IN  /\ genRun.stage = "plan"
        /\ genChanges' = IF rows # {} THEN genChanges ELSE genChanges \cup
              {[key |-> genRun.key, plan |-> OwnershipPlan, operation |-> None,
                status |-> "DRAFT"]}
        /\ genRun' = IF \A c \in rows : c.plan = OwnershipPlan
                     THEN [genRun EXCEPT !.stage = "operate"]
                     ELSE Ended("refused")
        /\ UNCHANGED <<keying, source, sourceChanges, artifact, page, catalogued,
                       projection, evidence, projected, drawn>>

AddPageOperation ==
    /\ genRun.stage = "operate"
    /\ \E c \in RowsOf(genRun.key) :
        /\ IF c.status = "DRAFT" /\ c.operation \in {None, genRun.operation}
           THEN /\ genChanges' = (genChanges \ {c}) \cup
                      {[c EXCEPT !.operation = genRun.operation]}
                /\ genRun' = [genRun EXCEPT !.stage = "publish"]
           ELSE /\ genRun' = Ended("refused")
                /\ UNCHANGED genChanges
        /\ UNCHANGED <<keying, source, sourceChanges, artifact, page, catalogued,
                       projection, evidence, projected, drawn>>

\* Mutant: the change is not marked in the transaction that writes the page.
PublishUnmarked ==
    /\ genRun.stage = "publish"
    /\ \E c \in RowsOf(genRun.key) :
        /\ page' = [id |-> c.operation.id, content |-> c.operation.content,
                    revision |-> c.operation.revision + 1]
        /\ artifact' = IF artifact.adopted THEN artifact
                       ELSE [version |-> artifact.version + 1, adopted |-> TRUE]
        /\ genRun' = [genRun EXCEPT !.stage = "link"]
        /\ UNCHANGED <<keying, source, sourceChanges, catalogued, projection,
                       evidence, genChanges, projected, drawn>>

\* validate and publish: document and custody are committed together, and the
\* version of the artifact moves with its targets only (reconcile_targets).
PublishPages ==
    /\ genRun.stage = "publish"
    /\ \E c \in RowsOf(genRun.key) :
        /\ page' = [id |-> c.operation.id, content |-> c.operation.content,
                    revision |-> c.operation.revision + 1]
        /\ artifact' = IF artifact.adopted THEN artifact
                       ELSE [version |-> artifact.version + 1, adopted |-> TRUE]
        /\ genChanges' = (genChanges \ {c}) \cup {[c EXCEPT !.status = "PUBLISHED"]}
        /\ genRun' = [genRun EXCEPT !.stage = "link"]
        /\ UNCHANGED <<keying, source, sourceChanges, catalogued, projection,
                       evidence, projected, drawn>>

\* Mutant: the evidence is recorded before the projection is put.
LinkThenObserve ==
    /\ genRun.stage \in {"link", "linkUnchanged", "linkRepair"}
    /\ catalogued' = page.id
    /\ genRun' = IF genRun.stage = "linkUnchanged" THEN Ended("unchanged")
                 ELSE [genRun EXCEPT !.stage = IF @ = "linkRepair" THEN "repair" ELSE "observe"]
    /\ UNCHANGED <<keying, source, sourceChanges, artifact, page, projection,
                   evidence, genChanges, projected, drawn>>

\* reconcile_catalogues, under a key of its own each time.
LinkCatalogue ==
    /\ genRun.stage \in {"link", "linkUnchanged", "linkRepair"}
    /\ catalogued' = page.id
    /\ genRun' = IF genRun.stage = "linkUnchanged" THEN Ended("unchanged")
                 ELSE [genRun EXCEPT !.stage =
                    IF @ = "linkRepair" THEN "repair"
                    ELSE IF keying = "transition" THEN "project" ELSE "observe"]
    /\ UNCHANGED <<keying, source, sourceChanges, artifact, page, projection,
                   evidence, genChanges, projected, drawn>>

\* The body says when it was extracted: a key that was used is refused.
PublishProjection ==
    /\ genRun.stage \in {"project", "repair"}
    /\ IF genRun.key \in projected
       THEN /\ genRun' = Ended("refused")
            /\ UNCHANGED <<projection, projected>>
       ELSE /\ projection' = genRun.structure
            /\ projected' = projected \cup {genRun.key}
            /\ genRun' = IF genRun.stage = "repair" THEN Ended("unchanged")
                         ELSE [genRun EXCEPT !.stage = "observe"]
    /\ UNCHANGED <<keying, source, sourceChanges, artifact, page, catalogued,
                   evidence, genChanges, drawn>>

\* An observation whose key is there already is replayed.
Replayed(structure) ==
    keying = "target" /\ \E i \in 1..Len(evidence) : evidence[i] = structure

EmitGeneration ==
    /\ genRun.stage = "observe"
    /\ evidence' = IF Replayed(genRun.structure) THEN evidence
                   ELSE Append(evidence, genRun.structure)
    /\ genRun' = Ended("published")
    /\ UNCHANGED <<keying, source, sourceChanges, artifact, page, catalogued,
                   projection, genChanges, projected, drawn>>

\* The process ends, an answer is lost, or the deployment is not COMPLETED.
StopRun ==
    /\ genRun.stage # "idle"
    /\ genRun' = Ended("stopped")
    /\ UNCHANGED <<keying, source, sourceChanges, artifact, page, catalogued,
                   projection, evidence, genChanges, projected, drawn>>

GeneratorsNext ==
    \/ ChangeSource
    \/ StartTransitionRun \/ StartTargetRun
    \/ DeclareEmpty \/ CreateChange \/ AddPageOperation \/ PublishPages
    \/ LinkCatalogue \/ PublishProjection \/ EmitGeneration
    \/ StopRun

GeneratorsSpec == GeneratorsInit /\ [][GeneratorsNext]_generatorVars

-----------------------------------------------------------------------------
(* Properties *)

GeneratorsTypeOK ==
    /\ keying \in {"transition", "target"}
    /\ source \in Structures /\ sourceChanges \in 0..MaxSourceChanges
    /\ artifact # None => artifact \in [version : 1..2, adopted : BOOLEAN]
    /\ page # None => page.content \in Structures /\ page.revision \in Nat \ {0}
    /\ projection \in Structures \cup {None}
    /\ evidence \in Seq(Structures)
    /\ \A c \in genChanges : c.status \in {"DRAFT", "PUBLISHED"}
    /\ drawn \in 0..MaxDrawn

\* GENERATION evidence is the last thing written: when it is recorded, the page,
\* the link and the projection are those of the structure it names, whatever was
\* left by runs that ended before (the comment on emit_generation).
EvidenceIsTrue ==
    [][evidence' # evidence =>
        LET structure == evidence'[Len(evidence')]
        IN  /\ page.content = structure /\ catalogued = page.id
            /\ keying = "transition" => projection = structure]_generatorVars

\* However often a run is repeated, a change is published once: the page has as
\* many revisions as there are published changes.
OneRevisionPerChange ==
    Cardinality({c \in genChanges : c.status = "PUBLISHED"})
        = IF page = None THEN 0 ELSE page.revision

\* "A crash after the change was created must not wedge the retry": where keys are
\* bound to the transition, no run is refused while nothing has been published
\* since the last evidence, wherever the runs before it ended
\* (test_retried_transition_sends_identical_create_requests).
RetryBeforePublication ==
    [][keying = "transition" /\ genRun' = Ended("refused") /\ genRun' # genRun =>
        \E c \in genChanges :
            c.status = "PUBLISHED" /\ c.key[2] = genRun.key[2]]_generatorVars

\* Repeated and interrupted runs publish each change once, record evidence of what
\* is there, and are not refused by what they left behind before a publication.
GeneratorsSafe ==
    /\ [](GeneratorsTypeOK /\ OneRevisionPerChange)
    /\ EvidenceIsTrue /\ RetryBeforePublication

\* "Keeps a retried, partially completed transition replay-safe"
\* (transition_identity).  The code does not have it: a run that ends between the
\* publication and the evidence is refused at every retry.
RetryIsReplaySafe == keying = "transition" => genRun # Ended("refused")

\* What other generators publish can be published again.  The code does not have
\* it: a source that returns to an earlier state finds its keys used.
ReturnIsPublished ==
    keying = "target" /\ drawn <= 1 => genRun # Ended("refused")

\* "Every successful path (published, repaired, or UNCHANGED) ends with the
\* published projection equal to the live source" (main).  The code does not have
\* it for the page: the evidence may be older than what is published.
UnchangedIsTrue ==
    [][genRun' = Ended("unchanged") /\ genRun' # genRun =>
        page.content = genRun.structure]_generatorVars
=============================================================================
