----------------------- MODULE PublicationRefinement -----------------------
(***************************************************************************)
(* Publication, with its workers, locks and step-by-step evaluation,       *)
(* implements AtomicPublication.                                           *)
(***************************************************************************)
EXTENDS Publication

Atomic == INSTANCE AtomicPublication WITH corpus <- corpus, changes <- changes

\* Publishing is atomic: every behaviour of the workers is, seen through
\* docs.pages, docs.redirects, docs.sections and docs.changes, a sequence of
\* whole publications, each applied to the corpus it found (publish_change).
PublicationIsAtomic == Atomic!Spec
=============================================================================
