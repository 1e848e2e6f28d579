------------------------- MODULE AtomicPublication -------------------------
(***************************************************************************)
(* What publication promises its authors: a published change happens at    *)
(* once, to the corpus of that moment, whole.  There are no workers, locks *)
(* or partial evaluations here; the operations of a change are applied to  *)
(* the current corpus in one step, and the change is either written        *)
(* exactly as evaluated or leaves the corpus alone.                        *)
(***************************************************************************)
EXTENDS Corpus, SequencesExt

CONSTANTS Changes, StartCorpora

VARIABLES corpus, changes

Init == corpus \in StartCorpora /\ \A c \in Changes : changes[c].ops = <<>>

\* The candidate that a change's operations make of a corpus.
Outcome(c) ==
    RepairLinks(Evaluations(corpus, changes[c].base, changes[c].ops)
                    [Len(changes[c].ops)])

Publish(c) ==
    /\ changes[c].status \in {"DRAFT", "VALIDATED"}
    /\ changes[c].ops # <<>>
    /\ Passed(Outcome(c))
    /\ ~UniqueViolation(Outcome(c))
    /\ corpus' = Written(Outcome(c))
    /\ \E summary \in {changes'[c].summary} :
          changes' = [changes EXCEPT ![c].status = "PUBLISHED",
                                     ![c].summary = summary]

\* A draft is opened, extended at its end, validated or abandoned; none of
\* this touches the corpus or another change.
Prepare(c) ==
    /\ UNCHANGED corpus
    /\ \A d \in Changes \ {c} : changes'[d] = changes[d]
    /\ changes'[c].status \in {"DRAFT", "VALIDATED", "ABANDONED"}
    /\ changes'[c].ops # changes[c].ops =>
          Front(changes'[c].ops) = changes[c].ops
    /\ changes[c].status # "none" => changes'[c].base = changes[c].base

Next == \E c \in Changes : Publish(c) \/ Prepare(c)

Spec == Init /\ [][Next]_<<corpus, changes>>
=============================================================================
