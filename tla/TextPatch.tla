------------------------------ MODULE TextPatch ------------------------------
(***************************************************************************)
(* apply_text_patch (text_patch.py): each edit must find its text exactly  *)
(* as often as it expects, the places found may not overlap, and they are  *)
(* replaced one after the other from the end of the content.               *)
(***************************************************************************)
EXTENDS Integers, Sequences, FiniteSets, SequencesExt

CONSTANTS
    Characters,
    Contents,   \* sequences of characters
    Edits,      \* [old, new, expected]
    MaxEdits    \* edits of a call

ASSUME TextsAreSequences ==
    /\ Contents \subseteq Seq(Characters)
    /\ \A e \in Edits :
          /\ e.old \in Seq(Characters) /\ e.old # <<>>
          /\ e.new \in Seq(Characters) /\ e.expected \in Nat

VARIABLE patch  \* the call: its inputs, its spans and its result

patchVars == <<patch>>

PatchInit == patch = [stage |-> "none"]

BeginPatch ==
    /\ patch.stage = "none"
    /\ \E c \in Contents, n \in 1..MaxEdits : \E edits \in [1..n -> Edits] :
        patch' = [stage |-> "find", content |-> c, edits |-> edits,
                  spans |-> {}, result |-> c]

\* str.find: the first place of old from a cursor on, or 0.
Places(old, c, cursor) ==
    {i \in cursor..(Len(c) - Len(old) + 1) : SubSeq(c, i, i + Len(old) - 1) = old}
Find(old, c, cursor) ==
    LET places == Places(old, c, cursor)
    IN  IF places = {} THEN 0 ELSE CHOOSE i \in places : \A j \in places : i <= j

\* The places an edit takes: each search begins where the one before has ended.
Starts(old, c) ==
    LET from[cursor \in Nat] ==
            LET i == Find(old, c, cursor)
            IN  IF i = 0 THEN {} ELSE {i} \cup from[i + Len(old)]
    IN  from[1]

SpansOf(index) ==
    LET edit == patch.edits[index]
    IN  {[index |-> index, first |-> i, past |-> i + Len(edit.old), new |-> edit.new] :
            i \in Starts(edit.old, patch.content)}

FindSpans ==
    LET found == UNION {SpansOf(i) : i \in DOMAIN patch.edits}
    IN  /\ patch.stage = "find"
        /\ patch' = IF \A i \in DOMAIN patch.edits :
                          Cardinality(SpansOf(i)) = patch.edits[i].expected
                    THEN [patch EXCEPT !.stage = "overlap", !.spans = found]
                    ELSE [patch EXCEPT !.stage = "mismatch"]

\* Mutant: the spans stay in the order of the edits.
BeforeByEdit(a, b) ==
    a.index < b.index \/ (a.index = b.index /\ a.first <= b.first)

Before(a, b) ==
    \/ a.first < b.first
    \/ a.first = b.first /\ a.past < b.past
    \/ a.first = b.first /\ a.past = b.past /\ a.index <= b.index

\* b comes right after a.
Neighbours(a, b) ==
    /\ a # b /\ Before(a, b)
    /\ \A s \in patch.spans \ {a, b} : Before(s, a) \/ Before(b, s)

\* Only neighbours in the order are compared.
CheckOverlap ==
    /\ patch.stage = "overlap"
    /\ patch' = [patch EXCEPT !.stage =
          IF \E a, b \in patch.spans : Neighbours(a, b) /\ b.first < a.past
          THEN "overlapping" ELSE "replace"]

\* The slices before and after a span, as Python takes them.
Upto(s, n) == SubSeq(s, 1, IF n < Len(s) THEN n ELSE Len(s))
Replaced(s, span) ==
    Upto(s, span.first - 1) \o span.new \o SubSeq(s, span.past, Len(s))

\* Mutant: the spans are replaced from the front.
ReplaceFirst ==
    /\ patch.stage = "replace"
    /\ \E span \in patch.spans :
        /\ \A s \in patch.spans : Before(span, s)
        /\ patch' = [patch EXCEPT !.spans = @ \ {span}, !.result = Replaced(@, span)]

ReplaceLast ==
    /\ patch.stage = "replace"
    /\ \E span \in patch.spans :
        /\ \A s \in patch.spans : Before(s, span)
        /\ patch' = [patch EXCEPT !.spans = @ \ {span}, !.result = Replaced(@, span)]

EndPatch ==
    /\ patch.stage = "replace" /\ patch.spans = {}
    /\ patch' = [patch EXCEPT !.stage =
                    IF patch.result = patch.content THEN "unchanged" ELSE "patched"]

PatchNext == BeginPatch \/ FindSpans \/ CheckOverlap \/ ReplaceLast \/ EndPatch

PatchSpec == PatchInit /\ [][PatchNext]_patchVars

-----------------------------------------------------------------------------
(* Properties *)

AllSpans == UNION {SpansOf(i) : i \in DOMAIN patch.edits}
Overlap(a, b) == a.first < b.past /\ b.first < a.past

\* Comparing neighbours finds every overlap: the spans of a patch that goes on are
\* pairwise disjoint, and those of one refused for an overlap are not ("hard
\* ambiguity and overlap guards").
NoOverlapIsMissed ==
    /\ patch.stage \in {"replace", "patched", "unchanged"} =>
        \A a, b \in AllSpans : a # b => ~Overlap(a, b)
    /\ patch.stage = "overlapping" =>
        \E a, b \in AllSpans : a # b /\ Overlap(a, b)

\* "Apply edits against one immutable input": what comes of replacing the spans one
\* by one is the content with every span replaced at once, each by its own text.
Character(i) ==
    LET covering == {s \in AllSpans : s.first <= i /\ i < s.past}
        span == CHOOSE s \in covering : TRUE
    IN  IF covering = {} THEN <<patch.content[i]>>
        ELSE IF i = span.first THEN span.new ELSE <<>>
AtOnce == FlattenSeq([i \in DOMAIN patch.content |-> Character(i)])

PatchIsSimultaneous ==
    patch.stage \in {"patched", "unchanged"} => patch.result = AtOnce
=============================================================================
