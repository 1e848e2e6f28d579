---------------------------- MODULE Neighbourhood ----------------------------
(***************************************************************************)
(* table_relations (structure_api.py): from the foreign keys of a          *)
(* database, either the tables within some hops of a table, with the keys  *)
(* between them, or a shortest path to another table.  Keys are walked     *)
(* both ways.                                                              *)
(***************************************************************************)
EXTENDS Requests, Integers, Sequences, FiniteSets, SequencesExt

CONSTANTS
    Tables, Root,
    ForeignKeys,    \* keys there may be: <<from, to>>
    MaxDepth

ASSUME KeysJoinTables == Root \in Tables /\ ForeignKeys \subseteq Tables \X Tables
ASSUME TablesAreFinite == IsFiniteSet(Tables)
ASSUME DepthIsBounded == MaxDepth \in Nat \ {0}
ASSUME NoneIsNoTable == None \notin Tables /\ None \notin Tables \X ForeignKeys

VARIABLE relating   \* the call: what is asked, the queue, and what is found

relatingVars == <<relating>>

NeighbourhoodInit == relating = [stage |-> "none"]

\* to is None for a neighbourhood; a path is asked for without a depth.
AskTable ==
    /\ relating.stage = "none"
    /\ \E keys \in SUBSET ForeignKeys, to \in Tables \cup {None}, depth \in 1..MaxDepth :
        /\ to # None => depth = 1
        /\ relating' = [stage |-> "search", keys |-> keys, to |-> to, depth |-> depth,
                        queue |-> <<Root>>, collected |-> {},
                        hops |-> [t \in {Root} |-> 0], previous |-> [t \in {Root} |-> None]]

KeysAt(t) == {k \in relating.keys : t \in {k[1], k[2]}}
Across(k, t) == IF k[1] = t THEN k[2] ELSE k[1]
Seen(t) == t \in DOMAIN relating.hops
Found == relating.to # None /\ Seen(relating.to)

\* Mutant: one hop too many.
PastDepth(t) == relating.to = None /\ relating.hops[t] > relating.depth

\* A neighbourhood is not walked on from a table at its depth.
AtDepth(t) == relating.to = None /\ relating.hops[t] >= relating.depth

\* Mutant: the tables found last are visited first.
QueuedFirst(order) == order \o Tail(relating.queue)

Queued(order) == Tail(relating.queue) \o order

\* One turn of the loop: the tables that are new are queued in the order of the
\* keys, whatever it is, and remember the key they were reached by.
VisitTable ==
    LET t == Head(relating.queue)
        fresh == {Across(k, t) : k \in KeysAt(t)} \ DOMAIN relating.hops
    IN  /\ relating.stage = "search" /\ relating.queue # <<>> /\ ~Found
        /\ IF AtDepth(t)
           THEN relating' = [relating EXCEPT !.queue = Tail(@)]
           ELSE \E order \in SetToSeqs(fresh),
                   by \in {f \in [fresh -> KeysAt(t)] : \A n \in fresh : Across(f[n], t) = n} :
                relating' = [relating EXCEPT
                    !.queue = Queued(order),
                    !.collected = @ \cup KeysAt(t),
                    !.hops = [n \in fresh \cup DOMAIN @ |->
                        IF n \in fresh THEN relating.hops[t] + 1 ELSE relating.hops[n]],
                    !.previous = [n \in fresh \cup DOMAIN @ |->
                        IF n \in fresh THEN <<t, by[n]>> ELSE relating.previous[n]]]

EndSearch ==
    /\ relating.stage = "search" /\ (relating.queue = <<>> \/ Found)
    /\ relating' = [relating EXCEPT !.stage = "answered"]

NeighbourhoodNext == AskTable \/ VisitTable \/ EndSearch

NeighbourhoodSpec == NeighbourhoodInit /\ [][NeighbourhoodNext]_relatingVars

\* The path of the answer, from its end: previous is followed to the root.
Path ==
    LET back[t \in DOMAIN relating.previous] ==
            IF relating.previous[t] = None THEN <<t>>
            ELSE Append(back[relating.previous[t][1]], t)
    IN  back[relating.to]

-----------------------------------------------------------------------------
(* Properties *)

\* The tables within n hops of the root, by definition.
Within ==
    LET reach[n \in Nat] ==
            IF n = 0 THEN {Root}
            ELSE reach[n - 1] \cup
                 {t \in Tables : \E k \in relating.keys :
                    \/ k[1] = t /\ k[2] \in reach[n - 1]
                    \/ k[2] = t /\ k[1] \in reach[n - 1]}
    IN  reach
Distance(t) == CHOOSE n \in 0..Cardinality(Tables) :
    t \in Within[n] /\ (n = 0 \/ t \notin Within[n - 1])

\* A neighbourhood has the tables within the depth, each at its distance, and the
\* keys of every table nearer than that, and no others.
NeighbourhoodIsExact ==
    relating.stage = "answered" /\ relating.to = None =>
        /\ DOMAIN relating.hops = Within[relating.depth]
        /\ \A t \in DOMAIN relating.hops : relating.hops[t] = Distance(t)
        /\ relating.collected = {k \in relating.keys :
               \E t \in Within[relating.depth - 1] : t \in {k[1], k[2]}}

\* "The shortest FK path": a path is found if there is one, goes from key to key and
\* is as long as the distance.
PathIsShortest ==
    relating.stage = "answered" /\ relating.to # None =>
        /\ Found <=> relating.to \in Within[Cardinality(Tables)]
        /\ Found =>
            /\ Len(Path) = Distance(relating.to) + 1 /\ Path[1] = Root
            /\ \A i \in 2..Len(Path) :
                LET step == relating.previous[Path[i]]
                IN  step[1] = Path[i - 1] /\ step[2] \in relating.keys
                    /\ {step[2][1], step[2][2]} = {Path[i - 1], Path[i]}
=============================================================================
