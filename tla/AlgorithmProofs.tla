---------------------------- MODULE AlgorithmProofs ----------------------------
(***************************************************************************)
(* Proofs about the algorithms of the API: text patches over any texts and *)
(* any number of edits, and the neighbourhoods and paths of any finite set *)
(* of tables with any keys.                                                *)
(***************************************************************************)
EXTENDS Algorithms, FiniteSetTheorems, SequenceTheorems, WellFoundedInduction, TLAPS

-----------------------------------------------------------------------------
(***************************************************************************)
(* Numbers: a least one, all of them, and what steps from a start define.  *)
(***************************************************************************)
\* A set that has 0, and with each number the next, has all numbers.
LEMMA AllNumbers ==
    ASSUME NEW S, 0 \in S, \A n \in Nat : n \in S => n + 1 \in S
    PROVE  Nat \subseteq S
<1> DEFINE less == {p \in Nat \X Nat : p[1] < p[2]}
           Out == {n \in Nat : n \notin S}
<1>1. IsWellFoundedOn(less, Nat)
  BY NatLessThanWellFounded DEF OpToRel
<1> SUFFICES ASSUME Out # {} PROVE FALSE
  OBVIOUS
<1>2. PICK m \in Out : \A k \in Out : <<k, m>> \notin less
  BY <1>1, WFMin
<1>3. m # 0 /\ m - 1 \in Nat
  BY <1>2
<1>4. <<m - 1, m>> \in less
  BY <1>3
<1>5. m - 1 \in S
  BY <1>2, <1>3, <1>4
<1> QED BY <1>2, <1>3, <1>5

\* Numbers have a least one.
LEMMA LeastNumber ==
    ASSUME NEW S \in SUBSET Nat, S # {}
    PROVE  \E m \in S : \A n \in S : m <= n
<1> DEFINE less == {p \in Nat \X Nat : p[1] < p[2]}
<1>1. IsWellFoundedOn(less, Nat)
  BY NatLessThanWellFounded DEF OpToRel
<1>2. PICK m \in S : \A k \in S : <<k, m>> \notin less
  BY <1>1, WFMin
<1>3. ASSUME NEW n \in S PROVE m <= n
  <2>1. m \in Nat /\ n \in Nat
    OBVIOUS
  <2>2. ~(n < m)
    BY <1>2, <2>1
  <2> QED BY <2>1, <2>2
<1> QED BY <1>3

\* A start and a step make a sequence without end.
Steps(f, n, start, step) ==
    /\ f[0] = start
    /\ \A k \in 1..n : f[k] = step[k][f[k - 1]]

\* f starts with start and takes each step after the one before it.
Recurses(f, S, start, step) ==
    /\ f \in [Nat -> S] /\ f[0] = start
    /\ \A n \in Nat : f[n + 1] = step[n + 1][f[n]]

\* Such a function exists: what a recursive definition of steps defines.
LEMMA Recursion ==
    ASSUME NEW S, NEW start \in S, NEW step \in [Nat -> [S -> S]]
    PROVE  \E f : Recurses(f, S, start, step)
<1> DEFINE Runs(n) == {f \in [Nat -> S] : Steps(f, n, start, step)}
           Long == {n \in Nat : Runs(n) # {}}
           Same(n) == \A f, g \in [Nat -> S] :
              Steps(f, n, start, step) /\ Steps(g, n, start, step) => f[n] = g[n]
           Alike == {n \in Nat : Same(n)}
<1>1. 0 \in Long
  <2>1. [k \in Nat |-> start] \in Runs(0)
    BY DEF Steps
  <2> QED BY <2>1
<1>2. ASSUME NEW n \in Nat, n \in Long
      PROVE  n + 1 \in Long
  <2>1. PICK f \in [Nat -> S] : Steps(f, n, start, step)
    BY <1>2
  <2> DEFINE g == [f EXCEPT ![n + 1] = step[n + 1][f[n]]]
  <2>2. g \in [Nat -> S]
    <3>1. step[n + 1][f[n]] \in S
      OBVIOUS
    <3> QED BY <3>1
  <2>3. g[n + 1] = step[n + 1][f[n]] /\ \A k \in 0..n : g[k] = f[k]
    OBVIOUS
  <2> HIDE DEF g
  <2>4. Steps(g, n + 1, start, step)
    <3>1. g[0] = start
      BY <2>1, <2>3 DEF Steps
    <3>2. ASSUME NEW k \in 1..(n + 1)
          PROVE  g[k] = step[k][g[k - 1]]
      <4>1. CASE k = n + 1
        <5>1. g[k - 1] = f[n]
          BY <2>3, <4>1
        <5> QED BY <2>3, <4>1, <5>1
      <4>2. CASE k \in 1..n
        <5>1. g[k] = f[k] /\ g[k - 1] = f[k - 1]
          BY <2>3, <4>2
        <5> QED BY <2>1, <4>2, <5>1 DEF Steps
      <4> QED BY <4>1, <4>2
    <3> QED BY <3>1, <3>2 DEF Steps
  <2> QED BY <2>2, <2>4
<1>3. Nat \subseteq Long
  <2> HIDE DEF Long
  <2> QED BY <1>1, <1>2, AllNumbers
<1>4. 0 \in Alike
  BY DEF Steps
<1>5. ASSUME NEW n \in Nat, n \in Alike
      PROVE  n + 1 \in Alike
  <2> SUFFICES ASSUME NEW f \in [Nat -> S], NEW g \in [Nat -> S],
                      Steps(f, n + 1, start, step), Steps(g, n + 1, start, step)
               PROVE  f[n + 1] = g[n + 1]
    OBVIOUS
  <2>1. Steps(f, n, start, step) /\ Steps(g, n, start, step)
    BY DEF Steps
  <2>2. f[n] = g[n]
    BY <1>5, <2>1
  <2>3. n + 1 \in 1..(n + 1) /\ (n + 1) - 1 = n
    OBVIOUS
  <2>4. f[n + 1] = step[n + 1][f[n]] /\ g[n + 1] = step[n + 1][g[n]]
    BY <2>3 DEF Steps
  <2> QED BY <2>2, <2>4
<1>6. Nat \subseteq Alike
  <2> HIDE DEF Alike
  <2> QED BY <1>4, <1>5, AllNumbers
<1> DEFINE run == [n \in Nat |-> CHOOSE f : f \in Runs(n)]
           all == [n \in Nat |-> run[n][n]]
<1>7. \A n \in Nat : run[n] \in Runs(n)
  BY <1>3
<1>8. all \in [Nat -> S] /\ \A n \in Nat : all[n] = run[n][n]
  BY <1>7
<1> HIDE DEF run, all
<1>9. all[0] = start
  BY <1>7, <1>8 DEF Steps
<1>10. ASSUME NEW n \in Nat
       PROVE  all[n + 1] = step[n + 1][all[n]]
  <2>1. run[n + 1] \in [Nat -> S] /\ Steps(run[n + 1], n + 1, start, step)
    BY <1>7
  <2>2. run[n] \in [Nat -> S] /\ Steps(run[n], n, start, step)
    BY <1>7
  <2>3. Steps(run[n + 1], n, start, step)
    BY <2>1 DEF Steps
  <2>4. run[n + 1][n] = run[n][n]
    BY <1>6, <2>1, <2>2, <2>3
  <2>5. n + 1 \in 1..(n + 1) /\ (n + 1) - 1 = n
    OBVIOUS
  <2>6. run[n + 1][n + 1] = step[n + 1][run[n + 1][n]]
    BY <2>1, <2>5 DEF Steps
  <2> QED BY <1>8, <2>4, <2>6
<1> QED BY <1>8, <1>9, <1>10 DEF Recurses

-----------------------------------------------------------------------------
(***************************************************************************)
(* Text patches: spans found, compared and replaced from the last one.     *)
(***************************************************************************)
\* A text is a sequence of characters.
Texts == Seq(Characters)

\* Places are where the text stands.
LEMMA FindFinds ==
    ASSUME NEW old \in Texts, NEW c \in Texts, NEW cursor \in Nat, old # <<>>
    PROVE  /\ Places(old, c, cursor) \subseteq Nat
           /\ Find(old, c, cursor) \in Places(old, c, cursor) \cup {0}
           /\ Len(old) \in Nat \ {0} /\ Len(c) \in Nat
<1>1. Len(old) \in Nat \ {0} /\ Len(c) \in Nat
  BY EmptySeq, LenProperties DEF Texts
<1>2. Places(old, c, cursor) \subseteq Nat
  BY <1>1 DEF Places
<1>3. ASSUME Places(old, c, cursor) # {}
      PROVE  Find(old, c, cursor) \in Places(old, c, cursor)
  <2>1. \E i \in Places(old, c, cursor) : \A j \in Places(old, c, cursor) : i <= j
    BY <1>2, <1>3, LeastNumber
  <2> QED BY <1>3, <2>1 DEF Find
<1> QED BY <1>1, <1>2, <1>3 DEF Find

\* One turn of the search, given what the searches further on find.
Search(old, c, later) ==
    [cursor \in Nat |->
        IF Find(old, c, cursor) = 0 THEN {}
        ELSE {Find(old, c, cursor)} \cup later[Find(old, c, cursor) + Len(old)]]

\* The search of apply_text_patch ends, so what it finds is defined.
LEMMA SearchEnds ==
    ASSUME NEW old \in Texts, NEW c \in Texts, old # <<>>
    PROVE  \E from \in [Nat -> SUBSET Nat] : from = Search(old, c, from)
<1> DEFINE S == [Nat -> SUBSET Nat]
           step == [m \in Nat |-> [later \in S |-> Search(old, c, later)]]
           start == [cursor \in Nat |-> {}]
<1>1. \A cursor \in Nat : Find(old, c, cursor) \in Nat
  BY FindFinds
<1>2. \A later \in S : Search(old, c, later) \in S
  <2> TAKE later \in S
  <2>1. ASSUME NEW cursor \in Nat
        PROVE  (IF Find(old, c, cursor) = 0 THEN {}
                ELSE {Find(old, c, cursor)} \cup later[Find(old, c, cursor) + Len(old)])
                  \in SUBSET Nat
    <3>1. Find(old, c, cursor) + Len(old) \in Nat
      BY <1>1, FindFinds
    <3> QED BY <1>1, <3>1
  <2> QED BY <2>1 DEF Search
<1>3. start \in S
  OBVIOUS
<1>l. Len(c) \in Nat
  BY LenProperties DEF Texts
<1> HIDE DEF S
<1>s. step \in [Nat -> [S -> S]]
  BY <1>2
<1>4. \A m \in Nat, later \in S : step[m][later] = Search(old, c, later)
  BY <1>2
<1> HIDE DEF step, start
<1>p. PICK f : Recurses(f, S, start, step)
  BY <1>3, <1>s, Recursion
<1>r. /\ f \in [Nat -> S] /\ f[0] = start
      /\ \A n \in Nat : f[n + 1] = step[n + 1][f[n]]
  BY <1>p DEF Recurses
<1>5. \A n \in Nat : f[n] \in S /\ f[n + 1] = Search(old, c, f[n])
  <2> TAKE n \in Nat
  <2>1. n + 1 \in Nat /\ f[n] \in S
    BY <1>r
  <2> QED BY <1>4, <1>r, <2>1
<1> DEFINE Agree(n) == \A cursor \in Nat :
              cursor + n > Len(c) => f[n + 1][cursor] = f[n][cursor]
           Agreed == {n \in Nat : Agree(n)}
<1>6. 0 \in Agreed
  <2> SUFFICES ASSUME NEW cursor \in Nat, cursor > Len(c)
               PROVE  f[1][cursor] = f[0][cursor]
    OBVIOUS
  <2>1. Places(old, c, cursor) = {}
    BY FindFinds DEF Places
  <2>2. Find(old, c, cursor) = 0
    BY <2>1 DEF Find
  <2>3. f[1] = Search(old, c, f[0])
    BY <1>5
  <2> QED BY <1>r, <2>2, <2>3 DEF Search, start
<1>7. ASSUME NEW n \in Nat, n \in Agreed
      PROVE  n + 1 \in Agreed
  <2> SUFFICES ASSUME NEW cursor \in Nat, cursor + (n + 1) > Len(c)
               PROVE  f[(n + 1) + 1][cursor] = f[n + 1][cursor]
    OBVIOUS
  <2>0. n + 1 \in Nat
    OBVIOUS
  <2>1. /\ f[(n + 1) + 1] = Search(old, c, f[n + 1])
        /\ f[n + 1] = Search(old, c, f[n])
    BY <1>5, <2>0
  <2>2. CASE Find(old, c, cursor) = 0
    BY <2>1, <2>2 DEF Search
  <2>3. CASE Find(old, c, cursor) # 0
    <3> DEFINE i == Find(old, c, cursor)
    <3>1. i \in Nat /\ i >= cursor /\ Len(old) \in Nat \ {0} /\ Len(c) \in Nat
      BY <1>1, <2>3, FindFinds DEF Places
    <3> HIDE DEF i
    <3>2. i + Len(old) \in Nat /\ (i + Len(old)) + n > Len(c)
      BY <3>1
    <3> HIDE DEF Agreed
    <3>3. f[n + 1][i + Len(old)] = f[n][i + Len(old)]
      <4>1. Agree(n)
        BY <1>7 DEF Agreed
      <4> QED BY <3>2, <4>1
    <3>4. f[(n + 1) + 1][cursor] = {i} \cup f[n + 1][i + Len(old)]
      BY <2>1, <2>3 DEF Search, i
    <3>5. f[n + 1][cursor] = {i} \cup f[n][i + Len(old)]
      BY <2>1, <2>3 DEF Search, i
    <3> QED BY <3>3, <3>4, <3>5
  <2> QED BY <2>2, <2>3
<1>8. Nat \subseteq Agreed
  <2> HIDE DEF Agreed
  <2> QED BY <1>6, <1>7, AllNumbers
<1> DEFINE last == f[Len(c) + 1]
<1>9. last \in S /\ last = Search(old, c, last)
  <2>1. Len(c) + 1 \in Nat
    BY <1>l
  <2>2. ASSUME NEW cursor \in Nat
        PROVE  f[(Len(c) + 1) + 1][cursor] = f[Len(c) + 1][cursor]
    <3>1. Len(c) + 1 \in Agreed
      BY <1>8, <2>1
    <3>2. cursor + (Len(c) + 1) > Len(c)
      BY <1>l
    <3> QED BY <3>1, <3>2
  <2>3. f[(Len(c) + 1) + 1] \in S /\ f[Len(c) + 1] \in S
    BY <1>5, <2>1
  <2>4. f[(Len(c) + 1) + 1] = f[Len(c) + 1]
    BY <2>2, <2>3 DEF S
  <2> QED BY <1>5, <2>1, <2>4
<1> QED BY <1>9 DEF S

\* An edit takes places of its text.
LEMMA StartsArePlaces ==
    ASSUME NEW old \in Texts, NEW c \in Texts, old # <<>>
    PROVE  Starts(old, c) \subseteq Places(old, c, 1)
<1> DEFINE from == CHOOSE g : g = Search(old, c, g)
<1>1. from = Search(old, c, from)
  BY SearchEnds
<1>2. Starts(old, c) = from[1]
  BY DEF Starts, Search
<1> HIDE DEF from
<1> DEFINE Fine(n) == \A cursor \in Nat \ {0} :
              cursor + n > Len(c) => from[cursor] \subseteq Places(old, c, 1)
           All == {n \in Nat : Fine(n)}
<1>3. ASSUME NEW cursor \in Nat \ {0}, Find(old, c, cursor) # 0,
             from[Find(old, c, cursor) + Len(old)] \subseteq Places(old, c, 1)
      PROVE  from[cursor] \subseteq Places(old, c, 1)
  <2>1. Find(old, c, cursor) \in Places(old, c, 1)
    BY <1>3, FindFinds DEF Places
  <2> QED BY <1>1, <1>3, <2>1 DEF Search
<1>4. \A cursor \in Nat \ {0} : Find(old, c, cursor) = 0 => from[cursor] = {}
  BY <1>1 DEF Search
<1>5. 0 \in All
  <2> SUFFICES ASSUME NEW cursor \in Nat \ {0}, cursor > Len(c)
               PROVE  from[cursor] \subseteq Places(old, c, 1)
    OBVIOUS
  <2>1. Places(old, c, cursor) = {}
    BY FindFinds DEF Places
  <2> QED BY <1>4, <2>1 DEF Find
<1>6. ASSUME NEW n \in Nat, n \in All
      PROVE  n + 1 \in All
  <2> SUFFICES ASSUME NEW cursor \in Nat \ {0}, cursor + (n + 1) > Len(c)
               PROVE  from[cursor] \subseteq Places(old, c, 1)
    OBVIOUS
  <2>1. CASE Find(old, c, cursor) = 0
    BY <1>4, <2>1
  <2>2. CASE Find(old, c, cursor) # 0
    <3> DEFINE i == Find(old, c, cursor)
    <3>1. i \in Nat /\ i >= cursor /\ Len(old) \in Nat \ {0} /\ Len(c) \in Nat
      BY <2>2, FindFinds DEF Places
    <3> HIDE DEF i
    <3>2. i + Len(old) \in Nat \ {0} /\ (i + Len(old)) + n > Len(c)
      BY <3>1
    <3>3. from[i + Len(old)] \subseteq Places(old, c, 1)
      BY <1>6, <3>2
    <3> QED BY <1>3, <2>2, <3>3 DEF i
  <2> QED BY <2>1, <2>2
<1>7. Nat \subseteq All
  <2> HIDE DEF All
  <2> QED BY <1>5, <1>6, AllNumbers
<1>8. Len(c) \in Nat /\ 1 + Len(c) > Len(c)
  BY LenProperties DEF Texts
<1>9. Fine(Len(c))
  BY <1>7, <1>8
<1> QED BY <1>2, <1>8, <1>9

\* Texts under concatenation.
LEMMA TextsJoin ==
    /\ <<>> \in Texts
    /\ \A s \in Texts : Len(s) \in Nat /\ s \o <<>> = s /\ <<>> \o s = s
    /\ \A s, t \in Texts : s \o t \in Texts
    /\ \A s, t, u \in Texts : (s \o t) \o u = s \o (t \o u)
<1>1. <<>> \in Texts
  BY EmptySeq DEF Texts
<1>2. ASSUME NEW s \in Texts
      PROVE  Len(s) \in Nat /\ s \o <<>> = s /\ <<>> \o s = s
  <2>1. s \in Seq(Characters)
    BY DEF Texts
  <2> QED BY <2>1, LenProperties, ConcatEmptySeq
<1>3. ASSUME NEW s \in Texts, NEW t \in Texts
      PROVE  s \o t \in Texts
  <2>1. s \in Seq(Characters) /\ t \in Seq(Characters)
    BY DEF Texts
  <2> QED BY <2>1, ConcatProperties DEF Texts
<1>4. ASSUME NEW s \in Texts, NEW t \in Texts, NEW u \in Texts
      PROVE  (s \o t) \o u = s \o (t \o u)
  <2>1. s \in Seq(Characters) /\ t \in Seq(Characters) /\ u \in Seq(Characters)
    BY DEF Texts
  <2> QED BY ONLY <2>1, ConcatAssociative
<1> QED BY <1>1, <1>2, <1>3, <1>4

\* Where an edit was found, and what it puts there.
Spans == [index : Nat, first : Nat, past : Nat, new : Texts]

\* A set of spans has a first.
LEMMA FirstSpan ==
    ASSUME NEW T \in SUBSET Spans, T # {}
    PROVE  \E s \in T : \A t \in T : Before(s, t)
<1> DEFINE F == {s.first : s \in T}
<1>1. F \in SUBSET Nat /\ F # {}
  BY DEF Spans
<1>2. PICK f \in F : \A n \in F : f <= n
  <2> HIDE DEF F
  <2> QED BY <1>1, LeastNumber
<1> DEFINE T2 == {s \in T : s.first = f}
           P == {s.past : s \in T2}
<1>3. P \in SUBSET Nat /\ P # {}
  BY <1>2 DEF Spans
<1>4. PICK p \in P : \A n \in P : p <= n
  <2> HIDE DEF P
  <2> QED BY <1>3, LeastNumber
<1> DEFINE T3 == {s \in T2 : s.past = p}
           I == {s.index : s \in T3}
<1>5. I \in SUBSET Nat /\ I # {}
  BY <1>4 DEF Spans
<1>6. PICK i \in I : \A n \in I : i <= n
  <2> HIDE DEF I
  <2> QED BY <1>5, LeastNumber
<1>7. PICK s \in T3 : s.index = i
  BY <1>6
<1>8. ASSUME NEW t \in T
      PROVE  Before(s, t)
  <2>1. /\ s.first = f /\ s.past = p /\ s.index = i
        /\ s.first \in Nat /\ s.past \in Nat /\ s.index \in Nat
        /\ t.first \in Nat /\ t.past \in Nat /\ t.index \in Nat
    BY <1>7 DEF Spans
  <2>2. f <= t.first
    BY <1>2
  <2>3. t.first = f => p <= t.past
    BY <1>4
  <2>4. t.first = f /\ t.past = p => i <= t.index
    BY <1>6
  <2> QED BY <2>1, <2>2, <2>3, <2>4 DEF Before
<1> QED BY <1>7, <1>8

\* Spans that are told apart by their index and their ends.
TellApart(T) == \A a, b \in T :
    a.index = b.index /\ a.first = b.first /\ a.past = b.past => a = b

\* The order is total, and agrees with the places.
LEMMA OrderIsTotal ==
    ASSUME NEW a \in Spans, NEW b \in Spans
    PROVE  /\ Before(a, b) \/ Before(b, a)
           /\ Before(a, b) => a.first <= b.first
           /\ Before(a, b) /\ Before(b, a) =>
                 a.index = b.index /\ a.first = b.first /\ a.past = b.past
           /\ a.index \in Nat /\ a.first \in Nat /\ a.past \in Nat
BY DEF Before, Spans

\* If any two spans overlap, two neighbours do, and the other way round.
LEMMA NeighboursTell ==
    ASSUME patch.spans \in SUBSET Spans, TellApart(patch.spans),
           \A s \in patch.spans : s.first < s.past
    PROVE  (\E a, b \in patch.spans : Neighbours(a, b) /\ b.first < a.past)
              <=> (\E a, b \in patch.spans : a # b /\ Overlap(a, b))
<1> DEFINE T == patch.spans
<1>1. ASSUME NEW a \in T, NEW b \in T, Neighbours(a, b), b.first < a.past
      PROVE  a # b /\ Overlap(a, b)
  <2>1. a.first <= b.first /\ b.first < b.past
    BY <1>1, OrderIsTotal DEF Neighbours
  <2>2. a.first \in Nat /\ b.first \in Nat /\ b.past \in Nat
    BY OrderIsTotal
  <2> QED BY <1>1, <2>1, <2>2 DEF Neighbours, Overlap
<1>2. ASSUME NEW a \in T, NEW b \in T, a # b, Overlap(a, b), Before(a, b)
      PROVE  \E x, y \in T : Neighbours(x, y) /\ y.first < x.past
  <2> DEFINE After == {c \in T \ {a} : Before(a, c)}
  <2>1. After \in SUBSET Spans /\ After # {}
    BY <1>2
  <2>2. PICK n \in After : \A c \in After : Before(n, c)
    <3> HIDE DEF After
    <3> QED BY <2>1, FirstSpan
  <2>3. Neighbours(a, n)
    BY <2>2, OrderIsTotal DEF Neighbours
  <2>4. n.first <= b.first /\ b.first < a.past
    BY <1>2, <2>2, OrderIsTotal DEF Overlap
  <2>5. n.first \in Nat /\ b.first \in Nat /\ a.past \in Nat
    BY <2>2, OrderIsTotal
  <2> QED BY <2>2, <2>3, <2>4, <2>5
<1>3. ASSUME NEW a \in T, NEW b \in T, a # b, Overlap(a, b)
      PROVE  \E x, y \in T : Neighbours(x, y) /\ y.first < x.past
  <2>1. Overlap(b, a)
    BY <1>3 DEF Overlap
  <2>2. Before(a, b) \/ Before(b, a)
    BY OrderIsTotal
  <2> QED BY <1>2, <1>3, <2>1, <2>2
<1> QED BY <1>1, <1>3

-----------------------------------------------------------------------------
\* The first k of a sequence of texts, one after the other.
Joined(texts, F) ==
    /\ F \in [0..Len(texts) -> Texts] /\ F[0] = <<>>
    /\ \A k \in 1..Len(texts) : F[k] = F[k - 1] \o texts[k]

\* FlattenSeq joins texts from the first to the last.
LEMMA FlattenJoins ==
    ASSUME NEW texts \in Seq(Texts)
    PROVE  \E F : Joined(texts, F) /\ FlattenSeq(texts) = F[Len(texts)]
<1> DEFINE n == Len(texts)
           text == [k \in Nat |-> IF k \in 1..n THEN texts[k] ELSE <<>>]
           step == [k \in Nat |-> [t \in Texts |-> t \o text[k]]]
<1>1. n \in Nat /\ \A k \in 1..n : texts[k] \in Texts
  BY LenProperties
<1>2. /\ <<>> \in Texts /\ \A k \in Nat : text[k] \in Texts
      /\ \A k \in 1..n : k \in Nat /\ text[k] = texts[k]
  BY <1>1, TextsJoin
<1> HIDE DEF text
<1>3. \A k \in Nat, t \in Texts : t \o text[k] \in Texts
  BY <1>2, TextsJoin
<1>4. step \in [Nat -> [Texts -> Texts]]
  BY <1>3
<1>5. \A k \in 1..n, t \in Texts : step[k][t] = t \o texts[k]
  BY <1>2
<1> HIDE DEF step
<1>6. PICK G : Recurses(G, Texts, <<>>, step)
  BY <1>2, <1>4, Recursion
<1> DEFINE F == [k \in 0..n |-> G[k]]
<1>7. Joined(texts, F)
  <2>1. /\ G \in [Nat -> Texts] /\ G[0] = <<>>
        /\ \A k \in Nat : G[k + 1] = step[k + 1][G[k]]
    BY <1>6 DEF Recurses
  <2>2. F \in [0..n -> Texts] /\ F[0] = <<>>
    BY <1>1, <2>1
  <2>3. ASSUME NEW k \in 1..n
        PROVE  F[k] = F[k - 1] \o texts[k]
    <3>1. /\ k - 1 \in Nat /\ (k - 1) + 1 = k
          /\ k \in 0..n /\ k - 1 \in 0..n
      BY <1>1
    <3>2. G[k] = step[k][G[k - 1]]
      BY <2>1, <3>1
    <3>3. F[k] = G[k] /\ F[k - 1] = G[k - 1] /\ G[k - 1] \in Texts
      BY <2>1, <3>1
    <3> QED BY <1>5, <3>2, <3>3
  <2> QED BY <2>2, <2>3 DEF Joined
<1>8. FlattenSeq(texts) = F[n]
  <2>1. CASE n = 0
    <3>1. FlattenSeq(texts) = texts
      BY <2>1 DEF FlattenSeq
    <3>2. texts = <<>>
      BY <2>1, EmptySeq
    <3>3. F[n] = <<>>
      BY <1>7, <2>1 DEF Joined
    <3> QED BY <3>1, <3>2, <3>3
  <2>2. CASE n # 0
    <3> HIDE DEF F
    <3> DEFINE flat == CHOOSE g : g = [k \in 1..n |->
                          IF k = 1 THEN texts[k] ELSE g[k - 1] \o texts[k]]
               H == [k \in 1..n |-> F[k]]
    <3>1. FlattenSeq(texts) = flat[n]
      BY <2>2 DEF FlattenSeq
    <3>2. ASSUME NEW k \in 1..n
          PROVE  H[k] = IF k = 1 THEN texts[k] ELSE H[k - 1] \o texts[k]
      <4>1. F[k] = F[k - 1] \o texts[k]
        BY <1>7 DEF Joined
      <4>2. CASE k = 1
        <5>1. F[0] = <<>> /\ texts[k] \in Texts
          BY <1>1, <1>7 DEF Joined
        <5>2. <<>> \o texts[k] = texts[k]
          BY <5>1, TextsJoin
        <5>3. k - 1 = 0
          BY <4>2
        <5>4. F[k] = texts[k]
          BY <4>1, <5>1, <5>2, <5>3
        <5> QED BY <4>2, <5>4
      <4>3. CASE k # 1
        <5>1. k - 1 \in 1..n
          BY <1>1, <4>3
        <5>2. H[k - 1] = F[k - 1] /\ H[k] = F[k]
          BY <5>1
        <5> QED BY <4>1, <4>3, <5>2
      <4> QED BY <4>2, <4>3
    <3>a. H = [k \in 1..n |-> H[k]]
      OBVIOUS
    <3> HIDE DEF H, F, n
    <3>3. H = [k \in 1..n |-> IF k = 1 THEN texts[k] ELSE H[k - 1] \o texts[k]]
      BY <3>2, <3>a
    <3>4. flat = [k \in 1..n |-> IF k = 1 THEN texts[k] ELSE flat[k - 1] \o texts[k]]
      BY <3>3
    <3> HIDE DEF flat
    <3> DEFINE Equal == {k \in Nat : k + 1 \in 1..n => flat[k + 1] = H[k + 1]}
    <3>5. 0 \in Equal
      BY <3>3, <3>4
    <3>6. ASSUME NEW k \in Nat, k \in Equal
          PROVE  k + 1 \in Equal
      <4> SUFFICES ASSUME (k + 1) + 1 \in 1..n
                   PROVE  flat[(k + 1) + 1] = H[(k + 1) + 1]
        OBVIOUS
      <4>1. flat[k + 1] = H[k + 1]
        BY <1>1, <3>6
      <4>2. (k + 1) + 1 # 1 /\ ((k + 1) + 1) - 1 = k + 1
        OBVIOUS
      <4>3. flat[(k + 1) + 1] = flat[k + 1] \o texts[(k + 1) + 1]
        BY <3>4, <4>2
      <4>4. H[(k + 1) + 1] = H[k + 1] \o texts[(k + 1) + 1]
        BY <3>3, <4>2
      <4> QED BY <4>1, <4>3, <4>4
    <3>7. n - 1 \in Equal
      <4> HIDE DEF Equal
      <4>1. Nat \subseteq Equal
        BY <3>5, <3>6, AllNumbers
      <4> QED BY <1>1, <2>2, <4>1
    <3>8. flat[n] = H[n]
      BY <1>1, <2>2, <3>7
    <3>9. H[n] = F[n]
      <4>1. n \in 1..n
        BY <1>1, <2>2
      <4> QED BY <4>1 DEF H
    <3> QED BY <3>1, <3>8, <3>9
  <2> QED BY <2>1, <2>2
<1> QED BY <1>7, <1>8

\* Where every text is the character at its place, joining them copies.
LEMMA JoiningCopies ==
    ASSUME NEW c \in Texts, NEW texts \in Seq(Texts), Len(texts) = Len(c),
           NEW F, Joined(texts, F),
           NEW a \in 0..Len(c), NEW b \in a..Len(c),
           \A i \in (a + 1)..b : texts[i] = <<c[i]>>
    PROVE  F[b] = F[a] \o SubSeq(c, a + 1, b)
<1>0. Len(c) \in Nat /\ \A k \in 0..Len(c) : F[k] \in Texts
  BY TextsJoin DEF Joined
<1> DEFINE Copies(k) == a + k <= b => F[a + k] = F[a] \o SubSeq(c, a + 1, a + k)
           Copied == {k \in Nat : Copies(k)}
<1>1. 0 \in Copied
  <2>1. SubSeq(c, a + 1, a) = <<>>
    BY <1>0, SubSeqEmpty
  <2>2. F[a] \o <<>> = F[a] /\ a + 0 = a
    BY <1>0, TextsJoin
  <2> QED BY <2>1, <2>2
<1>2. ASSUME NEW k \in Nat, k \in Copied
      PROVE  k + 1 \in Copied
  <2>c. Copies(k)
    BY <1>2
  <2> SUFFICES Copies(k + 1)
    <3> HIDE DEF Copies
    <3> QED OBVIOUS
  <2> SUFFICES ASSUME a + (k + 1) <= b
               PROVE  F[a + (k + 1)] = F[a] \o SubSeq(c, a + 1, a + (k + 1))
    OBVIOUS
  <2> DEFINE m == a + (k + 1)
  <2>1. /\ m \in (a + 1)..b /\ m \in 1..Len(c) /\ m - 1 = a + k /\ a + k <= b
        /\ a + 1 \in 1..Len(c) /\ m \in (a + 1)..Len(c) /\ a + k \in 0..Len(c)
    BY <1>0
  <2>2. F[m] = F[a + k] \o <<c[m]>>
    BY <2>1 DEF Joined
  <2>3. F[a + k] = F[a] \o SubSeq(c, a + 1, a + k)
    BY <2>c, <2>1
  <2>4. SubSeq(c, a + 1, m) = SubSeq(c, a + 1, a + k) \o <<c[m]>>
    BY <2>1, SubSeqRecursiveSecond DEF Texts
  <2>5. F[a] \in Texts /\ SubSeq(c, a + 1, a + k) \in Texts /\ <<c[m]>> \in Texts
    <3>0. \A i \in 1..Len(c) : c[i] \in Characters
      BY ElementOfSeq DEF Texts
    <3>1. c[m] \in Characters /\ \A i \in (a + 1)..(a + k) : c[i] \in Characters
      <4>1. \A i \in (a + 1)..(a + k) : i \in 1..Len(c)
        BY <1>0, <2>1
      <4> QED BY <2>1, <3>0, <4>1
    <3>2. a + 1 \in Int /\ a + k \in Int
      BY <1>0, <2>1
    <3> QED BY <1>0, <3>1, <3>2, SubSeqProperties DEF Texts
  <2> HIDE DEF m
  <2>6. (F[a] \o SubSeq(c, a + 1, a + k)) \o <<c[m]>>
           = F[a] \o (SubSeq(c, a + 1, a + k) \o <<c[m]>>)
    BY <2>5, TextsJoin
  <2> QED BY <2>2, <2>3, <2>4, <2>6 DEF m
<1>3. Nat \subseteq Copied
  <2> HIDE DEF Copied
  <2> QED BY <1>1, <1>2, AllNumbers
<1>4. PICK k \in Nat : a + k = b
  <2>1. b - a \in Nat /\ a + (b - a) = b
    BY <1>0
  <2> QED BY <2>1
<1>5. Copies(k)
  <2>1. k \in Copied
    BY <1>3
  <2> QED BY <2>1
<1>6. b <= b
  BY <1>0
<1>7. F[a + k] = F[a] \o SubSeq(c, a + 1, a + k)
  BY <1>4, <1>5, <1>6
<1> QED BY <1>4, <1>7

\* Where every text is empty, joining them adds nothing.
LEMMA JoiningSkips ==
    ASSUME NEW texts \in Seq(Texts), NEW F, Joined(texts, F),
           NEW a \in 0..Len(texts), NEW b \in a..Len(texts),
           \A i \in (a + 1)..b : texts[i] = <<>>
    PROVE  F[b] = F[a]
<1>0. Len(texts) \in Nat /\ \A k \in 0..Len(texts) : F[k] \in Texts
  BY LenProperties DEF Joined
<1> DEFINE Skipped == {k \in Nat : a + k <= b => F[a + k] = F[a]}
<1>1. 0 \in Skipped
  BY <1>0
<1>2. ASSUME NEW k \in Nat, k \in Skipped
      PROVE  k + 1 \in Skipped
  <2> SUFFICES ASSUME a + (k + 1) <= b
               PROVE  F[a + (k + 1)] = F[a]
    OBVIOUS
  <2>1. /\ a + (k + 1) \in (a + 1)..b /\ a + (k + 1) \in 1..Len(texts)
        /\ (a + (k + 1)) - 1 = a + k /\ a + k <= b /\ a + k \in 0..Len(texts)
    BY <1>0
  <2>2. F[a + (k + 1)] = F[a + k] \o <<>>
    BY <2>1 DEF Joined
  <2>3. F[a + k] \o <<>> = F[a + k]
    BY <1>0, <2>1, TextsJoin
  <2> QED BY <1>2, <2>1, <2>2, <2>3
<1>3. Nat \subseteq Skipped
  <2> HIDE DEF Skipped
  <2> QED BY <1>1, <1>2, AllNumbers
<1>4. b - a \in Nat /\ a + (b - a) = b
  BY <1>0
<1>5. b - a \in Skipped
  BY <1>3, <1>4
<1> QED BY <1>0, <1>4, <1>5

\* A slice of a text.
LEMMA Slice ==
    ASSUME NEW c \in Texts, NEW m \in 1..(Len(c) + 1), NEW n \in (m - 1)..Len(c)
    PROVE  /\ SubSeq(c, m, n) \in Texts
           /\ Len(SubSeq(c, m, n)) = n - m + 1
           /\ \A i \in 1..(n - m + 1) : SubSeq(c, m, n)[i] = c[m + i - 1]
<1>1. Len(c) \in Nat /\ m \in Int /\ n \in Int
  BY TextsJoin
<1>2. \A i \in m..n : c[i] \in Characters
  <2> TAKE i \in m..n
  <2>1. i \in 1..Len(c)
    BY <1>1
  <2> QED BY <2>1, ElementOfSeq DEF Texts
<1>3. SubSeq(c, m, n) \in Seq(Characters)
  BY <1>1, <1>2, SubSeqProperties
<1>4. Len(SubSeq(c, m, n)) = IF m <= n THEN n - m + 1 ELSE 0
  BY <1>1, <1>2, SubSeqProperties
<1>5. \A i \in 1..(n - m + 1) : SubSeq(c, m, n)[i] = c[m + i - 1]
  BY <1>1, <1>2, SubSeqProperties
<1> QED BY <1>1, <1>3, <1>4, <1>5 DEF Texts

\* The content from q up to p, and what follows.
Between(c, q, p, rest) == SubSeq(c, q, p - 1) \o rest

\* What is before and after a place in a text whose beginning is still the content's.
LEMMA Slices ==
    ASSUME NEW c \in Texts, NEW rest \in Texts, NEW p \in 1..(Len(c) + 1),
           NEW f \in 1..p, NEW q \in 1..p
    PROVE  /\ Upto(Between(c, 1, p, rest), f - 1) = SubSeq(c, 1, f - 1)
           /\ SubSeq(Between(c, 1, p, rest), q, Len(Between(c, 1, p, rest)))
                 = Between(c, q, p, rest)
<1> DEFINE head == SubSeq(c, 1, p - 1)
           tail == SubSeq(c, q, p - 1)
           r == Between(c, 1, p, rest)
<1>r. r = SubSeq(c, 1, p - 1) \o rest
  BY DEF Between
<1> HIDE DEF r
<1>0. Len(c) \in Nat /\ Len(rest) \in Nat /\ f \in Int /\ q \in Int /\ p \in Int
  BY TextsJoin
<1>1. /\ head \in Texts /\ Len(head) = p - 1
      /\ \A i \in 1..(p - 1) : head[i] = c[i]
  <2>1. 1 \in 1..(Len(c) + 1) /\ p - 1 \in (1 - 1)..Len(c) /\ (p - 1) - 1 + 1 = p - 1
    BY <1>0
  <2>2. \A i \in 1..(p - 1) : 1 + i - 1 = i
    BY <1>0
  <2> QED BY <2>1, <2>2, Slice
<1>2. /\ tail \in Texts /\ Len(tail) = p - q
      /\ \A i \in 1..(p - q) : tail[i] = c[q + i - 1]
  <2>1. /\ q \in 1..(Len(c) + 1) /\ p - 1 \in (q - 1)..Len(c)
        /\ (p - 1) - q + 1 = p - q
    BY <1>0
  <2> QED BY <2>1, Slice
<1> HIDE DEF head, tail
<1>3. /\ r \in Texts /\ Len(r) = (p - 1) + Len(rest)
      /\ \A i \in 1..Len(r) : r[i] = IF i <= p - 1 THEN head[i] ELSE rest[i - (p - 1)]
  <2>1. head \in Seq(Characters) /\ rest \in Seq(Characters) /\ r = head \o rest
    BY <1>1, <1>r DEF Texts, head
  <2>2. r \in Seq(Characters) /\ Len(r) = Len(head) + Len(rest)
    BY <2>1, ConcatProperties
  <2>3. \A i \in 1..(Len(head) + Len(rest)) :
           r[i] = IF i <= Len(head) THEN head[i] ELSE rest[i - Len(head)]
    BY <2>1, ConcatProperties
  <2> QED BY <1>1, <2>2, <2>3 DEF Texts
<1>4. Upto(r, f - 1) = SubSeq(c, 1, f - 1)
  <2>1. Upto(r, f - 1) = SubSeq(r, 1, f - 1)
    BY <1>0, <1>3 DEF Upto
  <2>2. /\ SubSeq(r, 1, f - 1) \in Texts /\ Len(SubSeq(r, 1, f - 1)) = f - 1
        /\ \A i \in 1..(f - 1) : SubSeq(r, 1, f - 1)[i] = r[i]
    <3>1. /\ 1 \in 1..(Len(r) + 1) /\ f - 1 \in (1 - 1)..Len(r)
          /\ (f - 1) - 1 + 1 = f - 1
      BY <1>0, <1>3
    <3>2. \A i \in 1..(f - 1) : 1 + i - 1 = i
      BY <1>0
    <3>3. r \in Texts
      BY <1>3
    <3>4. /\ SubSeq(r, 1, f - 1) \in Texts
          /\ Len(SubSeq(r, 1, f - 1)) = (f - 1) - 1 + 1
          /\ \A i \in 1..((f - 1) - 1 + 1) : SubSeq(r, 1, f - 1)[i] = r[1 + i - 1]
      BY ONLY <3>1, <3>3, Slice
    <3> QED BY ONLY <3>1, <3>2, <3>4
  <2>3. /\ SubSeq(c, 1, f - 1) \in Texts /\ Len(SubSeq(c, 1, f - 1)) = f - 1
        /\ \A i \in 1..(f - 1) : SubSeq(c, 1, f - 1)[i] = c[i]
    <3>1. /\ 1 \in 1..(Len(c) + 1) /\ f - 1 \in (1 - 1)..Len(c)
          /\ (f - 1) - 1 + 1 = f - 1
      BY <1>0
    <3>2. \A i \in 1..(f - 1) : 1 + i - 1 = i
      BY <1>0
    <3> QED BY <3>1, <3>2, Slice
  <2>4. \A i \in 1..(f - 1) : r[i] = c[i]
    <3> TAKE i \in 1..(f - 1)
    <3>1. i \in 1..(p - 1) /\ i \in 1..Len(r) /\ i <= p - 1
      BY <1>0, <1>3
    <3> QED BY <1>1, <1>3, <3>1
  <2>5. SubSeq(r, 1, f - 1) = SubSeq(c, 1, f - 1)
    BY <2>2, <2>3, <2>4, SeqEqual DEF Texts
  <2> QED BY <2>1, <2>5
<1>5. SubSeq(r, q, Len(r)) = tail \o rest
  <2>1. /\ SubSeq(r, q, Len(r)) \in Texts
        /\ Len(SubSeq(r, q, Len(r))) = Len(r) - q + 1
        /\ \A i \in 1..(Len(r) - q + 1) : SubSeq(r, q, Len(r))[i] = r[q + i - 1]
    <3>1. q \in 1..(Len(r) + 1) /\ Len(r) \in (q - 1)..Len(r)
      BY <1>0, <1>3
    <3> QED BY <1>3, <3>1, Slice
  <2>2. /\ tail \o rest \in Texts /\ Len(tail \o rest) = (p - q) + Len(rest)
        /\ \A i \in 1..((p - q) + Len(rest)) :
              (tail \o rest)[i] = IF i <= p - q THEN tail[i] ELSE rest[i - (p - q)]
    <3>1. tail \in Seq(Characters) /\ rest \in Seq(Characters)
      BY <1>2 DEF Texts
    <3>2. tail \o rest \in Seq(Characters) /\ Len(tail \o rest) = Len(tail) + Len(rest)
      BY <3>1, ConcatProperties
    <3>3. \A i \in 1..(Len(tail) + Len(rest)) :
             (tail \o rest)[i] = IF i <= Len(tail) THEN tail[i] ELSE rest[i - Len(tail)]
      BY <3>1, ConcatProperties
    <3> QED BY <1>2, <3>2, <3>3 DEF Texts
  <2>3. Len(r) - q + 1 = (p - q) + Len(rest)
    BY <1>0, <1>3
  <2>4. ASSUME NEW i \in 1..((p - q) + Len(rest))
        PROVE  r[q + i - 1] = IF i <= p - q THEN tail[i] ELSE rest[i - (p - q)]
    <3>0. Len(r) \in Nat /\ Len(r) = (p - 1) + Len(rest)
      BY <1>0, <1>3
    <3>1. q + i - 1 \in 1..Len(r)
      BY <1>0, <3>0
    <3>2. CASE i <= p - q
      <4>1. i \in 1..(p - q) /\ q + i - 1 \in 1..(p - 1) /\ q + i - 1 <= p - 1
        BY <1>0, <3>2
      <4> QED BY <1>1, <1>2, <1>3, <3>1, <3>2, <4>1
    <3>3. CASE ~(i <= p - q)
      <4>1. ~(q + i - 1 <= p - 1) /\ (q + i - 1) - (p - 1) = i - (p - q)
        BY <1>0, <3>3
      <4> QED BY <1>3, <3>1, <3>3, <4>1
    <3> QED BY <3>2, <3>3
  <2>5. Len(SubSeq(r, q, Len(r))) = Len(tail \o rest)
    BY <2>1, <2>2, <2>3
  <2>6. \A i \in 1..Len(SubSeq(r, q, Len(r))) : SubSeq(r, q, Len(r))[i] = (tail \o rest)[i]
    <3> SUFFICES ASSUME NEW i \in 1..((p - q) + Len(rest))
                 PROVE  SubSeq(r, q, Len(r))[i] = (tail \o rest)[i]
      BY <2>1, <2>3
    <3>1. SubSeq(r, q, Len(r))[i] = r[q + i - 1]
      BY <2>1, <2>3
    <3>2. (tail \o rest)[i] = IF i <= p - q THEN tail[i] ELSE rest[i - (p - q)]
      BY <2>2
    <3> QED BY <2>4, <3>1, <3>2
  <2>7. SubSeq(r, q, Len(r)) \in Seq(Characters) /\ tail \o rest \in Seq(Characters)
    BY <2>1, <2>2 DEF Texts
  <2> QED BY <2>5, <2>6, <2>7, SeqEqual
<1> QED BY <1>4, <1>5 DEF tail, r, Between

\* What a patch call may be.
PatchStages == {"find", "mismatch", "overlap", "overlapping", "replace", "patched", "unchanged"}
PatchCalls == [stage : PatchStages, content : Texts, edits : Seq(Edits),
               spans : SUBSET Spans, result : Texts]

\* The spans that were found lie in the content.
Fits(s) ==
    /\ s.first \in 1..Len(patch.content)
    /\ s.past \in (s.first + 1)..(Len(patch.content) + 1)
    /\ s.new \in Texts

\* The spans found lie in the content, and no two of an edit stand at one place.
LEMMA AllSpansFit ==
    ASSUME patch \in PatchCalls
    PROVE  /\ AllSpans \in SUBSET Spans /\ TellApart(AllSpans)
           /\ \A s \in AllSpans : Fits(s)
<1>0. patch.content \in Texts /\ patch.edits \in Seq(Edits) /\ Len(patch.content) \in Nat
  BY TextsJoin DEF PatchCalls
<1>1. ASSUME NEW n \in DOMAIN patch.edits, NEW s \in SpansOf(n)
      PROVE  /\ s \in Spans /\ s.index = n /\ Fits(s)
             /\ s.past = s.first + Len(patch.edits[n].old) /\ s.new = patch.edits[n].new
  <2>1. n \in Nat /\ patch.edits[n] \in Edits
    <3>1. DOMAIN patch.edits = 1..Len(patch.edits)
      BY <1>0, LenProperties
    <3>2. n \in 1..Len(patch.edits) /\ Len(patch.edits) \in Nat
      BY <1>0, <3>1, LenProperties
    <3> QED BY <1>0, <3>2, ElementOfSeq
  <2>2. /\ patch.edits[n].old \in Texts /\ patch.edits[n].old # <<>>
        /\ patch.edits[n].new \in Texts
    BY <2>1, TextsAreSequences DEF Texts
  <2>3. PICK i \in Starts(patch.edits[n].old, patch.content) :
           s = [index |-> n, first |-> i, past |-> i + Len(patch.edits[n].old),
                new |-> patch.edits[n].new]
    BY DEF SpansOf
  <2>4. i \in Places(patch.edits[n].old, patch.content, 1)
    BY <1>0, <2>2, <2>3, StartsArePlaces
  <2>5. Len(patch.edits[n].old) \in Nat \ {0}
    BY <1>0, <2>2, FindFinds
  <2>6. i \in 1..(Len(patch.content) - Len(patch.edits[n].old) + 1)
    BY <2>4 DEF Places
  <2>7. /\ i \in 1..Len(patch.content)
        /\ i + Len(patch.edits[n].old) \in (i + 1)..(Len(patch.content) + 1)
    <3>1. \A m, l, k \in Int : l > 0 /\ m \in 1..(k - l + 1) =>
              m \in 1..k /\ m + l \in (m + 1)..(k + 1)
      OBVIOUS
    <3> QED BY <1>0, <2>5, <2>6, <3>1
  <2>8. i \in Nat /\ i + Len(patch.edits[n].old) \in Nat
    BY <2>5, <2>7
  <2> QED BY <2>1, <2>2, <2>3, <2>7, <2>8 DEF Spans, Fits
<1>2. AllSpans \in SUBSET Spans /\ \A s \in AllSpans : Fits(s)
  BY <1>1 DEF AllSpans
<1>3. ASSUME NEW a \in AllSpans, NEW b \in AllSpans,
             a.index = b.index, a.first = b.first, a.past = b.past
      PROVE  a = b
  <2>1. PICK n \in DOMAIN patch.edits : a \in SpansOf(n)
    BY DEF AllSpans
  <2>2. PICK m \in DOMAIN patch.edits : b \in SpansOf(m)
    BY DEF AllSpans
  <2>3. a.new = b.new
    BY <1>1, <1>3, <2>1, <2>2
  <2>4. a \in Spans /\ b \in Spans
    BY <1>2
  <2> QED BY <1>3, <2>3, <2>4 DEF Spans
<1> QED BY <1>2, <1>3 DEF TellApart

\* No two of the spans found overlap.
Disjoint == \A a, b \in AllSpans : a # b => ~Overlap(a, b)

\* What stands in the result for each character of the content.
Chars == [i \in DOMAIN patch.content |-> Character(i)]

\* What stands in the result for each character of the content.
LEMMA CharsStand ==
    ASSUME patch \in PatchCalls, Disjoint
    PROVE  /\ Chars \in Seq(Texts) /\ Len(Chars) = Len(patch.content)
           /\ \A i \in 1..Len(patch.content) :
                 (\A s \in AllSpans : ~(s.first <= i /\ i < s.past))
                    => Chars[i] = <<patch.content[i]>>
           /\ \A s \in AllSpans :
                 /\ Chars[s.first] = s.new
                 /\ \A i \in (s.first + 1)..(s.past - 1) : Chars[i] = <<>>
<1>0. /\ patch.content \in Texts /\ Len(patch.content) \in Nat
      /\ DOMAIN patch.content = 1..Len(patch.content)
      /\ \A i \in 1..Len(patch.content) : patch.content[i] \in Characters
  <2>1. patch.content \in Seq(Characters)
    BY DEF PatchCalls, Texts
  <2> QED BY <2>1, LenProperties, ElementOfSeq DEF Texts
<1> DEFINE Covering(i) == {s \in AllSpans : s.first <= i /\ i < s.past}
<1>1. ASSUME NEW i \in 1..Len(patch.content), Covering(i) = {}
      PROVE  Character(i) = <<patch.content[i]>>
  BY <1>1 DEF Character
<1>2. ASSUME NEW i \in 1..Len(patch.content), NEW s \in AllSpans,
             s.first <= i, i < s.past
      PROVE  Character(i) = IF i = s.first THEN s.new ELSE <<>>
  <2>1. ASSUME NEW t \in Covering(i)
        PROVE  t = s
    <3>1. Fits(t) /\ Fits(s)
      BY AllSpansFit
    <3>2. Overlap(s, t)
      BY <1>0, <1>2, <3>1 DEF Overlap, Fits
    <3> QED BY <3>2 DEF Disjoint
  <2>2. s \in Covering(i)
    BY <1>2
  <2>3. (CHOOSE t \in Covering(i) : TRUE) = s
    <3> HIDE DEF Covering
    <3> QED BY <2>1, <2>2
  <2> QED BY <2>2, <2>3 DEF Character
<1>3. ASSUME NEW i \in 1..Len(patch.content)
      PROVE  Character(i) \in Texts
  <2>1. CASE Covering(i) = {}
    <3>1. <<patch.content[i]>> \in Texts
      BY <1>0 DEF Texts
    <3> QED BY <1>1, <2>1, <3>1
  <2>2. CASE Covering(i) # {}
    <3>1. PICK s \in AllSpans : s.first <= i /\ i < s.past
      BY <2>2
    <3>2. s.new \in Texts /\ <<>> \in Texts
      BY AllSpansFit, TextsJoin DEF Fits
    <3> QED BY <1>2, <3>1, <3>2
  <2> QED BY <2>1, <2>2
<1>4. Chars \in Seq(Texts) /\ Len(Chars) = Len(patch.content)
  <2>1. Chars \in [1..Len(patch.content) -> Texts]
    BY <1>0, <1>3 DEF Chars
  <2> QED BY <1>0, <2>1
<1>5. \A i \in 1..Len(patch.content) : Chars[i] = Character(i)
  BY <1>0 DEF Chars
<1>6. ASSUME NEW s \in AllSpans
      PROVE  /\ Chars[s.first] = s.new
             /\ \A i \in (s.first + 1)..(s.past - 1) : Chars[i] = <<>>
  <2>1. /\ s.first \in 1..Len(patch.content)
        /\ s.past \in (s.first + 1)..(Len(patch.content) + 1)
    BY AllSpansFit DEF Fits
  <2>2. s.first <= s.first /\ s.first < s.past
    BY <1>0, <2>1
  <2>3. Chars[s.first] = s.new
    BY <1>2, <1>5, <2>1, <2>2
  <2>4. ASSUME NEW i \in (s.first + 1)..(s.past - 1)
        PROVE  Chars[i] = <<>>
    <3>1. i \in 1..Len(patch.content) /\ s.first <= i /\ i < s.past /\ i # s.first
      BY <1>0, <2>1
    <3> QED BY <1>2, <1>5, <3>1
  <2> QED BY <2>3, <2>4
<1>7. ASSUME NEW i \in 1..Len(patch.content),
             \A s \in AllSpans : ~(s.first <= i /\ i < s.past)
      PROVE  Chars[i] = <<patch.content[i]>>
  BY <1>1, <1>5, <1>7
<1> QED BY <1>4, <1>6, <1>7

\* Up to p the result is still the content, and what follows is what shall stand
\* there; the spans still to be replaced are those before p.
Half(F, p, rest) ==
    /\ patch.result = Between(patch.content, 1, p, rest)
    /\ F[p - 1] \o rest = F[Len(patch.content)]
    /\ \A s \in AllSpans : IF s \in patch.spans THEN s.past <= p ELSE p <= s.first

\* Some spans are replaced, from the last one backwards, F being what stands in the
\* result for the first characters of the content.
Halfway(F) ==
    /\ Joined(Chars, F)
    /\ \E p \in 1..(Len(patch.content) + 1), rest \in Texts : Half(F, p, rest)
PartlyReplaced == \E F : Halfway(F) /\ AtOnce = F[Len(patch.content)]

\* Replacing the last span moves p before it.
LEMMA ReplacingLast ==
    ASSUME patch \in PatchCalls, Disjoint, patch.spans \subseteq AllSpans,
           NEW F, Joined(Chars, F),
           NEW p \in 1..(Len(patch.content) + 1), NEW rest \in Texts, Half(F, p, rest),
           NEW span \in patch.spans, \A s \in patch.spans : Before(s, span)
    PROVE  /\ span.first \in 1..(Len(patch.content) + 1)
           /\ \E more \in Texts :
                 /\ Replaced(patch.result, span)
                       = SubSeq(patch.content, 1, span.first - 1) \o more
                 /\ F[span.first - 1] \o more = F[Len(patch.content)]
           /\ \A s \in AllSpans :
                 IF s \in patch.spans \ {span} THEN s.past <= span.first
                 ELSE span.first <= s.first
<1> DEFINE c == patch.content
           f == span.first
           q == span.past
<1>0. c \in Texts /\ Len(c) \in Nat /\ p \in Int /\ p \in 1..(Len(c) + 1)
  BY TextsJoin DEF PatchCalls
<1>1. f \in 1..Len(c) /\ q \in (f + 1)..(Len(c) + 1) /\ span.new \in Texts /\ q <= p
  BY AllSpansFit DEF Fits, Half
<1>2. \A s \in AllSpans : Fits(s) /\ s \in Spans
  BY AllSpansFit
<1>3. ASSUME NEW s \in AllSpans
      PROVE  IF s \in patch.spans \ {span} THEN s.past <= f ELSE f <= s.first
  <2>1. /\ s.first \in Nat /\ s.past \in Nat /\ f \in Nat /\ q \in Nat /\ f < q
    BY <1>0, <1>1, <1>2 DEF Fits
  <2>2. CASE s \in patch.spans \ {span}
    <3>1. s.first <= f
      BY <1>2, <2>2, OrderIsTotal
    <3>2. ~Overlap(s, span)
      BY <2>2 DEF Disjoint
    <3>3. s.past <= f
      BY <2>1, <3>1, <3>2 DEF Overlap
    <3> QED BY <2>2, <3>3
  <2>3. CASE s = span
    BY <2>1, <2>3
  <2>4. CASE s \notin patch.spans
    <3>1. p <= s.first
      BY <2>4 DEF Half
    <3>2. f <= s.first
      BY <1>0, <1>1, <2>1, <3>1
    <3> QED BY <2>4, <3>2
  <2> QED BY <2>2, <2>3, <2>4
<1>4. ASSUME NEW i \in q..(p - 1)
      PROVE  Chars[i] = <<c[i]>>
  <2>1. i \in 1..Len(c) /\ q <= i /\ i < p /\ f < i
    BY <1>0, <1>1
  <2>2. ASSUME NEW s \in AllSpans
        PROVE  ~(s.first <= i /\ i < s.past)
    <3>1. s.first \in Nat /\ s.past \in Nat /\ s.first < s.past
      BY <1>0, <1>2 DEF Fits
    <3>2. CASE s = span
      BY <2>1, <3>1, <3>2
    <3>3. CASE s \in patch.spans \ {span}
      <4>1. s.past <= f
        BY <1>3, <3>3
      <4> QED BY <1>0, <1>1, <2>1, <3>1, <4>1
    <3>4. CASE s \notin patch.spans
      <4>1. p <= s.first
        BY <3>4 DEF Half
      <4> QED BY <1>0, <2>1, <3>1, <4>1
    <3> QED BY <3>2, <3>3, <3>4
  <2> QED BY <2>1, <2>2, CharsStand
<1>5. /\ Chars \in Seq(Texts) /\ Len(Chars) = Len(c)
      /\ Chars[f] = span.new /\ \A i \in (f + 1)..(q - 1) : Chars[i] = <<>>
  BY CharsStand
<1> HIDE DEF c, f, q
<1> DEFINE between == SubSeq(c, q, p - 1)
           more == span.new \o (between \o rest)
<1>6. F[p - 1] = F[q - 1] \o between
  <2>1. /\ q - 1 \in 0..Len(c) /\ p - 1 \in (q - 1)..Len(c) /\ (q - 1) + 1 = q
    BY <1>0, <1>1
  <2>2. \A i \in ((q - 1) + 1)..(p - 1) : Chars[i] = <<c[i]>>
    BY <1>4, <2>1
  <2>3. F[p - 1] = F[q - 1] \o SubSeq(c, (q - 1) + 1, p - 1)
    BY ONLY <1>0, <1>5, <2>1, <2>2, Joined(Chars, F), JoiningCopies
  <2> QED BY <2>1, <2>3
<1>7. F[q - 1] = F[f]
  <2>1. f \in 0..Len(Chars) /\ q - 1 \in f..Len(Chars)
    BY <1>0, <1>1, <1>5
  <2> QED BY <1>5, <2>1, JoiningSkips
<1>8. F[f] = F[f - 1] \o span.new /\ F[f - 1] \in Texts
  <2>1. f \in 1..Len(Chars) /\ f - 1 \in 0..Len(Chars)
    BY <1>0, <1>1, <1>5
  <2> QED BY <1>5, <2>1 DEF Joined
<1>9. between \in Texts
  <2>1. q \in 1..(Len(c) + 1) /\ p - 1 \in (q - 1)..Len(c)
    BY <1>0, <1>1
  <2> QED BY <1>0, <2>1, Slice
<1> HIDE DEF between
<1>10. between \o rest \in Texts /\ more \in Texts
  BY <1>1, <1>9, TextsJoin
<1>11. F[f - 1] \o more = F[Len(c)]
  <2>1. ((F[f - 1] \o span.new) \o between) \o rest = F[Len(c)]
    BY <1>6, <1>7, <1>8 DEF Half, c
  <2>2. ((F[f - 1] \o span.new) \o between) \o rest
           = (F[f - 1] \o span.new) \o (between \o rest)
    <3>1. F[f - 1] \o span.new \in Texts
      BY <1>1, <1>8, TextsJoin
    <3> QED BY <1>9, <3>1, TextsJoin
  <2>3. (F[f - 1] \o span.new) \o (between \o rest) = F[f - 1] \o more
    <3>1. F[f - 1] \in Texts /\ span.new \in Texts /\ between \o rest \in Texts
      BY <1>1, <1>8, <1>10
    <3> QED BY ONLY <3>1, TextsJoin
  <2> QED BY <2>1, <2>2, <2>3
<1>12. Replaced(patch.result, span) = SubSeq(c, 1, f - 1) \o more
  <2>1. f \in 1..p /\ q \in 1..p
    BY <1>0, <1>1
  <2>2. patch.result = Between(c, 1, p, rest)
    BY DEF Half, c
  <2>3. /\ Upto(patch.result, f - 1) = SubSeq(c, 1, f - 1)
        /\ SubSeq(patch.result, q, Len(patch.result)) = between \o rest
    <3>1. /\ Upto(Between(c, 1, p, rest), f - 1) = SubSeq(c, 1, f - 1)
          /\ SubSeq(Between(c, 1, p, rest), q, Len(Between(c, 1, p, rest)))
                = Between(c, q, p, rest)
      BY <1>0, <2>1, Slices
    <3> QED BY <2>2, <3>1 DEF between, Between
  <2>4. Replaced(patch.result, span) = (SubSeq(c, 1, f - 1) \o span.new) \o (between \o rest)
    BY <2>3 DEF Replaced, f, q
  <2>5. SubSeq(c, 1, f - 1) \in Texts
    <3>1. 1 \in 1..(Len(c) + 1) /\ f - 1 \in (1 - 1)..Len(c)
      BY <1>0, <1>1
    <3> QED BY <1>0, <3>1, Slice
  <2>6. span.new \in Texts /\ between \o rest \in Texts
    BY <1>1, <1>10
  <2>7. (SubSeq(c, 1, f - 1) \o span.new) \o (between \o rest)
           = SubSeq(c, 1, f - 1) \o (span.new \o (between \o rest))
    BY ONLY <2>5, <2>6, TextsJoin
  <2> QED BY <2>4, <2>7
<1>13. f \in 1..(Len(c) + 1)
  BY <1>0, <1>1
<1> QED BY <1>3, <1>10, <1>11, <1>12, <1>13 DEF c, f

\* The inductive invariant of a patch call: what each stage has established.
PatchCallInv ==
    /\ patch \in PatchCalls
    /\ patch.stage \in {"find", "overlap"} => patch.result = patch.content
    /\ patch.stage = "overlap" => patch.spans = AllSpans
    /\ patch.stage = "overlapping" => \E a, b \in AllSpans : a # b /\ Overlap(a, b)
    /\ patch.stage \in {"replace", "patched", "unchanged"} => Disjoint
    /\ patch.stage = "replace" => patch.spans \subseteq AllSpans /\ PartlyReplaced
    /\ patch.stage \in {"patched", "unchanged"} => patch.result = AtOnce

PatchInv == patch = [stage |-> "none"] \/ PatchCallInv

\* What is found depends on the content and the edits of the call only.
LEMMA SpansStay ==
    ASSUME patch'.content = patch.content, patch'.edits = patch.edits
    PROVE  AllSpans' = AllSpans /\ Chars' = Chars /\ AtOnce' = AtOnce /\ Disjoint' = Disjoint
<1>1. AllSpans' = AllSpans
  BY DEF AllSpans, SpansOf
<1>2. \A i \in DOMAIN patch.content : Character(i)' = Character(i)
  BY <1>1 DEF Character
<1>3. Chars' = Chars
  BY <1>2 DEF Chars
<1>4. AtOnce' = AtOnce
  BY <1>3 DEF AtOnce, Chars
<1>5. Disjoint' = Disjoint
  BY <1>1 DEF Disjoint, Overlap
<1> QED BY <1>1, <1>3, <1>4, <1>5

\* A call begins with no span found and the result as the content.
LEMMA PatchBegins ==
    ASSUME PatchInv, BeginPatch
    PROVE  PatchInv'
<1>1. PICK c \in Contents, n \in 1..MaxEdits : \E edits \in [1..n -> Edits] :
         patch' = [stage |-> "find", content |-> c, edits |-> edits,
                   spans |-> {}, result |-> c]
  BY DEF BeginPatch
<1>2. PICK edits \in [1..n -> Edits] :
         patch' = [stage |-> "find", content |-> c, edits |-> edits,
                   spans |-> {}, result |-> c]
  BY <1>1
<1>3. c \in Texts /\ edits \in Seq(Edits)
  <2>1. n \in Nat
    OBVIOUS
  <2> QED BY <2>1, TextsAreSequences DEF Texts
<1>4. patch' \in PatchCalls
  BY <1>2, <1>3 DEF PatchCalls, PatchStages
<1> QED BY <1>2, <1>4 DEF PatchInv, PatchCallInv

\* Every edit's spans are collected before any is compared.
LEMMA SpansAreFound ==
    ASSUME PatchInv, FindSpans
    PROVE  PatchInv'
<1>1. PatchCallInv /\ patch.stage = "find"
  BY DEF FindSpans, PatchInv
<1>2. \/ patch' = [patch EXCEPT !.stage = "overlap", !.spans = AllSpans]
      \/ patch' = [patch EXCEPT !.stage = "mismatch"]
  BY DEF FindSpans, AllSpans
<1>3. patch \in PatchCalls /\ AllSpans \in SUBSET Spans
  BY <1>1, AllSpansFit DEF PatchCallInv
<1>4. CASE patch' = [patch EXCEPT !.stage = "overlap", !.spans = AllSpans]
  <2>1. patch' \in PatchCalls
    BY <1>3, <1>4 DEF PatchCalls, PatchStages
  <2>2. /\ patch'.stage = "overlap" /\ patch'.spans = AllSpans
        /\ patch'.content = patch.content /\ patch'.edits = patch.edits
        /\ patch'.result = patch.result
    BY <1>3, <1>4 DEF PatchCalls
  <2>3. AllSpans' = AllSpans
    BY <2>2, SpansStay
  <2> QED BY <1>1, <2>1, <2>2, <2>3 DEF PatchInv, PatchCallInv
<1>5. CASE patch' = [patch EXCEPT !.stage = "mismatch"]
  <2>1. patch' \in PatchCalls /\ patch'.stage = "mismatch"
    BY <1>3, <1>5 DEF PatchCalls, PatchStages
  <2> QED BY <2>1 DEF PatchInv, PatchCallInv
<1> QED BY <1>2, <1>4, <1>5

\* Before the first span is replaced, the content stands up to its end.
LEMMA NothingReplaced ==
    ASSUME patch \in PatchCalls, Disjoint, patch.spans = AllSpans,
           patch.result = patch.content
    PROVE  PartlyReplaced
<1> DEFINE c == patch.content
           n == Len(c)
<1>1. Chars \in Seq(Texts) /\ Len(Chars) = n
  BY CharsStand
<1>2. PICK F : Joined(Chars, F) /\ FlattenSeq(Chars) = F[Len(Chars)]
  BY <1>1, FlattenJoins
<1>3. c \in Texts /\ n \in Nat /\ <<>> \in Texts
  BY TextsJoin DEF PatchCalls
<1>4. Half(F, n + 1, <<>>)
  <2>1. (n + 1) - 1 = n
    BY <1>3
  <2>2. Between(c, 1, n + 1, <<>>) = c
    <3>1. SubSeq(c, 1, n) = c
      BY <1>3, SubSeqFull DEF Texts
    <3>2. c \o <<>> = c
      BY <1>3, TextsJoin
    <3> QED BY <2>1, <3>1, <3>2 DEF Between
  <2>3. F[n] \o <<>> = F[n]
    <3>1. F[n] \in Texts
      BY <1>1, <1>2, <1>3 DEF Joined
    <3> QED BY <3>1, TextsJoin
  <2>4. \A s \in AllSpans : s.past <= n + 1
    BY <1>3, AllSpansFit DEF Fits
  <2> QED BY <2>1, <2>2, <2>3, <2>4 DEF Half
<1>5. n + 1 \in 1..(n + 1)
  BY <1>3
<1>6. Halfway(F)
  BY <1>2, <1>3, <1>4, <1>5 DEF Halfway
<1>7. AtOnce = F[n]
  BY <1>1, <1>2 DEF AtOnce, Chars
<1> QED BY <1>6, <1>7 DEF PartlyReplaced

\* Comparing neighbours in the order of the spans tells whether any two overlap.
LEMMA OverlapIsChecked ==
    ASSUME PatchInv, CheckOverlap
    PROVE  PatchInv'
<1>1. PatchCallInv /\ patch.stage = "overlap"
  BY DEF CheckOverlap, PatchInv
<1> DEFINE Clash == \E a, b \in patch.spans : Neighbours(a, b) /\ b.first < a.past
<1>2. Clash <=> \E a, b \in AllSpans : a # b /\ Overlap(a, b)
  <2>1. /\ patch.spans = AllSpans /\ AllSpans \in SUBSET Spans /\ TellApart(AllSpans)
        /\ \A s \in AllSpans : Fits(s)
    BY <1>1, AllSpansFit DEF PatchCallInv
  <2>2. \A s \in AllSpans : s.first < s.past
    <3> TAKE s \in AllSpans
    <3>1. Fits(s) /\ Len(patch.content) \in Nat
      BY <1>1, <2>1, TextsJoin DEF PatchCallInv, PatchCalls
    <3> QED BY <3>1 DEF Fits
  <2> QED BY <2>1, <2>2, NeighboursTell
<1>3. patch' = [patch EXCEPT !.stage = IF Clash THEN "overlapping" ELSE "replace"]
  BY DEF CheckOverlap
<1> HIDE DEF Clash
<1>4. /\ patch' \in PatchCalls
      /\ patch'.stage = IF Clash THEN "overlapping" ELSE "replace"
      /\ patch'.content = patch.content /\ patch'.edits = patch.edits
      /\ patch'.spans = patch.spans /\ patch'.result = patch.result
  BY <1>1, <1>3 DEF PatchCallInv, PatchCalls, PatchStages
<1>5. AllSpans' = AllSpans /\ Disjoint' = Disjoint
  BY <1>4, SpansStay
<1>6. CASE Clash
  <2>1. \E a, b \in AllSpans' : a # b /\ Overlap(a, b)'
    BY <1>2, <1>5, <1>6 DEF Overlap
  <2> QED BY <1>4, <1>6, <2>1 DEF PatchInv, PatchCallInv
<1>7. CASE ~Clash
  <2>1. Disjoint
    BY <1>2, <1>7 DEF Disjoint
  <2>2. patch.spans = AllSpans /\ patch.result = patch.content /\ patch \in PatchCalls
    BY <1>1 DEF PatchCallInv
  <2>3. PICK F : Halfway(F) /\ AtOnce = F[Len(patch.content)]
    BY <2>1, <2>2, NothingReplaced DEF PartlyReplaced
  <2>4. Chars' = Chars /\ AtOnce' = AtOnce
    BY <1>4, SpansStay
  <2>5. Halfway(F)'
    BY <1>4, <1>5, <2>3, <2>4 DEF Halfway, Half
  <2>6. PartlyReplaced'
    BY <1>4, <2>3, <2>4, <2>5 DEF PartlyReplaced
  <2>7. patch'.spans \subseteq AllSpans'
    BY <1>4, <1>5, <2>2
  <2> QED BY <1>4, <1>5, <1>7, <2>1, <2>6, <2>7 DEF PatchInv, PatchCallInv
<1> QED BY <1>6, <1>7

\* Replacing the last span leaves the places of the others right.
LEMMA LastIsReplaced ==
    ASSUME PatchInv, ReplaceLast
    PROVE  PatchInv'
<1>1. /\ PatchCallInv /\ patch.stage = "replace" /\ patch \in PatchCalls /\ Disjoint
      /\ patch.spans \subseteq AllSpans
  BY DEF ReplaceLast, PatchInv, PatchCallInv
<1>2. PICK span \in patch.spans :
        /\ \A s \in patch.spans : Before(s, span)
        /\ patch' = [patch EXCEPT !.spans = patch.spans \ {span},
                                  !.result = Replaced(patch.result, span)]
  BY DEF ReplaceLast
<1>3. PICK F : Halfway(F) /\ AtOnce = F[Len(patch.content)]
  BY <1>1 DEF PatchCallInv, PartlyReplaced
<1>4. PICK p \in 1..(Len(patch.content) + 1), rest \in Texts : Half(F, p, rest)
  BY <1>3 DEF Halfway
<1>5. Joined(Chars, F)
  BY <1>3 DEF Halfway
<1>6. /\ span.first \in 1..(Len(patch.content) + 1)
      /\ \A s \in AllSpans :
            IF s \in patch.spans \ {span} THEN s.past <= span.first
            ELSE span.first <= s.first
  BY <1>1, <1>2, <1>4, <1>5, ReplacingLast
<1>7. PICK more \in Texts :
         /\ Replaced(patch.result, span)
               = SubSeq(patch.content, 1, span.first - 1) \o more
         /\ F[span.first - 1] \o more = F[Len(patch.content)]
  BY <1>1, <1>2, <1>4, <1>5, ReplacingLast
<1>8. Replaced(patch.result, span) \in Texts
  <2>1. SubSeq(patch.content, 1, span.first - 1) \in Texts
    <3>1. patch.content \in Texts /\ Len(patch.content) \in Nat
      BY <1>1, TextsJoin DEF PatchCalls
    <3>2. 1 \in 1..(Len(patch.content) + 1)
      BY <3>1
    <3>3. span.first - 1 \in (1 - 1)..Len(patch.content)
      BY <1>6, <3>1
    <3> QED BY <3>1, <3>2, <3>3, Slice
  <2> QED BY <1>7, <2>1, TextsJoin
<1>9. /\ patch' \in PatchCalls /\ patch'.stage = "replace"
      /\ patch'.content = patch.content /\ patch'.edits = patch.edits
      /\ patch'.spans = patch.spans \ {span}
      /\ patch'.result = Replaced(patch.result, span)
  BY <1>1, <1>2, <1>8 DEF PatchCalls, PatchStages
<1>10. AllSpans' = AllSpans /\ Chars' = Chars /\ AtOnce' = AtOnce /\ Disjoint' = Disjoint
  BY <1>9, SpansStay
<1>11. Half(F, span.first, more)'
  BY <1>6, <1>7, <1>9, <1>10 DEF Half, Between
<1>12. Halfway(F)'
  BY <1>5, <1>6, <1>9, <1>10, <1>11 DEF Halfway
<1>13. PartlyReplaced'
  BY <1>3, <1>9, <1>10, <1>12 DEF PartlyReplaced
<1> QED BY <1>1, <1>9, <1>10, <1>13 DEF PatchInv, PatchCallInv

\* With no span left, the result is the content with all spans replaced at once.
LEMMA PatchEnds ==
    ASSUME PatchInv, EndPatch
    PROVE  PatchInv'
<1>1. /\ PatchCallInv /\ patch.stage = "replace" /\ patch \in PatchCalls /\ Disjoint
      /\ patch.spans = {}
  BY DEF EndPatch, PatchInv, PatchCallInv
<1> DEFINE c == patch.content
<1>2. PICK F : Halfway(F) /\ AtOnce = F[Len(c)]
  BY <1>1 DEF PatchCallInv, PartlyReplaced
<1>3. PICK p \in 1..(Len(c) + 1), rest \in Texts : Half(F, p, rest)
  BY <1>2 DEF Halfway
<1>4. c \in Texts /\ Len(c) \in Nat /\ p \in Int
  BY <1>1, TextsJoin DEF PatchCalls
<1>5. /\ Chars \in Seq(Texts) /\ Len(Chars) = Len(c) /\ Joined(Chars, F)
  BY <1>1, <1>2, CharsStand DEF Halfway
<1>6. ASSUME NEW i \in 1..(p - 1)
      PROVE  Chars[i] = <<c[i]>>
  <2>1. i \in 1..Len(c) /\ i < p
    BY <1>4
  <2>2. ASSUME NEW s \in AllSpans
        PROVE  ~(s.first <= i /\ i < s.past)
    <3>1. p <= s.first /\ s.first \in Nat
      BY <1>1, <1>3, AllSpansFit DEF Half, Fits
    <3> QED BY <1>4, <2>1, <3>1
  <2> QED BY <1>1, <2>1, <2>2, CharsStand
<1> HIDE DEF c
<1>7. F[p - 1] = SubSeq(c, 1, p - 1) /\ SubSeq(c, 1, p - 1) \in Texts
  <2>1. PICK a \in 0..Len(c) : a = 0 /\ a + 1 = 1 /\ p - 1 \in a..Len(c)
    BY <1>4
  <2>2. \A i \in (a + 1)..(p - 1) : Chars[i] = <<c[i]>>
    BY <1>6, <2>1
  <2>3. F[p - 1] = F[a] \o SubSeq(c, a + 1, p - 1)
    <3>1. a \in 0..Len(c) /\ p - 1 \in a..Len(c)
      BY <2>1
    <3> QED BY ONLY <1>4, <1>5, <2>2, <3>1, JoiningCopies
  <2>4. SubSeq(c, 1, p - 1) \in Texts
    <3>1. 1 \in 1..(Len(c) + 1) /\ p - 1 \in (1 - 1)..Len(c)
      BY <1>4
    <3> QED BY <1>4, <3>1, Slice
  <2>5. F[0] = <<>>
    BY <1>5 DEF Joined
  <2> QED BY <2>1, <2>3, <2>4, <2>5, TextsJoin
<1>8. patch.result = AtOnce
  BY <1>2, <1>3, <1>7 DEF Half, Between, c
<1>9. patch' = [patch EXCEPT !.stage =
                   IF patch.result = patch.content THEN "unchanged" ELSE "patched"]
  BY DEF EndPatch
<1>10. /\ patch' \in PatchCalls /\ patch'.stage \in {"unchanged", "patched"}
       /\ patch'.content = patch.content /\ patch'.edits = patch.edits
       /\ patch'.result = patch.result
  BY <1>1, <1>9 DEF PatchCalls, PatchStages
<1>11. AtOnce' = AtOnce /\ Disjoint' = Disjoint
  BY <1>10, SpansStay
<1> QED BY <1>1, <1>8, <1>10, <1>11 DEF PatchInv, PatchCallInv

\* apply_text_patch: comparing each span only with its neighbour misses no overlap of
\* any two, and replacing them from the last one backwards is replacing them all at
\* once; for any texts and any number of edits.
THEOREM PatchesAreExact == PatchSpec => [](NoOverlapIsMissed /\ PatchIsSimultaneous)
<1>1. PatchInit => PatchInv
  BY DEF PatchInit, PatchInv
<1>2. PatchInv /\ [PatchNext]_patchVars => PatchInv'
  <2> SUFFICES ASSUME PatchInv, [PatchNext]_patchVars
               PROVE  PatchInv'
    OBVIOUS
  <2>1. CASE BeginPatch
    BY <2>1, PatchBegins
  <2>2. CASE FindSpans
    BY <2>2, SpansAreFound
  <2>3. CASE CheckOverlap
    BY <2>3, OverlapIsChecked
  <2>4. CASE ReplaceLast
    BY <2>4, LastIsReplaced
  <2>5. CASE EndPatch
    BY <2>5, PatchEnds
  <2>6. CASE UNCHANGED patchVars
    <3>1. patch' = patch
      BY <2>6 DEF patchVars
    <3>2. CASE patch = [stage |-> "none"]
      BY <3>1, <3>2 DEF PatchInv
    <3>3. CASE PatchCallInv
      <4>1. /\ AllSpans' = AllSpans /\ Chars' = Chars /\ AtOnce' = AtOnce
            /\ Disjoint' = Disjoint
        BY <3>1, SpansStay
      <4>2. PartlyReplaced' = PartlyReplaced
        BY <3>1, <4>1 DEF PartlyReplaced, Halfway, Half
      <4> QED BY <3>1, <3>3, <4>1, <4>2 DEF PatchInv, PatchCallInv, Overlap
    <3> QED BY <3>2, <3>3 DEF PatchInv
  <2> QED BY <2>1, <2>2, <2>3, <2>4, <2>5, <2>6 DEF PatchNext
<1>3. PatchInv => NoOverlapIsMissed /\ PatchIsSimultaneous
  BY DEF PatchInv, PatchCallInv, NoOverlapIsMissed, PatchIsSimultaneous, Disjoint
<1> QED BY <1>1, <1>2, <1>3, PTL DEF PatchSpec

-----------------------------------------------------------------------------
(***************************************************************************)
(* Neighbourhoods: the queue is in the order of the hops, and what was met *)
(* waits in it or has had its keys walked.                                 *)
(***************************************************************************)
\* The tables a key joins to a table of R.
Near(R) == {t \in Tables : \E k \in relating.keys :
               \/ k[1] = t /\ k[2] \in R
               \/ k[2] = t /\ k[1] \in R}

\* The tables within n hops grow by those a key away.
LEMMA WithinGrows ==
    /\ Within \in [Nat -> SUBSET Tables] /\ Within[0] = {Root}
    /\ \A n \in Nat : Within[n + 1] = Within[n] \cup Near(Within[n])
<1> DEFINE S == SUBSET Tables
           step == [n \in Nat |-> [R \in S |-> R \cup Near(R)]]
           Body(g) == [n \in Nat |-> IF n = 0 THEN {Root} ELSE g[n - 1] \cup Near(g[n - 1])]
<1>1. {Root} \in S /\ \A R \in S : R \cup Near(R) \in S
  BY KeysJoinTables DEF Near
<1>2. step \in [Nat -> [S -> S]] /\ \A n \in Nat, R \in S : step[n][R] = R \cup Near(R)
  BY <1>1
<1> HIDE DEF S, step
<1>3. PICK f : Recurses(f, S, {Root}, step)
  BY <1>1, <1>2, Recursion
<1>4. /\ f \in [Nat -> S] /\ f[0] = {Root}
      /\ \A n \in Nat : f[n + 1] = f[n] \cup Near(f[n])
  <2>1. /\ f \in [Nat -> S] /\ f[0] = {Root}
        /\ \A n \in Nat : f[n + 1] = step[n + 1][f[n]]
    BY <1>3 DEF Recurses
  <2>2. ASSUME NEW n \in Nat
        PROVE  f[n + 1] = f[n] \cup Near(f[n])
    <3>1. n + 1 \in Nat /\ f[n] \in S
      BY <2>1
    <3> QED BY <1>2, <2>1, <3>1
  <2> QED BY <2>1, <2>2
<1>5. ASSUME NEW n \in Nat
      PROVE  f[n] = IF n = 0 THEN {Root} ELSE f[n - 1] \cup Near(f[n - 1])
  <2>1. CASE n = 0
    BY <1>4, <2>1
  <2>2. CASE n # 0
    <3>1. n - 1 \in Nat /\ (n - 1) + 1 = n
      BY <2>2
    <3>2. f[(n - 1) + 1] = f[n - 1] \cup Near(f[n - 1])
      BY <1>4, <3>1
    <3> QED BY <2>2, <3>1, <3>2
  <2> QED BY <2>1, <2>2
<1>6. f = Body(f)
  BY <1>4, <1>5
<1> DEFINE reach == CHOOSE g : g = Body(g)
<1>7. Within = reach
  BY DEF Within, Near
<1>8. reach = Body(reach)
  BY <1>6
<1> HIDE DEF reach
<1>9. reach[0] = {Root}
  BY <1>8
<1>10. ASSUME NEW n \in Nat
       PROVE  reach[n + 1] = reach[n] \cup Near(reach[n])
  <2>1. n + 1 \in Nat /\ n + 1 # 0 /\ (n + 1) - 1 = n
    OBVIOUS
  <2> QED BY <1>8, <2>1
<1> DEFINE Sets == {n \in Nat : reach[n] \in S}
<1>11. 0 \in Sets
  BY <1>1, <1>9
<1>12. \A n \in Nat : n \in Sets => n + 1 \in Sets
  BY <1>1, <1>10
<1>13. \A n \in Nat : reach[n] \in S
  <2> HIDE DEF Sets
  <2>1. Nat \subseteq Sets
    BY <1>11, <1>12, AllNumbers
  <2> QED BY <2>1 DEF Sets
<1>14. reach \in [Nat -> S]
  <2>1. DOMAIN reach = Nat /\ reach = [n \in Nat |-> reach[n]]
    BY <1>8
  <2> QED BY <1>13, <2>1
<1> QED BY <1>7, <1>9, <1>10, <1>14 DEF S

\* More hops reach no fewer tables.
LEMMA WithinIsMonotone ==
    ASSUME NEW n \in Nat, NEW m \in Nat, n <= m
    PROVE  Within[n] \subseteq Within[m]
<1> DEFINE Grown == {d \in Nat : Within[n] \subseteq Within[n + d]}
<1>1. 0 \in Grown
  OBVIOUS
<1>2. ASSUME NEW d \in Nat, d \in Grown
      PROVE  d + 1 \in Grown
  <2>1. n + d \in Nat /\ n + (d + 1) = (n + d) + 1
    OBVIOUS
  <2>2. Within[n + d] \subseteq Within[(n + d) + 1]
    BY <2>1, WithinGrows
  <2> QED BY <1>2, <2>1, <2>2
<1>3. Nat \subseteq Grown
  <2> HIDE DEF Grown
  <2> QED BY <1>1, <1>2, AllNumbers
<1>4. PICK d \in Nat : n + d = m
  <2>1. m - n \in Nat /\ n + (m - n) = m
    OBVIOUS
  <2> QED BY <2>1
<1> QED BY <1>3, <1>4

\* t is n hops from the root.
Away(t, n) == t \in Within[n] /\ (n = 0 \/ t \notin Within[n - 1])

\* A table within m hops is no more than m away; so it is one number of hops away.
LEMMA AwayIsLeast ==
    ASSUME NEW t, NEW n \in Nat, Away(t, n), NEW m \in Nat, t \in Within[m]
    PROVE  n <= m
<1> SUFFICES ASSUME m < n PROVE FALSE
  OBVIOUS
<1>1. n # 0 /\ n - 1 \in Nat /\ m <= n - 1
  OBVIOUS
<1>2. Within[m] \subseteq Within[n - 1]
  BY <1>1, WithinIsMonotone
<1> QED BY <1>1, <1>2 DEF Away

\* If a table is n + 1 hops away, another is n hops away.
LEMMA OneNearer ==
    ASSUME NEW n \in Nat, NEW t, Away(t, n + 1)
    PROVE  \E s : Away(s, n)
<1>1. t \in Within[n + 1] /\ t \notin Within[n]
  BY DEF Away
<1>2. t \in Near(Within[n])
  BY <1>1, WithinGrows
<1>3. PICK s \in Within[n] : \A R : s \in R => t \in Near(R)
  BY <1>2 DEF Near
<1>4. CASE n = 0
  BY <1>3, <1>4 DEF Away
<1>5. CASE n # 0
  <2>1. n - 1 \in Nat /\ (n - 1) + 1 = n
    BY <1>5
  <2>2. Within[n] = Within[n - 1] \cup Near(Within[n - 1])
    <3>1. Within[(n - 1) + 1] = Within[n - 1] \cup Near(Within[n - 1])
      BY <2>1, WithinGrows
    <3> QED BY <2>1, <3>1
  <2>3. s \notin Within[n - 1]
    BY <1>1, <1>3, <2>2
  <2> QED BY <1>3, <2>3 DEF Away
<1> QED BY <1>4, <1>5

\* No table is as many hops away as there are tables.
LEMMA AwayIsBounded ==
    ASSUME NEW t, NEW n \in Nat, Away(t, n)
    PROVE  n < Cardinality(Tables) /\ Cardinality(Tables) \in Nat
<1> DEFINE Nearer == {d \in Nat : d <= n => \E s : Away(s, n - d)}
<1>1. 0 \in Nearer
  OBVIOUS
<1>2. ASSUME NEW d \in Nat, d \in Nearer
      PROVE  d + 1 \in Nearer
  <2> SUFFICES ASSUME d + 1 <= n
               PROVE  \E s : Away(s, n - (d + 1))
    OBVIOUS
  <2>1. PICK s : Away(s, n - d)
    BY <1>2
  <2>2. n - (d + 1) \in Nat /\ n - d = (n - (d + 1)) + 1
    OBVIOUS
  <2> QED BY <2>1, <2>2, OneNearer
<1>3. Nat \subseteq Nearer
  <2> HIDE DEF Nearer
  <2> QED BY <1>1, <1>2, AllNumbers
<1>4. ASSUME NEW m \in 0..n
      PROVE  \E s : Away(s, m)
  <2>1. n - m \in Nat /\ n - m <= n /\ n - (n - m) = m
    OBVIOUS
  <2>2. n - m \in Nearer
    BY <1>3, <2>1
  <2> QED BY <2>1, <2>2
<1> DEFINE table == [m \in 0..n |-> CHOOSE s : Away(s, m)]
<1>5. \A m \in 0..n : Away(table[m], m)
  BY <1>4
<1> HIDE DEF table
<1>6. \A m \in 0..n : table[m] \in Tables
  BY <1>5, WithinGrows DEF Away
<1>7. table \in Injection(0..n, Tables)
  <2>1. table \in [0..n -> Tables]
    BY <1>6 DEF table
  <2>2. ASSUME NEW a \in 0..n, NEW b \in 0..n, table[a] = table[b]
        PROVE  a = b
    <3>1. a <= b /\ b <= a
      BY <1>5, <2>2, AwayIsLeast DEF Away
    <3> QED BY <3>1
  <2> QED BY <2>1, <2>2 DEF Injection, IsInjective
<1>8. Cardinality(0..n) <= Cardinality(Tables)
  BY <1>7, TablesAreFinite, FS_Injection
<1>9. Cardinality(0..n) = n + 1
  BY FS_Interval
<1>10. Cardinality(Tables) \in Nat
  BY TablesAreFinite, FS_CardinalityType
<1> QED BY <1>8, <1>9, <1>10

\* The distance of a table is the number of hops it is away.
LEMMA DistanceIs ==
    ASSUME NEW t, NEW n \in Nat, Away(t, n)
    PROVE  Distance(t) = n
<1>1. n \in 0..Cardinality(Tables)
  BY AwayIsBounded
<1>2. ASSUME NEW m \in 0..Cardinality(Tables), Away(t, m)
      PROVE  m = n
  <2>1. m \in Nat
    OBVIOUS
  <2>2. m <= n /\ n <= m
    BY <1>2, <2>1, AwayIsLeast DEF Away
  <2> QED BY <2>1, <2>2
<1>3. Distance(t) = CHOOSE m \in 0..Cardinality(Tables) : Away(t, m)
  BY DEF Distance, Away
<1> QED BY <1>1, <1>2, <1>3

\* The table before and the key to it, and what a search may be.
Ways == {None} \cup (Tables \X ForeignKeys)
HopMaps == UNION {[D -> Nat] : D \in SUBSET Tables}
WayMaps == UNION {[D -> Ways] : D \in SUBSET Tables}
Searches == [stage : {"search", "answered"}, keys : SUBSET ForeignKeys,
             to : Tables \cup {None}, depth : Nat \ {0}, queue : Seq(Tables),
             collected : SUBSET ForeignKeys,
             hops : HopMaps, previous : WayMaps]

\* The tables the search has met.
Reached == DOMAIN relating.hops

\* A search and its two maps, over the same tables.
SearchTyped ==
    /\ relating \in Searches /\ DOMAIN relating.previous = Reached /\ Root \in Reached

\* What was met is as far as it is said to be.
Exact == \A t \in Reached : Away(t, relating.hops[t])

\* The queue is in the order of the hops, and spans two of them at most.
QueueOrdered ==
    /\ \A i \in 1..Len(relating.queue) : relating.queue[i] \in Reached
    /\ \A i, j \in 1..Len(relating.queue) : i <= j =>
          /\ relating.hops[relating.queue[i]] <= relating.hops[relating.queue[j]]
          /\ relating.hops[relating.queue[j]] <= relating.hops[relating.queue[i]] + 1

\* What was met waits in the queue, or all its keys were walked.
Waits(t) == \E i \in 1..Len(relating.queue) : relating.queue[i] = t
Walked(t) == \A k \in KeysAt(t) : Across(k, t) \in Reached /\ k \in relating.collected
AllDone == \A t \in Reached : Waits(t) \/ AtDepth(t) \/ Walked(t)

\* A neighbourhood has no table past its depth, and the keys of those before it only.
NotTooDeep == relating.to = None => \A t \in Reached : relating.hops[t] <= relating.depth
CollectedMet ==
    \A k \in relating.collected :
        k \in relating.keys /\ \E t \in Reached : t \in {k[1], k[2]} /\ ~AtDepth(t)

\* previous leads from each table to one that is a hop nearer.
Leads(t, way) ==
    /\ way \in Tables \X ForeignKeys /\ way[1] \in Reached
    /\ relating.hops[t] = relating.hops[way[1]] + 1
    /\ way[2] \in KeysAt(way[1]) /\ Across(way[2], way[1]) = t
PreviousLeads ==
    /\ relating.previous[Root] = None
    /\ \A t \in Reached \ {Root} : Leads(t, relating.previous[t])

\* The inductive invariant of a search.
SearchInv ==
    /\ SearchTyped /\ Exact /\ QueueOrdered /\ AllDone /\ NotTooDeep
    /\ CollectedMet /\ PreviousLeads
    /\ relating.stage = "answered" => relating.queue = <<>> \/ Found

NeighbourhoodInv == relating = [stage |-> "none"] \/ SearchInv

\* What a typed search consists of.
LEMMA SearchTypes ==
    ASSUME SearchTyped
    PROVE  /\ relating.hops \in [Reached -> Nat] /\ Reached \subseteq Tables
           /\ relating.previous \in [Reached -> Ways]
           /\ relating.queue \in Seq(Tables) /\ Len(relating.queue) \in Nat
           /\ relating.keys \subseteq Tables \X Tables
           /\ relating.depth \in Nat \ {0}
<1>1. PICK D \in SUBSET Tables : relating.hops \in [D -> Nat]
  BY DEF SearchTyped, Searches, HopMaps
<1>2. relating.hops \in [Reached -> Nat] /\ Reached \subseteq Tables
  BY <1>1 DEF Reached
<1>3. PICK E \in SUBSET Tables : relating.previous \in [E -> Ways]
  BY DEF SearchTyped, Searches, WayMaps
<1>4. relating.previous \in [Reached -> Ways]
  BY <1>3 DEF SearchTyped
<1>5. relating.queue \in Seq(Tables) /\ relating.keys \subseteq Tables \X Tables
  BY KeysJoinTables DEF SearchTyped, Searches
<1>6. Len(relating.queue) \in Nat
  BY <1>5, LenProperties
<1>7. relating.depth \in Nat \ {0}
  BY DEF SearchTyped, Searches
<1> QED BY <1>2, <1>4, <1>5, <1>6, <1>7

\* The two ends of a key.
LEMMA KeysJoin ==
    ASSUME SearchTyped, NEW t \in Tables, NEW k \in KeysAt(t)
    PROVE  /\ Across(k, t) \in Tables /\ k \in relating.keys
           /\ {k[1], k[2]} = {t, Across(k, t)}
           /\ \A R : t \in R => Across(k, t) \in Near(R)
<1>1. k \in Tables \X Tables /\ k \in relating.keys
  BY SearchTypes DEF KeysAt
<1>2. k[1] \in Tables /\ k[2] \in Tables /\ (t = k[1] \/ t = k[2])
  BY <1>1 DEF KeysAt
<1>3. Across(k, t) = IF k[1] = t THEN k[2] ELSE k[1]
  BY DEF Across
<1> QED BY <1>1, <1>2, <1>3 DEF Near

\* A table near to others is across a key of one of them.
LEMMA NearHasKey ==
    ASSUME NEW R, NEW x \in Near(R)
    PROVE  \E s \in R, k \in relating.keys : k \in KeysAt(s) /\ Across(k, s) = x
<1>1. PICK k \in relating.keys :
         \/ k[1] = x /\ k[2] \in R
         \/ k[2] = x /\ k[1] \in R
  BY DEF Near
<1>2. CASE k[2] = x /\ k[1] \in R
  BY <1>2 DEF KeysAt, Across
<1>3. CASE k[1] = x /\ k[2] \in R
  <2>1. Across(k, k[2]) = x
    BY <1>3 DEF Across
  <2> QED BY <1>3, <2>1 DEF KeysAt
<1> QED BY <1>1, <1>2, <1>3

\* All tables no further away than the queue, and than the depth, were met.
LEMMA Covered ==
    ASSUME SearchTyped, Exact, AllDone, NotTooDeep,
           NEW m \in Nat, relating.to = None => m <= relating.depth,
           \A i \in 1..Len(relating.queue) : m <= relating.hops[relating.queue[i]]
    PROVE  Within[m] \subseteq Reached
<1> DEFINE Met == {n \in Nat : n <= m => Within[n] \subseteq Reached}
<1>1. 0 \in Met
  BY WithinGrows DEF SearchTyped
<1>2. ASSUME NEW n \in Nat, n \in Met
      PROVE  n + 1 \in Met
  <2> SUFFICES ASSUME n + 1 <= m, NEW x \in Within[n + 1]
               PROVE  x \in Reached
    OBVIOUS
  <2>1. Within[n] \subseteq Reached
    BY <1>2
  <2>2. x \in Within[n] \/ x \in Near(Within[n])
    BY WithinGrows
  <2>3. ASSUME x \in Near(Within[n])
        PROVE  x \in Reached
    <3>1. PICK s \in Within[n], k \in relating.keys : k \in KeysAt(s) /\ Across(k, s) = x
      BY <2>3, NearHasKey
    <3>2. s \in Reached /\ relating.hops[s] \in Nat /\ Away(s, relating.hops[s])
      BY <2>1, <3>1, SearchTypes DEF Exact
    <3>3. relating.hops[s] <= n
      BY <3>1, <3>2, AwayIsLeast
    <3>4. ~Waits(s)
      <4> SUFFICES ASSUME NEW i \in 1..Len(relating.queue), relating.queue[i] = s
                   PROVE  FALSE
        BY DEF Waits
      <4>1. m <= relating.hops[s]
        OBVIOUS
      <4> QED BY <3>2, <3>3, <4>1
    <3>5. ~AtDepth(s)
      <4> SUFFICES ASSUME relating.to = None, relating.hops[s] >= relating.depth
                   PROVE  FALSE
        BY DEF AtDepth
      <4>1. m <= relating.depth /\ relating.depth \in Nat
        BY SearchTypes
      <4> QED BY <3>2, <3>3, <4>1
    <3>6. Walked(s)
      BY <3>2, <3>4, <3>5 DEF AllDone
    <3> QED BY <3>1, <3>6 DEF Walked
  <2> QED BY <2>1, <2>2, <2>3
<1>3. Nat \subseteq Met
  <2> HIDE DEF Met
  <2> QED BY <1>1, <1>2, AllNumbers
<1>4. m \in Met /\ m <= m
  BY <1>3
<1> QED BY <1>4

\* When nothing waits, all tables within the depth were met.
LEMMA QueueEmpty ==
    ASSUME SearchTyped, Exact, AllDone, NotTooDeep, relating.queue = <<>>, NEW m \in Nat,
           relating.to = None => m <= relating.depth
    PROVE  Within[m] \subseteq Reached
<1>1. Len(relating.queue) = 0
  BY EmptySeq
<1>2. \A i \in 1..Len(relating.queue) : m <= relating.hops[relating.queue[i]]
  BY <1>1
<1> QED BY <1>2, Covered

\* The invariant makes the neighbourhood of an answer exact.
LEMMA NeighbourhoodHolds ==
    ASSUME SearchInv
    PROVE  NeighbourhoodIsExact
<1> SUFFICES ASSUME relating.stage = "answered", relating.to = None
             PROVE  /\ Reached = Within[relating.depth]
                    /\ \A t \in Reached : relating.hops[t] = Distance(t)
                    /\ relating.collected = {k \in relating.keys :
                          \E t \in Within[relating.depth - 1] : t \in {k[1], k[2]}}
  BY DEF NeighbourhoodIsExact, Reached
<1>1. /\ SearchTyped /\ Exact /\ AllDone /\ NotTooDeep /\ CollectedMet
      /\ relating.queue = <<>>
  BY DEF SearchInv, Found
<1>2. relating.depth \in Nat \ {0} /\ relating.hops \in [Reached -> Nat]
  BY <1>1, SearchTypes
<1>3. \A t \in Reached : relating.hops[t] \in Nat /\ Away(t, relating.hops[t])
  BY <1>1, <1>2 DEF Exact
<1>4. \A t \in Reached : relating.hops[t] = Distance(t)
  BY <1>3, DistanceIs
<1>5. \A n \in Nat, t \in Reached : relating.hops[t] <= n => t \in Within[n]
  <2> TAKE n \in Nat, t \in Reached
  <2> HAVE relating.hops[t] <= n
  <2>1. t \in Within[relating.hops[t]]
    BY <1>3 DEF Away
  <2> QED BY <1>3, <2>1, WithinIsMonotone
<1>6. Within[relating.depth] \subseteq Reached
  BY <1>1, <1>2, QueueEmpty
<1>7. Reached \subseteq Within[relating.depth]
  BY <1>1, <1>2, <1>5 DEF NotTooDeep
<1>8. relating.depth - 1 \in Nat /\ relating.depth - 1 <= relating.depth
  BY <1>2
<1>9. ASSUME NEW k \in relating.collected
      PROVE  k \in relating.keys /\ \E t \in Within[relating.depth - 1] : t \in {k[1], k[2]}
  <2>1. PICK t \in Reached : t \in {k[1], k[2]} /\ ~AtDepth(t)
    BY <1>1 DEF CollectedMet
  <2>2. relating.hops[t] <= relating.depth - 1
    BY <1>2, <1>3, <2>1 DEF AtDepth
  <2>3. t \in Within[relating.depth - 1]
    BY <1>5, <1>8, <2>2
  <2> QED BY <1>1, <2>1, <2>3 DEF CollectedMet
<1>10. ASSUME NEW k \in relating.keys, NEW t \in Within[relating.depth - 1],
              t \in {k[1], k[2]}
       PROVE  k \in relating.collected
  <2>1. t \in Reached
    BY <1>6, <1>8, <1>2, WithinIsMonotone
  <2>2. relating.hops[t] <= relating.depth - 1
    BY <1>3, <1>8, <2>1, AwayIsLeast
  <2>3. ~AtDepth(t)
    BY <1>2, <1>3, <2>1, <2>2 DEF AtDepth
  <2>4. ~Waits(t)
    <3>1. Len(relating.queue) = 0
      BY <1>1, EmptySeq
    <3> QED BY <3>1 DEF Waits
  <2>5. Walked(t)
    BY <1>1, <2>1, <2>3, <2>4 DEF AllDone
  <2>6. k \in KeysAt(t)
    BY <1>10 DEF KeysAt
  <2> QED BY <2>5, <2>6 DEF Walked
<1>11. relating.collected = {k \in relating.keys :
          \E t \in Within[relating.depth - 1] : t \in {k[1], k[2]}}
  BY <1>9, <1>10
<1> QED BY <1>4, <1>6, <1>7, <1>11

\* An order of some tables has each of them once.
LEMMA OrderHasAll ==
    ASSUME NEW S \in SUBSET Tables, NEW order \in SetToSeqs(S)
    PROVE  /\ order \in Seq(S) /\ Len(order) \in Nat
           /\ \A x \in S : \E i \in 1..Len(order) : order[i] = x
           /\ \A i \in 1..Len(order) : order[i] \in S
<1>1. IsFiniteSet(S) /\ Cardinality(S) \in Nat
  BY TablesAreFinite, FS_Subset, FS_CardinalityType
<1> DEFINE n == Cardinality(S)
<1>2. order \in [1..n -> S] /\ \A i, j \in 1..n : i # j => order[i] # order[j]
  BY DEF SetToSeqs
<1> HIDE DEF n
<1>3. n \in Nat
  BY <1>1 DEF n
<1>4. order \in Seq(S) /\ Len(order) = n
  BY <1>2, <1>3
<1>5. order \in Injection(1..n, S)
  BY <1>2 DEF Injection, IsInjective
<1>6. Cardinality(1..n) = Cardinality(S)
  BY <1>3, FS_Interval DEF n
<1>7. order \in Surjection(1..n, S)
  BY <1>1, <1>5, <1>6, FS_Injection
<1>8. \A x \in S : \E i \in 1..n : order[i] = x
  BY <1>7 DEF Surjection
<1> QED BY <1>2, <1>3, <1>4, <1>8

\* Within no hop there is the root.
LEMMA RootIsNearest == Within[0] = {Root}
BY WithinGrows

\* The hops depend on the keys of the call only.
LEMMA WithinStays ==
    ASSUME relating'.keys = relating.keys
    PROVE  Within' = Within
BY DEF Within

\* A call starts with the root in the queue, no hop away.
LEMMA AskingStarts ==
    ASSUME AskTable
    PROVE  SearchInv'
<1>1. PICK keys \in SUBSET ForeignKeys, to \in Tables \cup {None}, depth \in 1..MaxDepth :
        relating' = [stage |-> "search", keys |-> keys, to |-> to, depth |-> depth,
                     queue |-> <<Root>>, collected |-> {},
                     hops |-> [t \in {Root} |-> 0], previous |-> [t \in {Root} |-> None]]
  BY DEF AskTable
<1>2. Root \in Tables /\ depth \in Nat \ {0}
  BY KeysJoinTables, DepthIsBounded
<1>3. relating' \in Searches
  <2>1. {Root} \in SUBSET Tables /\ <<Root>> \in Seq(Tables)
    BY <1>2
  <2>2. /\ [t \in {Root} |-> 0] \in [{Root} -> Nat]
        /\ [t \in {Root} |-> None] \in [{Root} -> Ways]
    BY DEF Ways
  <2>3. [t \in {Root} |-> 0] \in HopMaps /\ [t \in {Root} |-> None] \in WayMaps
    BY <2>1, <2>2 DEF HopMaps, WayMaps
  <2> QED BY <1>1, <1>2, <2>1, <2>3 DEF Searches
<1>4. /\ Reached' = {Root} /\ DOMAIN relating'.previous = {Root}
      /\ relating'.queue = <<Root>> /\ relating'.collected = {}
      /\ relating'.hops[Root] = 0 /\ relating'.previous[Root] = None
      /\ relating'.stage = "search" /\ relating'.depth = depth
  BY <1>1 DEF Reached
<1>5. Len(relating'.queue) = 1 /\ relating'.queue[1] = Root
  BY <1>4
<1>6. SearchTyped'
  BY <1>3, <1>4 DEF SearchTyped
<1>7. Exact'
  <2>2. (Within[0] = {Root})'
    BY RootIsNearest, PTL
  <2> QED BY <1>4, <2>2 DEF Exact, Away
<1>8. QueueOrdered'
  <2>1. \A i \in 1..Len(relating'.queue) : relating'.queue[i] = Root
    BY <1>5
  <2>2. relating'.hops[Root] \in Nat
    BY <1>4
  <2> QED BY <1>4, <1>5, <2>1, <2>2 DEF QueueOrdered
<1>9. AllDone'
  <2>1. Waits(Root)'
    BY <1>5 DEF Waits
  <2> QED BY <1>4, <2>1 DEF AllDone
<1>10. NotTooDeep' /\ CollectedMet' /\ PreviousLeads'
  BY <1>2, <1>4 DEF NotTooDeep, CollectedMet, PreviousLeads
<1> QED BY <1>4, <1>6, <1>7, <1>8, <1>9, <1>10 DEF SearchInv

\* An answer is what the search ended with.
LEMMA SearchEndsIt ==
    ASSUME SearchInv, EndSearch
    PROVE  SearchInv'
<1>1. /\ SearchTyped /\ (relating.queue = <<>> \/ Found)
      /\ relating' = [relating EXCEPT !.stage = "answered"]
  BY DEF SearchInv, EndSearch
<1>2. /\ relating' \in Searches /\ relating'.keys = relating.keys /\ relating'.to = relating.to
      /\ relating'.depth = relating.depth /\ relating'.queue = relating.queue
      /\ relating'.collected = relating.collected /\ relating'.hops = relating.hops
      /\ relating'.previous = relating.previous
  BY <1>1 DEF SearchTyped, Searches
<1>3. Within' = Within
  BY <1>2, WithinStays
<1>4. SearchTyped' /\ (relating.queue = <<>> \/ Found)'
  BY <1>1, <1>2 DEF SearchTyped, Reached, Found, Seen
<1>5. Exact' /\ QueueOrdered' /\ NotTooDeep' /\ CollectedMet'
  BY <1>2, <1>3 DEF SearchInv, Exact, Away, QueueOrdered, NotTooDeep, CollectedMet, Reached,
                    AtDepth
<1>6. AllDone' /\ PreviousLeads'
  BY <1>2 DEF SearchInv, AllDone, Waits, AtDepth, Walked, KeysAt, Reached, PreviousLeads, Leads,
              Across
<1> QED BY <1>4, <1>5, <1>6 DEF SearchInv

\* The tables a key away from t that the search has not met.
Fresh(t) == {Across(k, t) : k \in KeysAt(t)} \ Reached

\* The head of the queue, and what is new from it.
LEMMA HeadOfQueue ==
    ASSUME SearchInv, relating.queue # <<>>, NEW t, t = Head(relating.queue)
    PROVE  /\ t \in Reached /\ t \in Tables /\ t = relating.queue[1]
           /\ relating.hops[t] \in Nat /\ Len(relating.queue) \in Nat \ {0}
           /\ Tail(relating.queue) \in Seq(Tables)
           /\ Len(Tail(relating.queue)) = Len(relating.queue) - 1
           /\ \A i \in 1..(Len(relating.queue) - 1) :
                 Tail(relating.queue)[i] = relating.queue[i + 1]
           /\ Fresh(t) \in SUBSET Tables /\ Root \notin Fresh(t)
           /\ \A x \in Fresh(t) : Away(x, relating.hops[t] + 1)
<1>0. SearchTyped /\ Exact /\ AllDone /\ NotTooDeep /\ QueueOrdered
  BY DEF SearchInv
<1>1. relating.queue \in Seq(Tables) /\ Len(relating.queue) \in Nat \ {0}
  BY <1>0, SearchTypes, EmptySeq
<1>2. t = relating.queue[1] /\ 1 \in 1..Len(relating.queue)
  BY <1>1
<1>3. t \in Reached /\ t \in Tables /\ relating.hops[t] \in Nat
  BY <1>0, <1>2, SearchTypes DEF QueueOrdered
<1>4. /\ Tail(relating.queue) \in Seq(Tables)
      /\ Len(Tail(relating.queue)) = Len(relating.queue) - 1
      /\ \A i \in 1..(Len(relating.queue) - 1) :
            Tail(relating.queue)[i] = relating.queue[i + 1]
  BY <1>1, HeadTailProperties
<1>5. Fresh(t) \in SUBSET Tables /\ Root \notin Fresh(t)
  BY <1>0, <1>3, KeysJoin DEF Fresh, SearchTyped
<1>6. Within[relating.hops[t]] \subseteq Reached
  <2>1. \A i \in 1..Len(relating.queue) :
           relating.hops[t] <= relating.hops[relating.queue[i]]
    <3> TAKE i \in 1..Len(relating.queue)
    <3>1. 1 <= i
      OBVIOUS
    <3> QED BY <1>0, <1>2, <3>1 DEF QueueOrdered
  <2>2. relating.to = None => relating.hops[t] <= relating.depth
    BY <1>0, <1>3 DEF NotTooDeep
  <2> QED BY <1>0, <1>3, <2>1, <2>2, Covered
<1>7. ASSUME NEW x \in Fresh(t)
      PROVE  Away(x, relating.hops[t] + 1)
  <2>1. PICK k \in KeysAt(t) : x = Across(k, t)
    BY DEF Fresh
  <2>2. t \in Within[relating.hops[t]]
    BY <1>0, <1>3 DEF Exact, Away
  <2>3. x \in Near(Within[relating.hops[t]])
    BY <1>0, <1>3, <2>1, <2>2, KeysJoin
  <2>4. x \in Within[relating.hops[t] + 1]
    BY <1>3, <2>3, WithinGrows
  <2>5. x \notin Within[relating.hops[t]]
    BY <1>6 DEF Fresh
  <2>6. (relating.hops[t] + 1) - 1 = relating.hops[t]
    BY <1>3
  <2> QED BY <2>4, <2>5, <2>6 DEF Away
<1> QED BY <1>1, <1>2, <1>3, <1>4, <1>5, <1>7

\* A table at the depth is taken off the queue and not walked on from.
LEMMA VisitStopsAtDepth ==
    ASSUME SearchInv, relating.queue # <<>>, AtDepth(Head(relating.queue)),
           relating.stage = "search",
           relating' = [relating EXCEPT !.queue = Tail(relating.queue)]
    PROVE  SearchInv'
<1> DEFINE q == relating.queue
           n == Len(q) - 1
<1>1. PICK t : t = Head(q)
  OBVIOUS
<1>2. /\ t = q[1] /\ Len(q) \in Nat \ {0} /\ Tail(q) \in Seq(Tables) /\ Len(Tail(q)) = n
      /\ \A i \in 1..n : Tail(q)[i] = q[i + 1]
  BY <1>1, HeadOfQueue
<1>3. /\ relating' \in Searches /\ relating'.keys = relating.keys /\ relating'.to = relating.to
      /\ relating'.depth = relating.depth /\ relating'.queue = Tail(q)
      /\ relating'.collected = relating.collected /\ relating'.hops = relating.hops
      /\ relating'.previous = relating.previous /\ relating'.stage = "search"
  BY <1>2 DEF SearchInv, SearchTyped, Searches
<1>k. relating'.keys = relating.keys
  BY <1>3
<1>4. Within' = Within
  BY <1>k, WithinStays
<1>5. SearchTyped' /\ Exact' /\ NotTooDeep' /\ CollectedMet'
  BY <1>3, <1>4 DEF SearchInv, SearchTyped, Exact, Away, NotTooDeep, CollectedMet, Reached,
                    AtDepth
<1>6. PreviousLeads'
  BY <1>3 DEF SearchInv, KeysAt, Reached, PreviousLeads, Leads, Across
<1>7. \A i \in 1..n : i + 1 \in 1..Len(q)
  BY <1>2
<1>8. QueueOrdered'
  <2>1. ASSUME NEW i \in 1..n
        PROVE  relating'.queue[i] = q[i + 1] /\ q[i + 1] \in Reached
    BY <1>2, <1>3, <1>7 DEF SearchInv, QueueOrdered
  <2>2. ASSUME NEW i \in 1..n, NEW j \in 1..n, i <= j
        PROVE  /\ relating.hops[q[i + 1]] <= relating.hops[q[j + 1]]
               /\ relating.hops[q[j + 1]] <= relating.hops[q[i + 1]] + 1
    <3>1. i + 1 \in 1..Len(q) /\ j + 1 \in 1..Len(q) /\ i + 1 <= j + 1
      BY <1>7, <2>2
    <3> QED BY <3>1 DEF SearchInv, QueueOrdered
  <2>3. Len(relating'.queue) = n /\ Reached' = Reached
    BY <1>2, <1>3 DEF Reached
  <2> HIDE DEF q, n
  <2> QED BY <1>3, <2>1, <2>2, <2>3 DEF QueueOrdered
<1>9. AllDone'
  <2> SUFFICES ASSUME NEW x \in Reached
               PROVE  (Waits(x) \/ AtDepth(x) \/ Walked(x))'
    BY <1>3 DEF AllDone, Reached
  <2>1. CASE AtDepth(x) \/ Walked(x)
    BY <1>3, <2>1 DEF AtDepth, Walked, KeysAt, Across, Reached
  <2>2. CASE Waits(x)
    <3>1. PICK i \in 1..Len(q) : q[i] = x
      BY <2>2 DEF Waits
    <3>2. CASE i = 1
      <4>1. x = Head(q)
        BY <1>1, <1>2, <3>1, <3>2
      <4> QED BY <1>3, <4>1 DEF AtDepth
    <3>3. CASE i # 1
      <4>1. i - 1 \in 1..n /\ (i - 1) + 1 = i
        BY <1>2, <3>3
      <4>2. relating'.queue[i - 1] = x /\ i - 1 \in 1..Len(relating'.queue)
        BY <1>2, <1>3, <3>1, <4>1
      <4> QED BY <4>2 DEF Waits
    <3> QED BY <3>2, <3>3
  <2> QED BY <2>1, <2>2 DEF SearchInv, AllDone
<1> QED BY <1>3, <1>5, <1>6, <1>8, <1>9 DEF SearchInv

\* What is one hop further comes after what is at most that.
LEMMA OneAfterAnother ==
    ASSUME NEW n \in Nat, NEW m \in Nat, NEW h \in Nat, NEW s, NEW d,
           \A i \in 1..n : d[s[i]] \in h..(h + 1),
           \A i \in (n + 1)..(n + m) : d[s[i]] = h + 1,
           \A i, j \in 1..n : i <= j => d[s[i]] <= d[s[j]]
    PROVE  \A i, j \in 1..(n + m) : i <= j =>
              d[s[i]] <= d[s[j]] /\ d[s[j]] <= d[s[i]] + 1
<1> SUFFICES ASSUME NEW i \in 1..(n + m), NEW j \in 1..(n + m), i <= j
             PROVE  d[s[i]] <= d[s[j]] /\ d[s[j]] <= d[s[i]] + 1
  OBVIOUS
<1>1. d[s[i]] \in h..(h + 1) /\ d[s[j]] \in h..(h + 1)
  <2>1. (i \in 1..n \/ i \in (n + 1)..(n + m)) /\ (j \in 1..n \/ j \in (n + 1)..(n + m))
    OBVIOUS
  <2>2. h + 1 \in h..(h + 1)
    OBVIOUS
  <2> QED BY <2>1, <2>2
<1>2. CASE j \in 1..n
  <2>1. i \in 1..n
    BY <1>2
  <2> QED BY <1>1, <1>2, <2>1
<1>3. CASE j \in (n + 1)..(n + m)
  BY <1>1, <1>3
<1>4. j \in 1..n \/ j \in (n + 1)..(n + m)
  OBVIOUS
<1> QED BY <1>2, <1>3, <1>4

\* A way to a table is kept with the hops on it.
LEMMA LeadsStay ==
    ASSUME relating'.keys = relating.keys, NEW x, NEW way, relating'.previous[x] = way,
           way \in Tables \X ForeignKeys, way[1] \in Reached',
           relating'.hops[x] = relating'.hops[way[1]] + 1,
           way[2] \in KeysAt(way[1]), Across(way[2], way[1]) = x
    PROVE  Leads(x, relating.previous[x])'
BY DEF Leads, KeysAt, Across

\* A search with new parts is a search.
LEMMA SearchGoesOn ==
    ASSUME NEW keys \in SUBSET ForeignKeys, NEW to \in Tables \cup {None},
           NEW depth \in Nat \ {0}, NEW queue \in Seq(Tables),
           NEW collected \in SUBSET ForeignKeys, NEW hops \in HopMaps, NEW previous \in WayMaps,
           relating' = [stage |-> "search", keys |-> keys, to |-> to, depth |-> depth,
                        queue |-> queue, collected |-> collected,
                        hops |-> hops, previous |-> previous]
    PROVE  /\ relating' \in Searches /\ relating'.keys = keys /\ relating'.to = to
           /\ relating'.depth = depth /\ relating'.queue = queue
           /\ relating'.collected = collected /\ relating'.hops = hops
           /\ relating'.previous = previous /\ relating'.stage = "search"
BY DEF Searches

\* Queueing what is new behind what waits keeps the queue in the order of the hops.
LEMMA VisitWalksOn ==
    ASSUME SearchInv, relating.queue # <<>>, relating.stage = "search",
           NEW t, t = Head(relating.queue), ~AtDepth(t),
           NEW order \in SetToSeqs(Fresh(t)),
           NEW by \in [Fresh(t) -> KeysAt(t)], \A x \in Fresh(t) : Across(by[x], t) = x,
           relating' = [relating EXCEPT
              !.queue = Tail(relating.queue) \o order,
              !.collected = relating.collected \cup KeysAt(t),
              !.hops = [x \in Fresh(t) \cup Reached |->
                  IF x \in Fresh(t) THEN relating.hops[t] + 1 ELSE relating.hops[x]],
              !.previous = [x \in Fresh(t) \cup Reached |->
                  IF x \in Fresh(t) THEN <<t, by[x]>> ELSE relating.previous[x]]]
    PROVE  SearchInv'
<1> DEFINE q == relating.queue
           n == Len(q) - 1
           h == relating.hops[t]
           m == Len(order)
           hops2 == [x \in Fresh(t) \cup Reached |->
                        IF x \in Fresh(t) THEN relating.hops[t] + 1 ELSE relating.hops[x]]
           previous2 == [x \in Fresh(t) \cup Reached |->
                        IF x \in Fresh(t) THEN <<t, by[x]>> ELSE relating.previous[x]]
<1>0. /\ SearchTyped /\ Exact /\ QueueOrdered /\ AllDone /\ NotTooDeep
      /\ CollectedMet /\ PreviousLeads
  BY DEF SearchInv
<1>1. /\ t = q[1] /\ t \in Reached /\ t \in Tables /\ Len(q) \in Nat \ {0} /\ h \in Nat
      /\ Tail(q) \in Seq(Tables) /\ Len(Tail(q)) = n /\ n \in Nat
      /\ \A i \in 1..n : Tail(q)[i] = q[i + 1]
  BY HeadOfQueue
<1>2. /\ Fresh(t) \in SUBSET Tables /\ Root \notin Fresh(t)
      /\ \A x \in Fresh(t) : Away(x, h + 1)
  BY HeadOfQueue
<1>3. /\ order \in Seq(Fresh(t)) /\ m \in Nat
      /\ \A x \in Fresh(t) : \E i \in 1..m : order[i] = x
      /\ \A i \in 1..m : order[i] \in Fresh(t)
  BY <1>2, OrderHasAll
<1>4. /\ Tail(q) \o order \in Seq(Tables) /\ Len(Tail(q) \o order) = n + m
      /\ \A i \in 1..n : (Tail(q) \o order)[i] = q[i + 1]
      /\ \A i \in (n + 1)..(n + m) : (Tail(q) \o order)[i] = order[i - n]
  <2>1. order \in Seq(Tables)
    BY <1>2, <1>3, SeqMonotonic
  <2>2. Tail(q) \o order \in Seq(Tables) /\ Len(Tail(q) \o order) = Len(Tail(q)) + Len(order)
    BY <1>1, <2>1, ConcatProperties
  <2>3. \A i \in 1..(Len(Tail(q)) + Len(order)) : (Tail(q) \o order)[i] =
           IF i <= Len(Tail(q)) THEN Tail(q)[i] ELSE order[i - Len(Tail(q))]
    BY <1>1, <2>1, ConcatProperties
  <2>4. \A i \in 1..n : i \in 1..(n + m) /\ i <= n
    BY <1>1, <1>3
  <2>5. \A i \in (n + 1)..(n + m) : i \in 1..(n + m) /\ ~(i <= n)
    BY <1>1, <1>3
  <2> QED BY <1>1, <2>2, <2>3, <2>4, <2>5
<1>5. /\ KeysAt(t) \subseteq ForeignKeys /\ KeysAt(t) \subseteq relating.keys
      /\ \A k \in KeysAt(t) : t \in {k[1], k[2]}
  BY <1>0 DEF SearchTyped, Searches, KeysAt
<1>6. hops2 \in [Fresh(t) \cup Reached -> Nat] /\ previous2 \in [Fresh(t) \cup Reached -> Ways]
  <2>1. relating.hops \in [Reached -> Nat] /\ relating.previous \in [Reached -> Ways]
    BY <1>0, SearchTypes
  <2>2. h + 1 \in Nat /\ \A x \in Fresh(t) : <<t, by[x]>> \in Ways
    BY <1>1, <1>5 DEF Ways
  <2> QED BY <2>1, <2>2
<1>7. /\ \A x \in Fresh(t) : hops2[x] = h + 1 /\ previous2[x] = <<t, by[x]>>
      /\ \A x \in Reached : hops2[x] = relating.hops[x] /\ previous2[x] = relating.previous[x]
  BY DEF Fresh
<1> HIDE DEF hops2, previous2, q, n, h, m
<1>8. Fresh(t) \cup Reached \in SUBSET Tables
  BY <1>0, <1>2, SearchTypes
<1>9. hops2 \in HopMaps /\ previous2 \in WayMaps
  BY <1>6, <1>8 DEF HopMaps, WayMaps
<1>10. relating' = [relating EXCEPT !.queue = Tail(q) \o order,
                       !.collected = relating.collected \cup KeysAt(t),
                       !.hops = hops2, !.previous = previous2]
  BY DEF hops2, previous2, q
<1>f. relating' = [stage |-> "search", keys |-> relating.keys, to |-> relating.to,
                   depth |-> relating.depth, queue |-> Tail(q) \o order,
                   collected |-> relating.collected \cup KeysAt(t),
                   hops |-> hops2, previous |-> previous2]
  BY <1>0, <1>10 DEF SearchTyped, Searches
<1>11. /\ relating' \in Searches /\ relating'.keys = relating.keys /\ relating'.to = relating.to
       /\ relating'.depth = relating.depth /\ relating'.queue = Tail(q) \o order
       /\ relating'.collected = relating.collected \cup KeysAt(t)
       /\ relating'.hops = hops2 /\ relating'.previous = previous2
       /\ relating'.stage = "search"
  <2>1. /\ relating.collected \cup KeysAt(t) \in SUBSET ForeignKeys
        /\ Tail(q) \o order \in Seq(Tables)
        /\ relating.keys \in SUBSET ForeignKeys /\ relating.to \in Tables \cup {None}
        /\ relating.depth \in Nat \ {0}
    BY <1>0, <1>4, <1>5 DEF SearchTyped, Searches
  <2> QED BY ONLY <1>9, <1>f, <2>1, SearchGoesOn
<1>k. relating'.keys = relating.keys
  BY <1>11
<1>12. Within' = Within
  BY <1>k, WithinStays
<1>n. n \in Nat /\ m \in Nat /\ h \in Nat
  BY <1>1, <1>3
<1>13. Reached' = Fresh(t) \cup Reached
  BY <1>6, <1>11 DEF Reached
<1>14. SearchTyped'
  BY <1>0, <1>6, <1>11, <1>13 DEF SearchTyped
<1>15. Exact'
  <2>1. \A x \in Fresh(t) : Away(x, hops2[x])
    BY <1>2, <1>7
  <2>2. \A x \in Reached : Away(x, hops2[x])
    BY <1>0, <1>7 DEF Exact
  <2>3. relating'.hops = hops2
    BY <1>11
  <2> QED BY <1>12, <1>13, <2>1, <2>2, <2>3 DEF Exact, Away
<1>16. relating.hops \in [Reached -> Nat] /\ relating.depth \in Nat
  BY <1>0, SearchTypes
<1>17. NotTooDeep'
  <2> SUFFICES ASSUME relating.to = None, NEW x \in Fresh(t) \cup Reached
               PROVE  hops2[x] <= relating.depth
    BY <1>11, <1>13 DEF NotTooDeep
  <2>1. h + 1 <= relating.depth
    BY <1>1, <1>16 DEF AtDepth, h
  <2> QED BY <1>0, <1>7, <2>1 DEF NotTooDeep
<1>18. \A x \in Reached : AtDepth(x)' <=> AtDepth(x)
  BY <1>7, <1>11 DEF AtDepth
<1>19. CollectedMet'
  <2> SUFFICES ASSUME NEW k \in relating.collected \cup KeysAt(t)
               PROVE  /\ k \in relating.keys
                      /\ \E x \in Reached : x \in {k[1], k[2]} /\ ~AtDepth(x)
    BY <1>11, <1>13, <1>18 DEF CollectedMet
  <2> QED BY <1>0, <1>1, <1>5 DEF CollectedMet
<1>20. PreviousLeads'
  <2>1. relating'.previous[Root] = None
    BY <1>0, <1>7, <1>11 DEF PreviousLeads, SearchTyped
  <2>2. ASSUME NEW x \in Fresh(t)
        PROVE  Leads(x, relating.previous[x])'
    <3>1. PICK way : way = <<t, by[x]>>
      OBVIOUS
    <3>2. /\ way \in Tables \X ForeignKeys /\ way[1] = t /\ way[2] \in KeysAt(t)
          /\ Across(way[2], t) = x
      BY <1>1, <1>5, <3>1
    <3>3. relating'.previous[x] = way /\ relating'.hops[x] = relating'.hops[t] + 1
      BY <1>1, <1>7, <1>11, <3>1 DEF h
    <3>4. t \in Reached'
      BY <1>1, <1>13
    <3> QED BY <1>k, <3>2, <3>3, <3>4, LeadsStay
  <2>3. ASSUME NEW x \in Reached \ {Root}
        PROVE  Leads(x, relating.previous[x])'
    <3>1. PICK way : way = relating.previous[x] /\ Leads(x, way)
      BY <1>0 DEF PreviousLeads
    <3>2. /\ way \in Tables \X ForeignKeys /\ way[1] \in Reached
          /\ relating.hops[x] = relating.hops[way[1]] + 1
          /\ way[2] \in KeysAt(way[1]) /\ Across(way[2], way[1]) = x
      BY <3>1 DEF Leads
    <3>3. relating'.previous[x] = way /\ relating'.hops[x] = relating'.hops[way[1]] + 1
      BY <1>7, <1>11, <3>1, <3>2
    <3>4. way[1] \in Reached'
      BY <1>13, <3>2
    <3> QED BY <1>k, <3>2, <3>3, <3>4, LeadsStay
  <2> QED BY <1>13, <2>1, <2>2, <2>3 DEF PreviousLeads
<1>21. AllDone'
  <2>1. ASSUME NEW x \in Fresh(t)
        PROVE  Waits(x)'
    <3>1. PICK i \in 1..m : order[i] = x
      BY <1>3
    <3>2. n + i \in (n + 1)..(n + m) /\ n + i \in 1..(n + m) /\ (n + i) - n = i
      BY <1>n
    <3>3. relating'.queue[n + i] = x /\ n + i \in 1..Len(relating'.queue)
      BY <1>4, <1>11, <3>1, <3>2
    <3> QED BY <3>3 DEF Waits
  <2>2. Walked(t)'
    <3>1. \A k \in KeysAt(t) : Across(k, t) \in Fresh(t) \cup Reached
      BY DEF Fresh
    <3>2. KeysAt(t)' = KeysAt(t)
      BY <1>11 DEF KeysAt
    <3> QED BY <1>11, <1>13, <3>1, <3>2 DEF Walked, Across
  <2>3. ASSUME NEW x \in Reached
        PROVE  (Waits(x) \/ AtDepth(x) \/ Walked(x))'
    <3>1. CASE AtDepth(x)
      BY <1>18, <3>1
    <3>2. CASE Walked(x)
      <4>1. KeysAt(x)' = KeysAt(x)
        BY <1>11 DEF KeysAt
      <4> QED BY <1>11, <1>13, <3>2, <4>1 DEF Walked, Across
    <3>3. CASE Waits(x)
      <4>1. PICK i \in 1..Len(q) : q[i] = x
        BY <3>3 DEF Waits, q
      <4>2. CASE i = 1
        BY <1>1, <2>2, <4>1, <4>2
      <4>3. CASE i # 1
        <5>1. i - 1 \in 1..n /\ (i - 1) + 1 = i /\ i - 1 \in 1..(n + m)
          BY <1>1, <1>3, <4>3 DEF n
        <5>2. relating'.queue[i - 1] = x /\ i - 1 \in 1..Len(relating'.queue)
          BY <1>4, <1>11, <4>1, <5>1
        <5> QED BY <5>2 DEF Waits
      <4> QED BY <4>2, <4>3
    <3> QED BY <1>0, <3>1, <3>2, <3>3 DEF AllDone
  <2> QED BY <1>13, <2>1, <2>3 DEF AllDone
<1>22. QueueOrdered'
  <2>1. /\ \A i \in 1..Len(q) : q[i] \in Reached
        /\ \A i, j \in 1..Len(q) : i <= j =>
              relating.hops[q[i]] <= relating.hops[q[j]]
              /\ relating.hops[q[j]] <= relating.hops[q[i]] + 1
    BY <1>0 DEF QueueOrdered, q
  <2> DEFINE s == relating'.queue
  <2>2. ASSUME NEW i \in 1..n
        PROVE  /\ s[i] = q[i + 1] /\ i + 1 \in 1..Len(q) /\ s[i] \in Reached
               /\ hops2[s[i]] = relating.hops[q[i + 1]] /\ hops2[s[i]] \in Nat
               /\ h <= hops2[s[i]] /\ hops2[s[i]] <= h + 1
    <3>1. i + 1 \in 1..Len(q) /\ 1 \in 1..Len(q) /\ 1 <= i + 1
      BY <1>1 DEF n
    <3>2. s[i] = q[i + 1] /\ q[i + 1] \in Reached
      BY <1>4, <1>11, <2>1, <3>1
    <3>3. h <= relating.hops[q[i + 1]] /\ relating.hops[q[i + 1]] <= h + 1
      BY <1>1, <2>1, <3>1 DEF h
    <3>4. hops2[s[i]] = relating.hops[q[i + 1]] /\ relating.hops[q[i + 1]] \in Nat
      BY <1>7, <1>16, <3>2
    <3> QED BY <3>1, <3>2, <3>3, <3>4
  <2>3. ASSUME NEW i \in (n + 1)..(n + m)
        PROVE  s[i] \in Fresh(t) /\ hops2[s[i]] = h + 1
    <3>1. i - n \in 1..m
      BY <1>n
    <3>2. s[i] = order[i - n]
      BY <1>4, <1>11
    <3>3. order[i - n] \in Fresh(t)
      BY <1>3, <3>1
    <3> QED BY <1>7, <3>2, <3>3
  <2>4. ASSUME NEW i \in 1..n, NEW j \in 1..n, i <= j
        PROVE  hops2[s[i]] <= hops2[s[j]]
    <3>1. i + 1 <= j + 1
      BY <2>4
    <3> QED BY <2>1, <2>2, <3>1
  <2>5. Len(s) = n + m /\ relating'.hops = hops2
    BY <1>4, <1>11
  <2> HIDE DEF s
  <2>6. \A i \in 1..(n + m) : s[i] \in Reached'
    <3>1. \A i \in 1..n : s[i] \in Reached'
      BY <1>13, <2>2
    <3>2. \A i \in (n + 1)..(n + m) : s[i] \in Reached'
      BY <1>13, <2>3
    <3> QED BY <1>n, <3>1, <3>2
  <2>7. \A i, j \in 1..(n + m) : i <= j =>
           hops2[s[i]] <= hops2[s[j]] /\ hops2[s[j]] <= hops2[s[i]] + 1
    <3>1. \A i \in 1..n : hops2[s[i]] \in h..(h + 1)
      BY <1>n, <2>2
    <3>2. \A i \in (n + 1)..(n + m) : hops2[s[i]] = h + 1
      BY <2>3
    <3>3. \A i, j \in 1..n : i <= j => hops2[s[i]] <= hops2[s[j]]
      BY <2>4
    <3> QED BY ONLY <1>n, <3>1, <3>2, <3>3, OneAfterAnother
  <2> QED BY <2>5, <2>6, <2>7 DEF QueueOrdered, s
<1> QED BY <1>11, <1>14, <1>15, <1>17, <1>19, <1>20, <1>21, <1>22 DEF SearchInv

\* One step back from each table, given the paths of the others.
Backward(g) ==
    [t \in DOMAIN relating.previous |->
        IF relating.previous[t] = None THEN <<t>>
        ELSE Append(g[relating.previous[t][1]], t)]

\* Of the tables met only the root has no way back, and it is the only one no hop away.
LEMMA RootHasNoWay ==
    ASSUME SearchInv
    PROVE  /\ relating.hops[Root] = 0 /\ relating.previous[Root] = None
           /\ \A t \in Reached : relating.hops[t] = 0 => t = Root
           /\ \A t \in Reached \ {Root} :
                 relating.previous[t] # None /\ Leads(t, relating.previous[t])
<1>1. /\ SearchTyped /\ Exact /\ PreviousLeads /\ Root \in Reached
      /\ relating.hops \in [Reached -> Nat]
  BY SearchTypes DEF SearchInv, SearchTyped
<1>2. relating.hops[Root] \in Nat /\ Away(Root, relating.hops[Root]) /\ Root \in Within[0]
  BY <1>1, WithinGrows DEF Exact
<1>3. relating.hops[Root] <= 0
  BY <1>2, AwayIsLeast
<1>4. ASSUME NEW t \in Reached, relating.hops[t] = 0
      PROVE  t = Root
  <2>1. t \in Within[0]
    BY <1>1, <1>4 DEF Exact, Away
  <2> QED BY <2>1, WithinGrows
<1>5. ASSUME NEW t \in Reached \ {Root}
      PROVE  relating.previous[t] # None /\ Leads(t, relating.previous[t])
  <2>1. Leads(t, relating.previous[t])
    BY <1>1 DEF PreviousLeads
  <2>2. relating.previous[t] \in Tables \X ForeignKeys
    BY <2>1 DEF Leads
  <2> QED BY <2>1, <2>2, NoneIsNoTable
<1> QED BY <1>1, <1>2, <1>3, <1>4, <1>5 DEF PreviousLeads

\* The way back from every table ends, so the path is defined.
LEMMA WaysEnd ==
    ASSUME SearchInv
    PROVE  \E g : g = Backward(g)
<1> DEFINE S == [Reached -> Seq(Tables)]
           step == [n \in Nat |-> [g \in S |-> Backward(g)]]
           start == [t \in Reached |-> <<>>]
           hops == relating.hops
           N == Cardinality(Tables)
<1>0. /\ SearchTyped /\ DOMAIN relating.previous = Reached /\ Reached \subseteq Tables
      /\ hops \in [Reached -> Nat]
  BY SearchTypes DEF SearchInv, SearchTyped
<1>1. ASSUME NEW t \in Reached \ {Root}
      PROVE  /\ relating.previous[t] # None /\ relating.previous[t][1] \in Reached
             /\ hops[t] = hops[relating.previous[t][1]] + 1
  BY RootHasNoWay DEF Leads
<1>2. ASSUME NEW g \in S
      PROVE  /\ Backward(g) \in S
             /\ Backward(g)[Root] = <<Root>>
             /\ \A t \in Reached \ {Root} :
                   Backward(g)[t] = Append(g[relating.previous[t][1]], t)
  <2>1. ASSUME NEW t \in Reached
        PROVE  (IF relating.previous[t] = None THEN <<t>>
                ELSE Append(g[relating.previous[t][1]], t)) \in Seq(Tables)
    <3>1. t \in Tables
      BY <1>0
    <3>2. CASE t = Root
      <4>1. <<t>> \in Seq(Tables)
        BY <3>1
      <4> QED BY <3>2, <4>1, RootHasNoWay
    <3>3. CASE t # Root
      <4>1. g[relating.previous[t][1]] \in Seq(Tables)
        BY <1>1, <3>3
      <4>2. Append(g[relating.previous[t][1]], t) \in Seq(Tables)
        BY <3>1, <4>1, AppendProperties
      <4> QED BY <1>1, <3>3, <4>2
    <3> QED BY <3>2, <3>3
  <2>2. Backward(g) \in S
    BY <1>0, <2>1 DEF Backward
  <2>3. Root \in Reached /\ relating.previous[Root] = None
    BY <1>0, RootHasNoWay DEF SearchTyped
  <2>4. Backward(g)[Root] = <<Root>>
    BY <1>0, <2>3 DEF Backward
  <2>5. \A t \in Reached \ {Root} : Backward(g)[t] = Append(g[relating.previous[t][1]], t)
    BY <1>0, <1>1 DEF Backward
  <2> QED BY <2>2, <2>4, <2>5
<1>3. start \in S
  <2>1. <<>> \in Seq(Tables)
    BY EmptySeq
  <2> QED BY <2>1
<1> HIDE DEF S
<1>4. step \in [Nat -> [S -> S]] /\ \A n \in Nat, g \in S : step[n][g] = Backward(g)
  BY <1>2
<1> HIDE DEF step, start
<1>5. PICK f : Recurses(f, S, start, step)
  BY <1>3, <1>4, Recursion
<1>6. /\ f \in [Nat -> S] /\ f[0] = start
      /\ \A n \in Nat : f[n + 1] = step[n + 1][f[n]]
  BY <1>5 DEF Recurses
<1>7. ASSUME NEW n \in Nat
      PROVE  f[n] \in S /\ f[n + 1] = Backward(f[n])
  <2>1. n + 1 \in Nat /\ f[n] \in S
    BY <1>6
  <2> QED BY <1>4, <1>6, <2>1
<1> HIDE DEF hops
<1> DEFINE Agree(n) == \A t \in Reached : hops[t] < n => f[n + 1][t] = f[n][t]
           Agreed == {n \in Nat : Agree(n)}
<1>8. 0 \in Agreed
  <2>1. \A t \in Reached : ~(hops[t] < 0)
    BY <1>0
  <2> QED BY <2>1
<1>9. ASSUME NEW n \in Nat, n \in Agreed
      PROVE  n + 1 \in Agreed
  <2> SUFFICES ASSUME NEW t \in Reached, hops[t] < n + 1
               PROVE  f[(n + 1) + 1][t] = f[n + 1][t]
    OBVIOUS
  <2>0. n + 1 \in Nat
    OBVIOUS
  <2>1. /\ f[(n + 1) + 1] = Backward(f[n + 1]) /\ f[n + 1] = Backward(f[n])
        /\ f[n + 1] \in S /\ f[n] \in S
    BY <1>7, <2>0
  <2>2. CASE t = Root
    BY <1>2, <2>1, <2>2
  <2>3. CASE t # Root
    <3> DEFINE s == relating.previous[t][1]
    <3>1. s \in Reached /\ hops[t] = hops[s] + 1 /\ hops[s] \in Nat
      BY <1>0, <1>1, <2>3
    <3>2. hops[s] < n
      BY <3>1
    <3>3. Agree(n)
      BY <1>9
    <3>4. f[n + 1][s] = f[n][s]
      BY <3>1, <3>2, <3>3
    <3>5. f[(n + 1) + 1][t] = Append(f[n + 1][s], t) /\ f[n + 1][t] = Append(f[n][s], t)
      BY <1>2, <2>1, <2>3
    <3> QED BY <3>4, <3>5
  <2> QED BY <2>2, <2>3
<1>10. Nat \subseteq Agreed
  <2> HIDE DEF Agreed
  <2> QED BY <1>8, <1>9, AllNumbers
<1>11. N \in Nat
  BY TablesAreFinite, FS_CardinalityType
<1>12. ASSUME NEW t \in Reached
       PROVE  f[N + 1][t] = f[N][t]
  <2>1. hops[t] < N
    BY <1>0, AwayIsBounded DEF SearchInv, Exact, hops
  <2>2. Agree(N)
    BY <1>10, <1>11
  <2> QED BY <2>1, <2>2
<1>13. f[N + 1] \in S /\ f[N] \in S /\ f[N + 1] = Backward(f[N])
  <2>1. N + 1 \in Nat
    BY <1>11
  <2> QED BY <1>7, <1>11, <2>1
<1>14. f[N + 1] = f[N]
  BY <1>12, <1>13 DEF S
<1> QED BY <1>13, <1>14

\* The path to a table: as long as its hops, from the root, each table by its way.
Leading(p, t) ==
    /\ p \in Seq(Reached) /\ Len(p) = relating.hops[t] + 1 /\ p[1] = Root /\ p[Len(p)] = t
    /\ \A i \in 2..Len(p) :
          p[i] \in Reached \ {Root} /\ relating.previous[p[i]][1] = p[i - 1]

\* Following previous from any table met leads to the root, through as many tables
\* as there are hops.
LEMMA PathsLead ==
    ASSUME SearchInv, NEW g, g = Backward(g), NEW t \in Reached
    PROVE  Leading(g[t], t)
<1>0. /\ SearchTyped /\ DOMAIN relating.previous = Reached
      /\ relating.hops \in [Reached -> Nat] /\ Root \in Reached
  BY SearchTypes DEF SearchInv, SearchTyped
<1>1. g[Root] = <<Root>>
  BY <1>0, RootHasNoWay DEF Backward
<1>2. ASSUME NEW x \in Reached \ {Root}
      PROVE  /\ relating.previous[x][1] \in Reached
             /\ relating.hops[x] = relating.hops[relating.previous[x][1]] + 1
             /\ g[x] = Append(g[relating.previous[x][1]], x)
  <2>1. relating.previous[x] # None /\ Leads(x, relating.previous[x])
    BY RootHasNoWay
  <2> QED BY <1>0, <2>1 DEF Backward, Leads
<1> DEFINE Good(n) == \A x \in Reached : relating.hops[x] = n => Leading(g[x], x)
           All == {n \in Nat : Good(n)}
<1>3. 0 \in All
  <2> SUFFICES ASSUME NEW x \in Reached, relating.hops[x] = 0
               PROVE  Leading(g[x], x)
    OBVIOUS
  <2>1. x = Root /\ g[x] = <<Root>>
    BY <1>1, RootHasNoWay
  <2>2. <<Root>> \in Seq(Reached) /\ Len(<<Root>>) = 1 /\ <<Root>>[1] = Root
    BY <1>0
  <2> QED BY <2>1, <2>2 DEF Leading
<1>4. ASSUME NEW n \in Nat, n \in All
      PROVE  n + 1 \in All
  <2> SUFFICES ASSUME NEW x \in Reached, relating.hops[x] = n + 1
               PROVE  Leading(g[x], x)
    OBVIOUS
  <2>1. x # Root
    BY RootHasNoWay
  <2>2. PICK s \in Reached : /\ s = relating.previous[x][1] /\ relating.hops[x] = relating.hops[s] + 1
                             /\ g[x] = Append(g[s], x)
    BY <1>2, <2>1
  <2>3. relating.hops[s] = n
    BY <1>0, <2>2
  <2>4. Leading(g[s], s)
    BY <1>4, <2>3
  <2>5. PICK p \in Seq(Reached) : p = g[s] /\ Len(p) = n + 1 /\ p[1] = Root /\ p[Len(p)] = s
    BY <2>3, <2>4 DEF Leading
  <2>6. /\ Append(p, x) \in Seq(Reached) /\ Len(Append(p, x)) = (n + 1) + 1
        /\ \A i \in 1..(n + 1) : Append(p, x)[i] = p[i]
        /\ Append(p, x)[(n + 1) + 1] = x
    BY <2>5, AppendProperties
  <2>7. ASSUME NEW i \in 2..((n + 1) + 1)
        PROVE  /\ Append(p, x)[i] \in Reached \ {Root}
               /\ relating.previous[Append(p, x)[i]][1] = Append(p, x)[i - 1]
    <3>1. i - 1 \in 1..(n + 1)
      OBVIOUS
    <3>2. CASE i = (n + 1) + 1
      <4>1. Append(p, x)[i] = x /\ i - 1 = n + 1
        BY <2>6, <3>2
      <4>2. Append(p, x)[i - 1] = p[n + 1]
        BY <2>6, <3>1, <4>1
      <4> QED BY <2>1, <2>2, <2>5, <4>1, <4>2
    <3>3. CASE i # (n + 1) + 1
      <4>1. i \in 2..Len(p) /\ i \in 1..(n + 1)
        BY <2>5, <3>3
      <4>2. p[i] \in Reached \ {Root} /\ relating.previous[p[i]][1] = p[i - 1]
        BY <2>4, <2>5, <4>1 DEF Leading
      <4>3. Append(p, x)[i] = p[i] /\ Append(p, x)[i - 1] = p[i - 1]
        BY <2>6, <3>1, <4>1
      <4> QED BY <4>2, <4>3
    <3> QED BY <3>2, <3>3
  <2>8. Append(p, x)[1] = Root
    <3>1. 1 \in 1..(n + 1)
      OBVIOUS
    <3> QED BY <2>5, <2>6, <3>1
  <2>9. PICK r \in Seq(Reached) : r = Append(p, x) /\ r = g[x]
    BY <2>2, <2>5, <2>6
  <2> QED BY <2>6, <2>7, <2>8, <2>9 DEF Leading
<1>5. Nat \subseteq All
  <2> HIDE DEF All
  <2> QED BY <1>3, <1>4, AllNumbers
<1>6. Good(relating.hops[t])
  BY <1>0, <1>5
<1> QED BY <1>6

\* The invariant makes the path of an answer a shortest one.
LEMMA PathHolds ==
    ASSUME SearchInv
    PROVE  PathIsShortest
<1> SUFFICES ASSUME relating.stage = "answered", relating.to # None
             PROVE  /\ Found <=> relating.to \in Within[Cardinality(Tables)]
                    /\ Found =>
                        /\ Len(Path) = Distance(relating.to) + 1 /\ Path[1] = Root
                        /\ \A i \in 2..Len(Path) :
                            LET step == relating.previous[Path[i]]
                            IN  step[1] = Path[i - 1] /\ step[2] \in relating.keys
                                /\ {step[2][1], step[2][2]} = {Path[i - 1], Path[i]}
  BY DEF PathIsShortest
<1>0. /\ SearchTyped /\ Exact /\ AllDone /\ NotTooDeep /\ (relating.queue = <<>> \/ Found)
      /\ relating.hops \in [Reached -> Nat] /\ Reached \subseteq Tables
  BY SearchTypes DEF SearchInv
<1>n. Cardinality(Tables) \in Nat
  BY TablesAreFinite, FS_CardinalityType
<1>1. ASSUME Found
      PROVE  /\ relating.to \in Reached
             /\ Away(relating.to, relating.hops[relating.to])
             /\ relating.hops[relating.to] \in Nat
             /\ Distance(relating.to) = relating.hops[relating.to]
             /\ relating.to \in Within[Cardinality(Tables)]
  <2>1. relating.to \in Reached
    BY <1>1 DEF Found, Seen, Reached
  <2>2. Away(relating.to, relating.hops[relating.to]) /\ relating.hops[relating.to] \in Nat
    BY <1>0, <2>1 DEF Exact
  <2>3. /\ relating.hops[relating.to] < Cardinality(Tables)
        /\ Distance(relating.to) = relating.hops[relating.to]
    BY <2>2, AwayIsBounded, DistanceIs
  <2>4. Within[relating.hops[relating.to]] \subseteq Within[Cardinality(Tables)]
    BY <1>n, <2>2, <2>3, WithinIsMonotone
  <2> QED BY <2>1, <2>2, <2>3, <2>4 DEF Away
<1>2. ASSUME relating.to \in Within[Cardinality(Tables)]
      PROVE  Found
  <2> SUFFICES ASSUME ~Found PROVE FALSE
    OBVIOUS
  <2>1. Within[Cardinality(Tables)] \subseteq Reached
    BY <1>0, <1>n, QueueEmpty
  <2> QED BY <1>2, <2>1 DEF Found, Seen, Reached
<1>3. ASSUME Found
      PROVE  /\ Len(Path) = Distance(relating.to) + 1 /\ Path[1] = Root
             /\ \A i \in 2..Len(Path) :
                 LET step == relating.previous[Path[i]]
                 IN  step[1] = Path[i - 1] /\ step[2] \in relating.keys
                     /\ {step[2][1], step[2][2]} = {Path[i - 1], Path[i]}
  <2> DEFINE back == CHOOSE g : g = Backward(g)
  <2>1. Path = back[relating.to]
    BY DEF Path, Backward
  <2>2. back = Backward(back)
    BY WaysEnd
  <2> HIDE DEF back
  <2>3. Leading(Path, relating.to)
    BY <1>1, <1>3, <2>1, <2>2, PathsLead
  <2>4. Len(Path) = Distance(relating.to) + 1 /\ Path[1] = Root
    BY <1>1, <1>3, <2>3 DEF Leading
  <2>5. ASSUME NEW i \in 2..Len(Path)
        PROVE  /\ relating.previous[Path[i]][1] = Path[i - 1]
               /\ relating.previous[Path[i]][2] \in relating.keys
               /\ {relating.previous[Path[i]][2][1], relating.previous[Path[i]][2][2]}
                     = {Path[i - 1], Path[i]}
    <3>1. PICK x \in Reached \ {Root} : x = Path[i] /\ relating.previous[x][1] = Path[i - 1]
      BY <2>3 DEF Leading
    <3>2. PICK way : way = relating.previous[x] /\ Leads(x, way)
      BY <3>1, RootHasNoWay
    <3>3. way[1] \in Tables /\ way[2] \in KeysAt(way[1]) /\ Across(way[2], way[1]) = x
      BY <1>0, <3>2 DEF Leads
    <3>4. way[2] \in relating.keys /\ {way[2][1], way[2][2]} = {way[1], x}
      BY <1>0, <3>3, KeysJoin
    <3> QED BY <3>1, <3>2, <3>4
  <2> QED BY <2>4, <2>5
<1> QED BY <1>1, <1>2, <1>3

\* table_relations: a neighbourhood has the tables within the depth, each at its
\* distance, and exactly the keys of the nearer ones, and a path is a shortest one,
\* found if there is one; for any finite set of tables, any keys and any depth.
THEOREM NeighbourhoodsAreExact ==
    NeighbourhoodSpec => [](NeighbourhoodIsExact /\ PathIsShortest)
<1>1. NeighbourhoodInit => NeighbourhoodInv
  BY DEF NeighbourhoodInit, NeighbourhoodInv
<1>2. NeighbourhoodInv /\ [NeighbourhoodNext]_relatingVars => NeighbourhoodInv'
  <2> SUFFICES ASSUME NeighbourhoodInv, [NeighbourhoodNext]_relatingVars
               PROVE  NeighbourhoodInv'
    OBVIOUS
  <2>1. CASE AskTable
    BY <2>1, AskingStarts DEF NeighbourhoodInv
  <2>2. CASE VisitTable
    <3> DEFINE t == Head(relating.queue)
    <3>0. relating.stage = "search" /\ relating.queue # <<>>
      BY <2>2, Zenon DEF VisitTable
    <3>1. SearchInv /\ relating.stage = "search" /\ relating.queue # <<>>
      BY <3>0 DEF NeighbourhoodInv
    <3>2. CASE AtDepth(t)
      <4>1. relating' = [relating EXCEPT !.queue = Tail(relating.queue)]
        BY <2>2, <3>2 DEF VisitTable
      <4> QED BY <3>1, <3>2, <4>1, VisitStopsAtDepth DEF NeighbourhoodInv
    <3>3. CASE ~AtDepth(t)
      <4>1. PICK order \in SetToSeqs(Fresh(t)),
                 by \in {f \in [Fresh(t) -> KeysAt(t)] : \A n \in Fresh(t) : Across(f[n], t) = n} :
               relating' = [relating EXCEPT
                  !.queue = Tail(relating.queue) \o order,
                  !.collected = relating.collected \cup KeysAt(t),
                  !.hops = [x \in Fresh(t) \cup Reached |->
                      IF x \in Fresh(t) THEN relating.hops[t] + 1 ELSE relating.hops[x]],
                  !.previous = [x \in Fresh(t) \cup Reached |->
                      IF x \in Fresh(t) THEN <<t, by[x]>> ELSE relating.previous[x]]]
        <5>1. DOMAIN relating.previous = DOMAIN relating.hops
          BY <3>1 DEF SearchInv, SearchTyped, Reached
        <5> QED BY <2>2, <3>3, <5>1 DEF VisitTable, Queued, Fresh, Reached
      <4>2. by \in [Fresh(t) -> KeysAt(t)] /\ \A x \in Fresh(t) : Across(by[x], t) = x
        OBVIOUS
      <4>3. SearchInv'
        BY <3>1, <3>3, <4>1, <4>2, VisitWalksOn
      <4> QED BY <4>3 DEF NeighbourhoodInv
    <3> QED BY <3>2, <3>3
  <2>3. CASE EndSearch
    <3>1. SearchInv
      BY <2>3 DEF EndSearch, NeighbourhoodInv
    <3> QED BY <2>3, <3>1, SearchEndsIt DEF NeighbourhoodInv
  <2>4. CASE UNCHANGED relatingVars
    <3>1. relating' = relating
      BY <2>4 DEF relatingVars
    <3>2. CASE relating = [stage |-> "none"]
      BY <3>1, <3>2 DEF NeighbourhoodInv
    <3>3. CASE SearchInv
      <4>1. Within' = Within
        BY <3>1, WithinStays
      <4>2. SearchTyped' /\ Exact' /\ QueueOrdered' /\ NotTooDeep' /\ CollectedMet'
        BY <3>1, <3>3, <4>1 DEF SearchInv, SearchTyped, Exact, Away, QueueOrdered, NotTooDeep,
                                CollectedMet, Reached, AtDepth
      <4>3. AllDone' /\ PreviousLeads'
        BY <3>1, <3>3 DEF SearchInv, AllDone, Waits, AtDepth, Walked, KeysAt, Reached,
                          PreviousLeads, Leads, Across
      <4> QED BY <3>1, <3>3, <4>2, <4>3 DEF NeighbourhoodInv, SearchInv, Found, Seen
    <3> QED BY <3>2, <3>3 DEF NeighbourhoodInv
  <2> QED BY <2>1, <2>2, <2>3, <2>4 DEF NeighbourhoodNext
<1>3. NeighbourhoodInv => NeighbourhoodIsExact /\ PathIsShortest
  <2>1. SearchInv => NeighbourhoodIsExact /\ PathIsShortest
    BY NeighbourhoodHolds, PathHolds
  <2>2. relating = [stage |-> "none"] => NeighbourhoodIsExact /\ PathIsShortest
    BY DEF NeighbourhoodIsExact, PathIsShortest
  <2> QED BY <2>1, <2>2 DEF NeighbourhoodInv
<1> QED BY <1>1, <1>2, <1>3, PTL DEF NeighbourhoodSpec

-----------------------------------------------------------------------------
\* Both algorithms compute what their definitions say, whatever they are called with.
THEOREM AlgorithmsAreExact == PatchSpec /\ NeighbourhoodSpec => []AlgorithmsExact
BY PatchesAreExact, NeighbourhoodsAreExact, PTL DEF AlgorithmsExact
=============================================================================
