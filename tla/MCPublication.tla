--------------------------- MODULE MCPublication ---------------------------
(* Instances of Publication for TLC. *)
EXTENDS PublicationRefinement

CONSTANTS p1, p2, p3, p4,   \* paths
          n1, n2, n3,       \* navigation paths
          t1, t2,           \* bodies
          s1, s2            \* section orders

\* every path renders to a URL of its own
MCUrlOf == [p \in Paths |-> p]
\* b.md (p2) and b/index.md (p3): two paths, one URL
TwinUrlOf == [p \in Paths |-> IF p = p3 THEN p2 ELSE p]

\* a navigation path holds one page
MCNavClash == {<<n, n>> : n \in Navs}

PageRow(path, nav, links, status) ==
    [path |-> path, nav |-> nav, body |-> t1, links |-> links,
     revision |-> 1, status |-> status]

OnePage(i, page) == [j \in PageIds |-> IF j = i THEN page ELSE AbsentPage]

NoRedirects == [p \in Paths |-> None]

\* a database right after its migrations
StartEmpty == {[pages |-> [i \in PageIds |-> AbsentPage],
                redirects |-> NoRedirects, sections |-> s1]}

\* page 1 active at p1; nothing else
StartOne == {[pages |-> OnePage(1, PageRow(p1, n1, {}, "active")),
              redirects |-> NoRedirects, sections |-> s1]}

\* page 1 active at p1, page 2 archived at p2
StartArchived ==
    {[pages |-> [i \in PageIds |->
        CASE i = 1 -> PageRow(p1, n1, {}, "active")
          [] i = 2 -> PageRow(p2, n2, {}, "archived")
          [] OTHER -> AbsentPage],
      redirects |-> NoRedirects, sections |-> s1]}

\* pages 1 and 2 active at p1 and p2, page 2 linking to page 1
StartLinked ==
    {[pages |-> [i \in PageIds |->
        CASE i = 1 -> PageRow(p1, n1, {}, "active")
          [] i = 2 -> PageRow(p2, n2, {p1}, "active")
          [] OTHER -> AbsentPage],
      redirects |-> NoRedirects, sections |-> s1]}
=============================================================================
