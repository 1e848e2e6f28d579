CONSTANTS
  p1 = p1  p2 = p2  p3 = p3  p4 = p4
  n1 = n1  n2 = n2  n3 = n3
  t1 = t1  t2 = t2
  s1 = s1  s2 = s2
  None = None
  PageIds = {1, 2}
  Paths = {p1, p2, p3}
  UrlOf <- MCUrlOf
  Navs = {n1, n2}
  BadNavs = {}
  NavClash <- MCNavClash
  Bodies = {t1}
  LinkSets = {{}}
  Orders = {s1}
  Changes = {c1}
  Workers = {w1}
  MaxOps = 3
  OpTypes = {"MOVE_PAGE", "ARCHIVE_PAGE", "RESTORE_PAGE", "ADD_REDIRECT", "REMOVE_REDIRECT"}
  ClientIds = FALSE
  StartCorpora <- StartLinked
SPECIFICATION Spec
INVARIANTS CommittedCorpusBuilds
 
