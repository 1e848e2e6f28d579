CONSTANTS
  p1 = p1  p2 = p2  p3 = p3  p4 = p4
  n1 = n1  n2 = n2  n3 = n3
  t1 = t1  t2 = t2
  s1 = s1  s2 = s2
  None = None
  PageIds = {1, 2}
  Paths = {p1, p2, p3}
  UrlOf <- MCUrlOf
  Navs = {n1, n2}
  BadNavs = {}
  NavClash <- MCNavClash
  Bodies = {t1, t2}
  LinkSets = {{}, {p1}}
  Orders = {s1, s2}
  Changes = {c1}
  Workers = {w1}
  MaxOps = 2
  OpTypes = {"CREATE_PAGE", "REPLACE_DOCUMENT", "PATCH_TEXT", "MOVE_PAGE", "REPARENT_NAV", "ARCHIVE_PAGE", "RESTORE_PAGE", "ADD_REDIRECT", "REMOVE_REDIRECT", "REORDER_SECTIONS"}
  ClientIds = FALSE
  StartCorpora <- StartArchived
SPECIFICATION Spec
INVARIANTS CorpusSound HistoryComplete
