CONSTANTS
  p1 = p1  p2 = p2  p3 = p3  p4 = p4
  n1 = n1  n2 = n2  n3 = n3
  t1 = t1  t2 = t2
  s1 = s1  s2 = s2
  None = None
  PageIds = {1}
  Paths = {p1}
  UrlOf <- MCUrlOf
  Navs = {n1}
  BadNavs = {}
  NavClash <- MCNavClash
  Bodies = {t1}
  LinkSets = {{}}
  Orders = {s1}
  Changes = {c1, c2}
  Workers = {w1, w2}
  MaxOps = 1
  OpTypes = {"REPLACE_DOCUMENT"}
  ClientIds = FALSE
  StartCorpora <- StartOne
SPECIFICATION FairSpec
PROPERTIES RequestsEnd
