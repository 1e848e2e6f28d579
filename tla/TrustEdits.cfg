CONSTANTS
  None = None
  Pages = {1}
  Workers = {w1, w2}
  Owners = {o}
  MaxTime = 1
  MaxRevision = 2
  MaxVersion = 3
SPECIFICATION FairSpec
 
PROPERTIES  RequestsEnd
