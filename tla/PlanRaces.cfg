CONSTANTS
  None = None
  Pages = {p1}
  Routes = {r1}
  Plans = {d1}
  Handlers = {w1, w2}
  MaxRevision = 3
  MaxOps = 2
  MaxChanges = 2
  MaxPublished = 2
SPECIFICATION Spec
SYMMETRY Symmetry
INVARIANTS OneChangePerPlan PublishedPlanIsApplied
PROPERTIES PublishedAsEvaluated
