CONSTANTS
  None = None
  Absent = None
  Handlers = {h1, h2}
  Domains = {model, observe}
  Answers <- MCAnswers
  MaxInitiatives = 1
  MaxInitiativeVersion = 4
  MaxBegun = 4
  PageLimit = 1
  MaxCaptures = 3
  Kinds = {DRIFTED}
  Briefings = {b1, b2}
  InvocationKeys = {k1, k2, k3}
  MaxChanges = 2
  Fingerprints = {f1, f2}
  MaxObservations = 2
  MaxObservedAt = 2
  Structures = {1, 2}
  MaxSourceChanges = 3
  MaxDrawn = 3
  RuleKeys = {1, 2}
  Services = {1, 2}
  RuleSets <- MCRuleSets
  RetirementBound = 1
  MaxRuleSetChanges = 3
  Gaps = {g1, g2}
  GapPages = {p1, p2}
  BatchLimit = 1
  MaxRuleVersions = 3
  Subjects = {i1}
  ReviewStatuses = {"RESOLVED"}
  OpenStates = {"ACTIVE", "BLOCKED"}
  HistoryPage = 1
  MaxActivities = 3
  MaxStateChanges = 1
  ItemIds = {"i1", "i2"}
  Updates <- MCUpdates
  UpdateKeys = {k1, k2}
  MaxHistory = 3
  MaxWorkVersion = 3
SPECIFICATION Spec
SYMMETRY Symmetry
INVARIANTS
  WorkIsAnswered CapturesSafe ObservationsSafe 
PROPERTIES
  ConditionsSafe GeneratorsSafe  DiscrepanciesSafe BriefsSafe
CHECK_DEADLOCK FALSE
