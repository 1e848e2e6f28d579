CONSTANTS
  None = None
  Handlers = {h1, h2}
  Sources = {s1, s2}
  IssueKeys = {k1}
  BurstLimit = 1
  BurstWindow = 1
  SourceLimit = 1
  GlobalLimit = 1
  HourWindow = 2
  TokenTTL = 1
  MaxClock = 2
  MaxPrincipals = 2
  MaxTokens = 3
  Automata = {m1, m2}
  Person = Person
  TargetPages = {p1}
  ArtifactKeys = {k1}
  DeclareKeys = {q1}
  Contracts <- MCContracts
  MaxArtifacts = 2
  MaxArtifactVersion = 2
  EntityIds = {e1}
  CheckPages = {p1}
  Corrections = {c1}
  CorrectionPage <- MCCorrectionPage
  Agents = {m1, m2}
  BriefingLimit = 1
  MaxEntityVersion = 3
  MaxRequests = 2
  MaxManual = 1
  Keys = {k1, k2}
  Locked = {k1}
  Payloads = {m1, m2}
  PageSize = 1
  MaxSeq = 3
  Projected = {a1, a2}
  Documents = {m1, m2}
  MaxPuts = 3
  Runners = {r1, r2, r3}
  Checksums = {1, 2, 3, 4}
  Images <- MCImages
  MaxMigrations = 3
  CaptureAttempts = 2
  Characters = {"a", "b"}
  Contents <- MCContents
  Edits <- MCEdits
  MaxEdits = 2
  Tables = {1, 2, 3, 4, 5}
  Root = 1
  ForeignKeys <- MCForeignKeys
  MaxDepth = 3
  CallKeys = {k1}
  Texts = {m1}
  PagePaths = {p1, p2}
  MaxPageRevision = 3
SPECIFICATION Spec
SYMMETRY Symmetry
INVARIANTS
  AccessSafe  EntitiesSafe ReceiptsSafe MigrationsSafe SourceSafe
  AlgorithmsExact ShortcutsSafe
PROPERTIES PerformedOnce StructureSafe
CHECK_DEADLOCK FALSE
