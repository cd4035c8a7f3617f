\* The parts of the server that share no state.
SPECIFICATION Spec
CONSTANTS
  Clients = {p1, p2}
  ToolNames = {"apply_migration_plan", "execute_transaction", "explain_query", "no such tool"}
  Malformed = {"no such tool"}
  MaxTools = 2
  Buckets = 2
  MaxCalls = 3
  NoCall = NoCall
  Columns = {"a", "b"}
  TableOf <- McTableOf
  MaxIndexWidth = 2
  Sessions = {s1, s2}
  CostTables <- McCostTables
  SizeOf <- advSize
  TableSize = 10
  Budgets <- McBudgets
  Workloads <- McWorkloads
  ExistingIndexes <- McExisting
  LongTexts = {{}}
  Elsewhere <- McElsewhere
  Alternatives <- McAlternatives
  MaxNoProgress = 1
  MaxAlternatives = 1
  NoIndex = NoIndex
  Relations <- McRelations
  Key = "id"
  Counter = "v"
  FirstTables <- McTables
  Filters <- McFilters
  Orders <- McOrders
  Requests <- McRequests
  Limits = {1, 2}
  Guards <- McGuards
  Batches <- McBatches
  Assignments <- McAssignments
  MaxResult = 5
  BytesOf <- dataBytes
  MaxCursor = 2
  CursorSize <- dataSize
  InexactTypes = {"float4"}
  Compared <- dataCompared
  Counters = {c1, c2}
  MaxPages = 4
  MaxWrites = 2
  Null = Null
  Nothing = Nothing
  Nodes <- McNodes
  Grants <- McGrants
  RowLimits = {1, 2}
  Warning = 1
  Critical = 2
  None = None
  MaxChanges = 1
  Statements <- McStatements
  Drafts <- McDrafts
  Names <- McPlanNames
  BadNames = {"bad name"}
  MaxSteps = 2
  MaxLength = 8
  MaxTotal = 20
  Targets <- McTargets
  Options <- McOptions
  IndexNames = {1, 2, 3}
  KeyLists <- McKeyLists
  Computed = {"f(b)"}
  Methods = {"btree", "hash", "gist"}
  Nobody = Nobody
SYMMETRY Permuted
INVARIANTS
  ActiveIsInFlight LabelsAreBoundedAndKept HistogramIsCumulative OutcomesAreWhatHappened
  CostsAreOfTheirConfiguration RecommendationsPayWithinBudget
  PagesAreExact NoUpdateIsLost
  AssessmentIsHonest
  ScannedTextsAgree StoredMigrationsAreAsReviewed
  StoredMaintenanceIsReviewed DuplicatesAreDroppable
CHECK_DEADLOCK FALSE
