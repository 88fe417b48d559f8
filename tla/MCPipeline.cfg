SPECIFICATION Spec
CONSTANTS
  Parts = {"ocr", "documents", "rules", "reports"}
  None = None
  Rows = 4
  Margin = 1
  Strips = 2
  Overlap = 1
  Confs = {40, 90}
  MaxAttempts = 2
  Letters = 3
  ChunkSize = 4
  Leftover = 3
  MaxBytes = 9
  MaxFile = 10
  Radius = 2
  TitleLength = 3
  TermMin = 2
  TermMax = 2
  Summaries = {5, 7}
  Pages <- MCPages
  Configs <- MCConfigs
  Inputs <- MCInputs
  Tokens <- MCTokens
  Patterns <- MCPatterns
  CategoryTerms <- MCCategoryTerms
  Tenders <- MCTenders
  Evidence <- MCEvidence
  Requirements <- MCRequirements
  Library <- MCLibrary
  Wanted <- MCWanted
  Evaluations <- MCEvaluations
INVARIANT AcceptedIsInert
INVARIANT SourcesKept
INVARIANT FindingsStand
INVARIANT ReviewStands
INVARIANT ExportsStand
PROPERTY ReadSafely
CHECK_DEADLOCK FALSE
