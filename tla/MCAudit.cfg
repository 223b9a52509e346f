SPECIFICATION Spec
CONSTANTS
  Rule <- MCRule
  Catalog <- MCCatalog
  DefaultSeverity <- MCDefaultSeverity
  Platforms <- MCPlatforms
  SectionOf <- MCSectionOf
  Requests <- MCRequests
  Unknown = "FILE-002"
  Documents <- MCDocuments
  Statuses <- MCStatuses
  Verdict <- MCVerdict
  Chunks = 2
INVARIANTS
  TypeOK
  ExitCodeIsHonest
  ReportIsWhole
  NoGapPasses
  ConfigIsObeyed
  ScoreIsHonest
PROPERTIES
  InterruptIsHonoured
  Terminates
