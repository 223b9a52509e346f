SPECIFICATION Spec
CONSTANTS
  File <- MCFile
  Locations <- MCLocations
  Pattern <- MCPattern
  Tilde <- MCTilde
  Malformed <- MCMalformed
  WildDir <- MCWildDir
  Keyword <- MCKeyword
  Arg <- MCArg
  Word <- MCWord
  Lower <- MCLower
  NotANumber = NotANumber
  Atoi <- MCAtoi
  WeakCiphers <- MCWeakCiphers
  WeakMACs <- MCWeakMACs
  WeakKex = {}
  Algorithms <- MCAlgorithms
  Criteria <- MCCriteriaOrEmpty
  Global = ""
  Contents <- EmptyMatchContents
  Disks <- PlainDisks
  MaxFiles = 4
  MaxDepth = 2
  MaxDirectives = 3
  MaxChurn = 0
INVARIANT MatchBlocksAreLabelled
