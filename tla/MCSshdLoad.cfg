SPECIFICATION Spec
CONSTANTS
  File <- MCFile
  Locations <- MCLocations
  Pattern <- MCPattern
  Tilde <- MCTilde
  Malformed <- MCMalformed
  WildDir <- MCWildDir
  Keyword <- MCKeyword
  Arg <- MCArg
  Word <- MCWord
  Lower <- MCLower
  NotANumber = NotANumber
  Atoi <- MCAtoi
  WeakCiphers <- MCWeakCiphers
  WeakMACs <- MCWeakMACs
  WeakKex = {}
  Algorithms <- MCAlgorithms
  Criteria <- MCCriteria
  Global = ""
  Contents <- AllContents
  Disks <- MCDisks
  MaxFiles = 4
  MaxDepth = 2
  MaxDirectives = 3
  MaxChurn = 1
INVARIANTS
  TypeOK
  LimitsHold
  MatchScope
  DirectivesAreFaithful
  NothingIsLost
  CompleteWhereProbed
  PassIsSafe
  FailIsFounded
  PassHoldsForFiles
PROPERTIES
  GlobalOnlyOutsideMatch
  KeepsPromise
  Terminates
