SPECIFICATION Spec
CONSTANTS
  Family <- MCFamily
  Table <- MCTable
  Name <- MCName
  MapName <- MCMapName
  Documents <- MCDocuments
  MaxExprDepth = 2
INVARIANTS
  TypeOK
  SearchIsBounded
  FilteringIsReal
  NoFilteringMissed
PROPERTY Terminates
