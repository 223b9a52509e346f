SPECIFICATION Spec
CONSTANTS
  Name <- MCName
  NoName = ""
  Id <- MCId
  NotANumber = NotANumber
  Shell <- MCShell
  NonInteractive <- MCNonInteractive
  Root = "root"
  Exempt <- MCExempt
  Hosts <- MCHosts
  MaxChanges = 2
INVARIANTS
  TypeOK
  WeaknessIsReported
  FailIsFounded
