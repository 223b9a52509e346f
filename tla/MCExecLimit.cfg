SPECIFICATION Spec
CONSTANTS
  Path <- MCPath
  Root = "/"
  Dir <- MCDir
  Chain <- MCChain
  Programs <- MCPrograms
  Hosts <- MCHosts
  Forged <- MCForged
  Limit <- MCLimit
  MaxWritten <- MCMaxWritten
  MaxChanges = 2
INVARIANTS
  OutputIsBounded
