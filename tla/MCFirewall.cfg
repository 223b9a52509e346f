SPECIFICATION Spec
CONSTANTS
  Pid <- MCPid
  Machines <- MCMachines
  Kernels <- MCKernels
  Tables <- MCTables
  MaxProcesses = 2
  MaxChanges = 2
INVARIANTS
  TypeOK
  FailIsConclusive
  PassIsProven
  SkipIsDoubt
  FirewalldIsFound
PROPERTY Terminates
