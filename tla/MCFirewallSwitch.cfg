SPECIFICATION Spec
CONSTANTS
  Pid <- MCPid
  Machines <- MCMachines
  Kernels <- MCKernels
  Tables <- MCTables
  MaxProcesses = 2
  MaxChanges = 2
INVARIANT DisabledIsConclusive
