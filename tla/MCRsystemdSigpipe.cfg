CONSTANTS
  c1 = c1
  c2 = c2
  Listen = Listen
  None = None
  Err = Err
  Clients <- MCClients
  Shells <- MCOneShell
  Outputs <- MCLineOutputs
  CmdKinds <- MCKinds
  MaxCmds <- MCMaxCmds
  QuitMidCommand = TRUE
  MallocFails = FALSE
  ShellKill = FALSE
SPECIFICATION Spec
INVARIANT DaemonSurvives

