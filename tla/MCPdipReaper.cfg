CONSTANTS
  p1 = p1
  p2 = p2
  main = main
  aux = aux
  NoObj = NoObj
  Pcos <- MCPcos
  Threads <- MCOneThread
  Callers <- MCCallers
  MaxChildren <- MCMaxChildren
  ConfigureAnyTime = FALSE

SPECIFICATION Spec

INVARIANTS
  TypeOK
  NoAssertFailure
  DeadMeansReaped

PROPERTIES
  DeleteReturns
