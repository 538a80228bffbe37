CONSTANTS
  None = None
  Commands <- MCSlow
  MaxCalls <- MCMaxCalls
  OutLineLen <- MCOutLineLen
SPECIFICATION Spec
INVARIANTS OwnStatus
