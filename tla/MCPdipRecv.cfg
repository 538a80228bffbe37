CONSTANTS
  Text = {a}
  NL = NL
  Prompt = Prompt
  NULL = NULL
  Inc <- MCInc
  BufIds <- MCBufIds
  MaxBytes <- MCMaxBytes
  MaxCalls <- MCMaxCalls

SPECIFICATION Spec
CONSTRAINT Bounded

INVARIANTS
  Conservation
  NoOverflow
  NoAlias
  FlowDataIsWholeLines
