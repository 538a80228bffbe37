CONSTANTS
  NbCpu <- MCNbCpu
  Alphabet <- MCAlphabet
  MaxLen <- MCMaxLen
SPECIFICATION Spec
INVARIANTS TypeOK ShellCountAgrees AcceptsDocumentedSyntax
