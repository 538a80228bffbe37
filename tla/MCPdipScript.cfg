CONSTANTS
    Prog <- MCProg
    ExitCode <- MCExitCode
    Scripts <- MCScripts
    MaxRead = 2
    Backread = FALSE
    PropagateExit = TRUE
    BufSz = 64
    LineChars <- MCLineChars
    MaxLineLen = 5
SPECIFICATION Spec
INVARIANTS TypeOK Conservation RecvMatchesOutput SendAsWritten CommentIgnored
PROPERTIES SessionEnds
