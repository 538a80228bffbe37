CONSTANTS
  NoFd = NoFd
  Fds <- MCFds
  MaxOpen <- MCMaxOpen
  Spurious = TRUE
  Eintr = TRUE
SPECIFICATION Spec
INVARIANT TypeOK
PROPERTIES GracefulRefines
