\* One client, no read timeout: checks UnknownCommandRejected alone.
CONSTANTS
  c1 = c1
  Conns <- MCConns
  ReadTimeoutSet <- MCNoReadTimeout
  MaxAcceptErrors <- MCMaxAcceptErrors
  ErrcCap <- MCErrcCap
  AppHooks <- MCDefaultHooks
SPECIFICATION Spec
CHECK_DEADLOCK FALSE
INVARIANT UnknownCommandRejected
