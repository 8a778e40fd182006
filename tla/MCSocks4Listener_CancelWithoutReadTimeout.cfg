\* One client, RequestReadTimeout left 0 as cmd/socks4 leaves it: checks
\* CancelEndsEveryConn alone.
CONSTANTS
  c1 = c1
  Conns <- MCConns
  ReadTimeoutSet <- MCNoReadTimeout
  MaxAcceptErrors <- MCMaxAcceptErrors
  ErrcCap <- MCErrcCap
  AppHooks <- MCDefaultHooks
SPECIFICATION Spec
CHECK_DEADLOCK FALSE
PROPERTY CancelEndsEveryConn
