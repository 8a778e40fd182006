\* cmd/socks4 with one client and one transient Accept error: checks
\* ServerStopsOnListenerFailure alone.
CONSTANTS
  c1 = c1
  Conns <- MCConns
  MaxAcceptErrors <- MCMaxAcceptErrors
  ErrcCap <- MCErrcCap
SPECIFICATION Spec
\* The process ends after log.Fatalln or when main returns.
CHECK_DEADLOCK FALSE
PROPERTY ServerStopsOnListenerFailure
