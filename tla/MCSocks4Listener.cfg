\* One client with a read timeout and one transient Accept error. The
\* connections of ServeContext share only the accept loop, and every
\* property is about one connection.
CONSTANTS
  c1 = c1
  Conns <- MCConns
  ReadTimeoutSet <- MCReadTimeoutSet
  MaxAcceptErrors <- MCMaxAcceptErrors
  ErrcCap <- MCErrcCap
  AppHooks <- MCAppHooks
SPECIFICATION Spec
\* ServeContext returns after cancellation, and a listener that fails makes
\* the loop spin; neither is a deadlock of the program.
CHECK_DEADLOCK FALSE
INVARIANTS
  TypeOK
  RequestAnsweredOnce
  FailureReportedOnce
PROPERTIES
  ServeReturnsAfterCancel
  CancelEndsEveryConn
  RequestReadBounded
  RelayGoroutinesFinish
