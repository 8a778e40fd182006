CONSTANTS
  Commands <- MCCommands
  ReadyChanCap <- MCReadyChanCap
  MaxProxyReplies <- MCMaxProxyReplies
SPECIFICATION Spec
\* A single dial call ends: every goroutine finishes or waits on the environment.
CHECK_DEADLOCK FALSE
INVARIANTS
  TypeOK
PROPERTIES
  CancelUnblocksCall
  DialContract
