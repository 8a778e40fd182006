\* Every prefix of a request with fields up to one byte over their bounds.
CONSTANTS
  MaxUserIDLen <- MCMaxUserIDLen
  MaxDomainLen <- MCMaxDomainLen
  BufSize <- MCBufSize
  MaxTrailing <- MCMaxTrailing
SPECIFICATION Spec
\* ReadUserIDAndDomain returns, or waits for bytes a client never sends.
CHECK_DEADLOCK FALSE
INVARIANTS TypeOK DecodedAsSent NoFalseError 
PROPERTY CompleteRequestRead
