\* WriteTo, the stream and ReadFrom for the SOCKS4 requests and responses.
CONSTANTS
  Messages <- MCSocks4Messages
  TrailByte <- MCTrailByte
  Targets <- MCTargets

SPECIFICATION Spec

\* A message crosses the stream once; the receiver then stops.
CHECK_DEADLOCK FALSE

INVARIANT
  DecodeValidates
