\* WriteTo, the stream and ReadFrom for messages of every type, and the
\* target address across a SOCKS4 tunnel.
CONSTANTS
  Messages <- MCMessages
  TrailByte <- MCTrailByte
  Targets <- MCTargets

SPECIFICATION Spec

\* A message crosses the stream once; the receiver then stops.
CHECK_DEADLOCK FALSE

INVARIANTS
  TypeOK
  RoundTripLaw
  TruncatedStreamFails
  TruncatedDatagramKeepsDestination
  TunnelReachesTarget
