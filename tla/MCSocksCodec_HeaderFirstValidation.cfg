\* A fixed header with a corrupted version, alone on the stream.
CONSTANTS
  Messages <- MCMessages
  TrailByte <- MCTrailByte
  Targets <- MCTargets

SPECIFICATION Spec

CHECK_DEADLOCK FALSE

INVARIANT
  HeaderFirstValidation
