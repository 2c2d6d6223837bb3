SPECIFICATION Spec
CONSTANTS
  None = None
  Scale = 2
  U64Max = 4
  I128Max = 9
  Name = {"a", "b"}
  Private = {"role"}
  ClaimsEdit <- MCClaimsEdit
  ForeignMap <- MCForeignMap
  Options <- MCOptions
  MaxClockSkew = 1
  MinClock <- MCMinClock
  MaxClock = 4
INVARIANTS
  ClaimsRoundTrip
  TypedAndMapAgree
  AcceptedExactlyInItsWindow
PROPERTIES
  ExpiryIsFinal
