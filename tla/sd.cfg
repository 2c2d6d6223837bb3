SPECIFICATION Spec
CONSTANTS
  None = None
  MaxDepth = 7
  MaxItems = 60
  MaxEntries = 6
  MaxDisclosures = 5
  PreIssued <- MCPreIssued
  SaltRun <- MCSaltRun
  ForeignToken <- MCForeignToken
  ForeignDisclosure <- Stray
  MaxShown = 4
  IssuerInHeader = FALSE
INVARIANTS
  AllShownRestoresTheClaims
  AcceptedInAnyOrder
  OnlyRealConflictsAreRefused
  ConflictsAreFoundInTheEnd
  OnlyShownIsRestored
  EveryDigestIsAnsweredOrRemoved
  RestoredIsWithinLimits
  ClearClaimsStayClear
