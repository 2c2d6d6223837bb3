SPECIFICATION Spec
CONSTANTS
  None = None
  Malformed = Malformed
  s1 = s1
  s2 = s2
  s3 = s3
  s4 = s4
  s5 = s5
  s6 = s6
  K1 = K1
  K2 = K2
  B1 = B1
  odd = odd
  Secret <- MCSecret
  Kid = {K1, K2}
  BaseIv = {B1}
  HandKey <- MCHandKey
  KeyEdit <- MCKeyEdit
  RawProvider <- MCRawProvider
  ForeignSet <- MCForeignSet
  MaxSet = 1
  MaxWritten = 2
  Radix = 8
  WordBytes = 2
  IntegerTag = 2
  SequenceTag = 6
  DerNumber <- MCDerNumber
CHECK_DEADLOCK FALSE
INVARIANTS
  NoUnentitledUse
  ExportedKeyRestoresTheProvider
  SetsTravelWhole
  RsaKeysSurviveDer
