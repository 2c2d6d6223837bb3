SPECIFICATION Spec
CONSTANTS
  None = None
  Malformed = Malformed
  A1 = A1
  A2 = A2
  K1 = K1
  V = V
  Dir = Dir
  Wrap = Wrap
  ByteString = ByteString
  EmptyString = EmptyString
  IntegerValue = IntegerValue
  p1 = p1
  p2 = p2
  x1 = x1
  x2 = x2
  k1 = k1
  k2 = k2
  Label <- MCLabel
  HeaderValue <- MCHeaderValue
  Alg = {A1, A2, Dir, Wrap}
  AlgorithmClass <- MCAlgorithmClass
  Ephemeral = {}
  MaxRecipientDepth = 1
  ParserDepth = 5
  Kid = {K1}
  Key = {k1, k2}
  NonceBytes <- MCNonceBytes
  Encryptor <- MCEncryptor
  Payload = {p1}
  Aad = {x1, x2}
  ProtectedEdit <- MCProtectedEdit
  UnprotectedEdit <- MCUnprotectedEdit
  RecipientsEdit <- MCRecipientsEdit
  RecipientEdit <- MCRecipientEdit
  ForeignRecipients <- MCForeignRecipients
  ForeignRaw <- MCForeignRaw
  MaxTransit = 0
INVARIANTS
  EncryptThenDecrypt
  PartialIvsGiveDistinctNonces
SYMMETRY AadSymmetry
