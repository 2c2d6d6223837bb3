SPECIFICATION Spec
CONSTANTS
  None = None
  Malformed = Malformed
  A1 = A1
  A2 = A2
  Dir = Dir
  Kdf = Kdf
  Wrap = Wrap
  Transport = Transport
  Es = Es
  SsWrap = SsWrap
  V = V
  K1 = K1
  k1 = k1
  p1 = p1
  x1 = x1
  ByteString = ByteString
  EmptyString = EmptyString
  IntegerValue = IntegerValue
  Label <- MCLabel
  HeaderValue <- MCHeaderValue
  Alg <- MCAlg
  Kid = {K1}
  AlgorithmClass <- MCAlgorithmClass
  Ephemeral = {Es}
  MaxRecipientDepth = 1
  ParserDepth = 5
  Payload = {p1}
  Aad = {x1}
  Key = {k1}
  Macer <- MCMacer
  ProtectedEdit <- MCProtectedEdit
  UnprotectedEdit <- MCUnprotectedEdit
  RecipientsEdit <- MCRecipientsEdit
  RecipientEdit <- MCRecipientEdit
  NewRecipient <- MCNewRecipient
  ForeignRecipients <- MCForeignRecipients
  ForeignRaw <- MCForeignRaw
  MaxRecipients = 2
  MaxRequests = 1
INVARIANTS
  AcceptedIsWhatWasMaced
  ComputeThenVerify
  RecipientsTravel
  BadRecipientsBlock
