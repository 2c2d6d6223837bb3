SPECIFICATION Spec
CONSTANTS
  None = None
  Malformed = Malformed
  A1 = A1
  A2 = A2
  K1 = K1
  K2 = K2
  V = V
  p1 = p1
  p2 = p2
  x1 = x1
  x2 = x2
  k1 = k1
  k2 = k2
  Label <- MCLabel
  HeaderValue <- MCHeaderValue
  Alg = {A1, A2}
  Kid = {K1, K2}
  Payload = {p1, p2}
  Aad = {x1}
  Key = {k1, k2}
  Signer <- MCSigner
  Verifier <- MCVerifier
  ProtectedEdit <- MCProtectedEdit
  UnprotectedEdit <- MCUnprotectedEdit
  ForeignRaw <- MCForeignRaw
  MaxRequests = 1
INVARIANTS
  SignThenVerify
  EncodeDecodeIdentity
  ForeignBytesKept
  AcceptedIsWhatWasSigned
PROPERTY
  ImplementsAuthLayer
