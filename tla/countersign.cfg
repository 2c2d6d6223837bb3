SPECIFICATION Spec
CONSTANTS
  None = None
  Malformed = Malformed
  A1 = A1
  A2 = A2
  K1 = K1
  V = V
  b1 = b1
  b2 = b2
  x1 = x1
  k1 = k1
  k2 = k2
  Label <- MCLabel
  HeaderValue <- MCHeaderValue
  Alg = {A1, A2}
  Kid = {K1}
  Body = {b1, b2}
  Target <- MCTarget
  Aad = {x1}
  Key = {k1, k2}
  Signer <- MCSigner
  Verifier <- MCVerifier
  ProtectedEdit <- MCProtectedEdit
  UnprotectedEdit <- MCUnprotectedEdit
  ForeignRaw <- MCForeignRaw
  MaxRequests = 1
INVARIANTS
  AcceptedIsWhatWasCountersigned
  CountersignaturesTravel
