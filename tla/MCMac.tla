------------------------------- MODULE MCMac -------------------------------
(* An instance of MacMessage for TLC.                                      *)
EXTENDS MacMessage

CONSTANTS A1, A2, Dir, Kdf, Wrap, Transport, Es, SsWrap, V, K1, k1, p1, x1

MCAlg == {A1, A2, Dir, Kdf, Wrap, Transport, Es, SsWrap}
MCAlgorithmClass ==
  [a \in MCAlg |->
     CASE a = Dir -> "Direct" [] a = Kdf -> "DirectKeyDerivation"
       [] a = Wrap -> "KeyWrap" [] a = Transport -> "KeyTransport"
       [] a = Es -> "DirectKeyAgreement"
       [] a = SsWrap -> "KeyAgreementWithKeyWrap" [] OTHER -> None]
MCLabel ==
  {"alg", "kid", "salt", "nonce", "ephemeral", "static", "static_id", "app"}

PublicKey ==
  [kty |-> "OKP", crv |-> "X25519", x |-> "full", y |-> "absent",
   private |-> FALSE, ops |-> FALSE, alg |-> None]
PrivateKey == [PublicKey EXCEPT !.private = TRUE]
MCHeaderValue ==
  MCAlg \cup {K1, V, Malformed, ByteString, EmptyString, IntegerValue,
              PublicKey, PrivateKey}

AlgHeader(a) == With(EmptyHeader, "alg", a)
Of(protected, unprotected, ciphertext) ==
  [protected |-> protected, unprotected |-> unprotected,
   ciphertext |-> ciphertext, protected_raw |-> None]

direct == Of(EmptyHeader, AlgHeader(Dir), "empty")
wrap == Of(EmptyHeader, AlgHeader(Wrap), "key")
custom == Of(AlgHeader(A1), EmptyHeader, "absent")
Es_(key) == Of(AlgHeader(Es), With(EmptyHeader, "ephemeral", key), "empty")
Ss(l, v) ==
  Of(AlgHeader(SsWrap), With(With(EmptyHeader, "static_id", ByteString), l, v),
     "key")
Derived(v) == Of(EmptyHeader, With(AlgHeader(Kdf), "salt", v), "empty")

Single(r) == [path \in {<<1>>} |-> r]
Two(r, s) == [path \in {<<1>>, <<2>>} |-> IF path = <<1>> THEN r ELSE s]
Nested(r, s) == [path \in {<<1>>, <<1, 1>>} |-> IF path = <<1>> THEN r ELSE s]
Deep(r) == [path \in {<<1>>, <<1, 1>>, <<1, 1, 1>>} |-> r]

MCRecipientsEdit ==
  {NoRecipients, Single(direct), Two(wrap, custom), Two(wrap, direct),
   Nested(wrap, direct), Deep(wrap), Single(Es_(PublicKey)),
   Single(Es_(PrivateKey)),
   Nested(Of(EmptyHeader, AlgHeader(Transport), "key"), wrap),
   Single(Ss("nonce", IntegerValue)), Single(Ss("salt", EmptyString)),
   Single(Derived(ByteString)), Single(Derived(IntegerValue))}
MCRecipientEdit == {AlgHeader(A2)}
MCNewRecipient == {direct}

(* Protected bytes that are not canonical: an encoded empty map where zero *)
(* bytes would do, and a long form of an algorithm.                        *)
Raw(h) == [hdr |-> h, canon |-> FALSE]
Foreign(r) ==
  [protected |-> Raw(r.protected), unprotected |-> r.unprotected,
   ciphertext |-> r.ciphertext]
MCForeignRecipients ==
  {NoRecipients, Single(Foreign(direct)), Nested(Foreign(wrap), Foreign(custom)),
   Two(Foreign(custom), Foreign(Derived(ByteString))),
   Single(Foreign(Of(AlgHeader(A1), AlgHeader(A2), "absent"))),
   Deep(Foreign(custom))}
MCForeignRaw == {Raw(AlgHeader(A1))}
MCProtectedEdit == {EmptyHeader, With(EmptyHeader, "app", V)}
MCUnprotectedEdit == {EmptyHeader, AlgHeader(A1)}

MCMacer == {[key |-> k1, alg |-> A1, kid |-> None, understood |-> {}]}
=============================================================================
