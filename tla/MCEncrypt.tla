------------------------------ MODULE MCEncrypt -------------------------------
(* Instances of EncryptMessage for TLC: nonces  of two one-bit bytes, so   *)
(* that Partial IVs of both lengths and a wrong length occur.              *)
EXTENDS EncryptMessage, TLC

CONSTANTS A1, A2, Dir, Wrap, K1, V, p1, p2, x1, x2, k1, k2

MCNonceBytes == UNION {[1..n -> Byte] : n \in 1..2}
MCAlgorithmClass ==
  [a \in {A1, A2, Dir, Wrap} |->
     CASE a = Dir -> "Direct" [] a = Wrap -> "KeyWrap" [] OTHER -> None]
MCLabel ==
  {"alg", "kid", "iv", "piv", "crit", "app",
   "salt", "nonce", "ephemeral", "static", "static_id"}
MCHeaderValue ==
  {A1, A2, Dir, Wrap, K1, V, Malformed, <<"app">>, ByteString, EmptyString,
   IntegerValue} \cup MCNonceBytes

AlgHeader(a) == With(EmptyHeader, "alg", a)
IvHeader(iv) == With(EmptyHeader, "iv", iv)
PivHeader(piv) == With(EmptyHeader, "piv", piv)
BothHeader == With(IvHeader(<<"0", "1">>), "piv", <<"1">>)
CritHeader == With(With(EmptyHeader, "app", V), "crit", <<"app">>)

MCProtectedEdit == {EmptyHeader, AlgHeader(A2), CritHeader, IvHeader(<<"1", "1">>)}
MCUnprotectedEdit == {EmptyHeader, IvHeader(<<"0", "1">>), PivHeader(<<"1">>),
                      PivHeader(<<"1", "0">>), BothHeader}
MCForeignRaw == {[hdr |-> EmptyHeader, canon |-> FALSE],
                 [hdr |-> CritHeader, canon |-> FALSE]}

MCEncryptor ==
  {[key |-> k1, alg |-> A1, kid |-> K1, nonce_size |-> 2,
    base_iv |-> <<"1", "0">>, understood |-> {"app"}],
   [key |-> k2, alg |-> None, kid |-> None, nonce_size |-> 2,
    base_iv |-> None, understood |-> {}]}

(* Recipients: a key wrapped by a direct one, which may be edited to be    *)
(* wrong, and one decoded from bytes that are not canonical.               *)
Of(unprotected, ciphertext) ==
  [protected |-> EmptyHeader, unprotected |-> unprotected,
   ciphertext |-> ciphertext, protected_raw |-> None]
direct == Of(AlgHeader(Dir), "empty")
wrap == Of(AlgHeader(Wrap), "key")
MCRecipientsEdit ==
  {[path \in {<<1>>, <<1, 1>>} |-> IF path = <<1>> THEN wrap ELSE direct]}
MCForeignRecipients ==
  {NoRecipients,
   [path \in {<<1>>} |->
      [protected |-> [hdr |-> EmptyHeader, canon |-> FALSE],
       unprotected |-> AlgHeader(Dir), ciphertext |-> "empty"]]}
MCRecipientEdit == {AlgHeader(A2)}

(* The run with ciphertexts in transit.                                    *)
MCApartProtectedEdit == {EmptyHeader}
MCApartUnprotectedEdit == {IvHeader(<<"0", "1">>), PivHeader(<<"1">>)}
MCApartRecipientsEdit == {[path \in {<<1>>} |-> direct]}
MCApartEncryptor == {[e EXCEPT !.kid = None] : e \in MCEncryptor}
MCApartForeignRecipients == {NoRecipients}
MCApartForeignRaw == {[hdr |-> EmptyHeader, canon |-> FALSE]}

(* Neither plaintexts nor external data are ever told apart by the code.   *)
PayloadSymmetry == Permutations({p1, p2})
AadSymmetry == Permutations({x1, x2})
=============================================================================
