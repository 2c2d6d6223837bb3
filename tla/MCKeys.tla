------------------------------- MODULE MCKeys -------------------------------
(* Instances of KeyRing for TLC: keys of every type with providers of      *)
(* every kind, and key sets with members nobody can read.                  *)
EXTENDS KeyRing, TLC

CONSTANTS s1, s2, s3, s4, s5, s6, K1, K2, B1, odd

MCSecret == {s1, s2, s3, s4, s5, s6}
B(s, part, len) == <<s, part, len>>
Made(values) == values @@ EmptyKey

Hmac(ops) ==
  Made(("kty" :> "Symmetric") @@ ("alg" :> "HMAC 256/64") @@ ("kid" :> K1)
       @@ ("k" :> B(s1, "k", 32)) @@ ("key_ops" :> ops))
Aead(alg, ops) ==
  Made(("kty" :> "Symmetric") @@ ("alg" :> alg) @@ ("base_iv" :> B1)
       @@ ("k" :> B(s2, "k", 16)) @@ ("key_ops" :> ops))
Okp(alg, ops) ==
  Made(("kty" :> "OKP") @@ ("alg" :> alg) @@ ("crv" :> "Ed25519") @@ ("kid" :> K2)
       @@ ("d" :> B(s3, "d", 32)) @@ ("key_ops" :> ops))
OkpPair == [Okp("EdDSA", None) EXCEPT !["x"] = B(s3, "x", 32)]
Ec2(alg, xs, len, ops) ==
  Made(("kty" :> "EC2") @@ ("alg" :> alg) @@ ("crv" :> CurveOf(alg))
       @@ ("d" :> B(s4, "d", len)) @@ ("x" :> B(xs, "x", len)) @@ ("y" :> B(s4, "y", len))
       @@ ("key_ops" :> ops))
Rsa(ops) ==
  Made(("kty" :> "RSA") @@ ("alg" :> "PS256") @@ ("kid" :> K1) @@ ("n" :> B(s5, "n", 256))
       @@ ("e" :> B(s5, "e", 3)) @@ ("d" :> B(s5, "d", 256))
       @@ ("rsa private" :> B(s5, "rsa private", 9)) @@ ("key_ops" :> ops))

MCHandKey ==
  {Hmac({"MAC create"}), Hmac(None), Hmac({odd}), Aead("A128GCM", {"encrypt"}),
   Aead("A256GCM", None), Okp(None, {"sign"}), OkpPair,
   Ec2("ES256", s4, 32, {"sign"}), Ec2("ES384", s4, 48, {"verify"}),
   Ec2("ES256", s6, 32, None), Ec2("ES384", s4, 47, None), Rsa({"sign", "verify"}),
   Okp("text", None)}
MCKeyEdit == {<<"key_ops", {"MAC verify", "decrypt", odd}>>, <<"key_ops", {}>>,
              <<"kid", Malformed>>, <<"kty", None>>}

RawOf(make, alg, values) ==
  [make |-> make, alg |-> alg, kid |-> K2, ops |-> None, base_iv |-> None,
   material |-> values @@ [p \in Material |-> None]]
MCRawProvider ==
  {RawOf("RingMacer", "HMAC 256/256", "k" :> B(s1, "k", 32)),
   RawOf("RingVerifier", "ES256", ("x" :> B(s4, "x", 31)) @@ ("y" :> B(s4, "y", 32))),
   RawOf("RingVerifier", "RS256", ("n" :> B(s5, "n", 256)) @@ ("e" :> B(s5, "e", 3))),
   RawOf("RingVerifier", "Ed25519", "x" :> B(s3, "x", 30))}

-----------------------------------------------------------------------------
In(form, k) == [form |-> form, key |-> k]
MCForeignSet ==
  LET good == Member(Hmac({"MAC verify"}))
      other == Member([OkpPair EXCEPT !["kid"] = K1])
      keyless == Member([Rsa(None) EXCEPT !["kty"] = None])
      badKid == Member([Hmac(None) EXCEPT !["kid"] = Malformed])
      twice == In("repeated", Hmac(None))
      text == In("other", EmptyKey)
      broken == In("broken", EmptyKey)
      Some == {good, other, keyless, badKid, twice, text, broken}
  IN {<<x, good, y>> : x \in {badKid, twice}, y \in {other, keyless, text, broken}}
     \cup {<<other, x>> : x \in {other, keyless, twice}} \cup {<<x>> : x \in Some}

-----------------------------------------------------------------------------
(* All numbers of up to two bytes; longer ones, whose documents need the   *)
(* long form of length with one byte (from 4) and with two (from 8).       *)
MCDerNumber ==
  {<<x>> : x \in 0 .. 7} \cup {<<x, y>> : x, y \in 0 .. 7} \cup
  {[i \in 1 .. n |-> IF i = 1 THEN x ELSE IF i = 2 THEN y ELSE 1] :
     n \in 3 .. 10, x \in {0, 1, 4}, y \in {0, 7}}
=============================================================================
