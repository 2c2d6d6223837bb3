------------------------------ MODULE CoseKey ------------------------------
(***************************************************************************)
(* COSE_Key objects and key sets (src/src/key.rs), and the built-in        *)
(* providers made from keys (src/src/crypto.rs, aes_gcm.rs, ed25519.rs),   *)
(* as functions of their arguments; KeyRing holds the state.               *)
(*                                                                         *)
(* A key gives every parameter its value or None.  A byte string is known  *)
(* by the key pair or secret it belongs to, the part of it, and its        *)
(* length; Malformed is a value of a CBOR type the parameter does not      *)
(* allow.  key_ops is a set: its order and repetitions decide nothing.     *)
(***************************************************************************)
EXTENDS Naturals, Sequences, FiniteSets

CONSTANTS
  None, Malformed,
  Secret,        \* the symmetric secrets and key pairs of the instance
  Kid,           \* key identifiers
  BaseIv         \* Base IVs

(* The algorithms of the built-in providers.                               *)
HmacAlg == {"HMAC 256/64", "HMAC 256/256", "HMAC 384/384", "HMAC 512/512"}
AeadAlg == {"A128GCM", "A256GCM", "ChaCha20"}
Ed25519Alg == {"Ed25519", "EdDSA"}
EcdsaAlg == {"ES256", "ESP256", "ES384", "ESP384"}
RsaAlg == {"RS256", "RS384", "RS512", "PS256", "PS384", "PS512"}
Alg == HmacAlg \cup AeadAlg \cup Ed25519Alg \cup EcdsaAlg \cup RsaAlg

CurveOf(alg) == IF alg \in {"ES384", "ESP384"} THEN "P-384" ELSE "P-256"
CoordinateLen(alg) == IF alg \in {"ES384", "ESP384"} THEN 48 ELSE 32
AeadKeyLen(alg) == IF alg = "A128GCM" THEN 16 ELSE 32

MacOps == {"MAC create", "MAC verify"}
AeadOps == {"encrypt", "decrypt"}
SignatureOps == {"sign", "verify"}
Op == MacOps \cup AeadOps \cup SignatureOps

(* Private material: k, d, and the rest of an RSA private key.             *)
Private == {"k", "d", "rsa private"}
Public == {"x", "y", "n", "e"}
Material == Private \cup Public
Bytes == Secret \X Material \X Nat
Owner(bytes) == bytes[1]
Length(bytes) == bytes[3]
Param == {"kty", "kid", "alg", "key_ops", "base_iv", "crv"} \cup Material

ASSUME KeyConstants ==
  /\ None # Malformed /\ Malformed \notin Kid \cup BaseIv
  /\ \A v \in {None, Malformed} :
       v \notin Bytes /\ v \notin Alg /\ \A ops \in SUBSET Op : v # ops

(* What a parameter may hold; kty, alg and crv are compared by name only.  *)
IsKey(key) ==
  /\ key = [p \in Param |-> key[p]]
  /\ \A p \in Material : key[p] \in {None, Malformed} \/ key[p] \in Bytes
  /\ key["key_ops"] \in {None, Malformed} \/ IsFiniteSet(key["key_ops"])
  /\ key["kid"] \in Kid \cup {None, Malformed}
  /\ key["base_iv"] \in BaseIv \cup {None, Malformed}

EmptyKey == [p \in Param |-> None]
KeySetTo(key, p, v) == [key EXCEPT ![p] = v]

(* Key::validate: kty is there, and what the crate reads has its type.     *)
ValidKey(key) ==
  /\ key["kty"] # None
  /\ \A p \in {"kty", "alg", "key_ops", "kid", "base_iv"} : key[p] # Malformed

-----------------------------------------------------------------------------
(* Encoded sets.  A member is written by hand or by KeySet::to_vec; form   *)
(* tells a map from a map with a repeated key, another well-formed item,   *)
(* or data that is no CBOR at all.                                         *)
MemberForm == {"map", "repeated", "other", "broken"}
Member(key) == [form |-> "map", key |-> key]

(* Key::from_slice on one member.                                          *)
ReadMember(m) == m.form = "map" /\ ValidKey(m.key)

(* The readable members in their order: the j-th is the one that has j     *)
(* readable members up to it.                                              *)
Readable(ms) ==
  LET at == {i \in DOMAIN ms : ReadMember(ms[i])}
      Rank(i) == Cardinality({k \in at : k <= i})
  IN [j \in 1 .. Cardinality(at) |-> ms[CHOOSE i \in at : Rank(i) = j]]

KeyOf(m) == m.key
KeysOf(ms) == [i \in DOMAIN ms |-> KeyOf(ms[i])]
Refused == [ok |-> FALSE]

(* KeySet::from_slice: the array must parse, each member on its own; the   *)
(* unreadable ones are dropped, but one key must be left.                  *)
FromSlice(ms) ==
  LET kept == Readable(ms)
  IN IF kept # << >> /\ \A i \in DOMAIN ms : ms[i].form # "broken"
     THEN [ok |-> TRUE, keys |-> KeysOf(kept)]
     ELSE Refused

(* KeySet::from_slice_strict                                               *)
FromSliceStrict(ms) ==
  IF ms # << >> /\ \A i \in DOMAIN ms : ReadMember(ms[i])
  THEN [ok |-> TRUE, keys |-> KeysOf(ms)]
  ELSE Refused

\* Faulty variant: encodes whatever keys the set holds.
ToVec_Unchecked(keys) ==
  IF keys # << >> THEN [ok |-> TRUE, ms |-> [i \in DOMAIN keys |-> Member(keys[i])]]
                  ELSE Refused

(* KeySet::to_vec, whose keys may have been edited since they were read.   *)
ToVec(keys) ==
  IF keys # << >> /\ \A i \in DOMAIN keys : ValidKey(keys[i])
  THEN [ok |-> TRUE, ms |-> [i \in DOMAIN keys |-> Member(keys[i])]]
  ELSE Refused

(* KeySet::lookup: every key with that identifier, a malformed one is none *)
Lookup(keys, kid) == {keys[i] : i \in {j \in DOMAIN keys : keys[j]["kid"] = kid}}

-----------------------------------------------------------------------------
(* Providers.  ops is a copy of the key's key_ops where the provider keeps *)
(* one; material is what it keeps of the key.                              *)
Maker ==
  {"RingMacer", "RingEncryptor", "AesGcmEncryptor", "RingSigner",
   "Ed25519Signer", "RingVerifier", "Ed25519Verifier"}
Encryptors == {"RingEncryptor", "AesGcmEncryptor"}
Signers == {"RingSigner", "Ed25519Signer"}
Verifiers == {"RingVerifier", "Ed25519Verifier"}

Supported(make) ==
  CASE make = "RingMacer" -> HmacAlg
    [] make = "RingEncryptor" -> AeadAlg
    [] make = "AesGcmEncryptor" -> {"A128GCM", "A256GCM"}
    [] make \in {"Ed25519Signer", "Ed25519Verifier"} -> Ed25519Alg
    [] OTHER -> Ed25519Alg \cup EcdsaAlg \cup RsaAlg

(* What a provider of the kind can be asked to do.                         *)
Purpose(make) ==
  CASE make = "RingMacer" -> MacOps
    [] make \in Encryptors -> AeadOps
    [] make \in Signers -> {"sign"}
    [] OTHER -> {"verify"}

(* util::key_ops_allow, Key::allows_any_operation: absent key_ops forbid   *)
(* nothing, a text operation permits nothing here.                         *)
OpsAllow(ops, wanted) ==
  IF ops \in {None, Malformed} THEN ops = None ELSE ops \cap wanted # {}

Keep(key, parts) == [p \in Material |-> IF p \in parts THEN key[p] ELSE None]
HasBytes(key, parts) == \A p \in parts : key[p] \in Bytes
SamePair(key, parts) == \A p, q \in parts : Owner(key[p]) = Owner(key[q])
Provider(make, key, alg, ops, parts) ==
  [make |-> make, alg |-> alg, kid |-> key["kid"], ops |-> ops,
   base_iv |-> IF make \in Encryptors THEN key["base_iv"] ELSE None,
   material |-> Keep(key, parts)]

(* The parts of a key a provider for the algorithm needs, and whether they *)
(* are of the right kind, length and curve.                                *)
Parts(make, alg) ==
  IF make \notin Signers \cup Verifiers THEN {"k"}
  ELSE (CASE alg \in Ed25519Alg -> {"x"} [] alg \in EcdsaAlg -> {"x", "y"}
          [] OTHER -> {"n", "e"})
       \cup (IF make \in Verifiers THEN {}
             ELSE IF alg \in RsaAlg THEN {"d", "rsa private"} ELSE {"d"})

KeyTypeFits(make, key, alg) ==
  IF make \notin Signers \cup Verifiers THEN key["kty"] = "Symmetric"
  ELSE \/ alg \in Ed25519Alg /\ key["kty"] = "OKP" /\ key["crv"] = "Ed25519"
       \/ alg \in EcdsaAlg /\ key["kty"] = "EC2" /\ key["crv"] = CurveOf(alg)
       \/ alg \in RsaAlg /\ key["kty"] = "RSA"

LengthsFit(make, key, alg) ==
  /\ make \in Encryptors => Length(key["k"]) = AeadKeyLen(alg)
  /\ alg \in EcdsaAlg => \A p \in {"x", "y"} : Length(key[p]) = CoordinateLen(alg)
  /\ make \in Signers /\ alg \in Ed25519Alg =>
       Length(key["d"]) = 32 /\ Length(key["x"]) = 32
  /\ make \in Signers /\ alg \in EcdsaAlg => Length(key["d"]) = CoordinateLen(alg)
  /\ make = "Ed25519Verifier" => Length(key["x"]) = 32

(* Ed25519Signer computes x itself: the key may leave it out, not differ.  *)
ComputesX(make) == make = "Ed25519Signer"
WithX(key) ==
  IF key["x"] # None THEN key
  ELSE [key EXCEPT !["x"] = <<Owner(key["d"]), "x", 32>>]

Complete(make, key, alg) ==
  /\ HasBytes(key, Parts(make, alg))
  /\ LengthsFit(make, key, alg)
  /\ make \in Signers => SamePair(key, Parts(make, alg))

(* from_cose_key of each provider: all checks, in whatever order, must     *)
(* pass, and the provider owns copies of everything it took.               *)
FromCoseKey(make, key) ==
  LET alg == IF key["alg"] = None /\ make \in {"Ed25519Signer", "Ed25519Verifier"}
             THEN "Ed25519" ELSE key["alg"]
      full == IF ComputesX(make) /\ key["d"] \in Bytes THEN WithX(key) ELSE key
      ops == IF make \in Signers \cup Verifiers THEN None ELSE key["key_ops"]
  IN IF /\ OpsAllow(key["key_ops"], Purpose(make))
        /\ alg \in Supported(make)
        /\ KeyTypeFits(make, key, alg)
        /\ key["kid"] # Malformed
        /\ make \in Encryptors => key["base_iv"] # Malformed
        /\ Complete(make, full, alg)
     THEN [ok |-> TRUE, provider |-> Provider(make, full, alg, ops, Parts(make, alg))]
     ELSE Refused

\* Faulty variant: what the key permits was settled when it was imported.
Performs_Unchecked(p, op) == op \in Purpose(p.make)

(* Macers and encryptors ask key_ops again for the one operation; signers  *)
(* and verifiers did when they were made.                                  *)
Performs(p, op) == op \in Purpose(p.make) /\ OpsAllow(p.ops, {op})

KeyType(p) ==
  IF p.make \notin Signers \cup Verifiers THEN "Symmetric"
  ELSE CASE p.alg \in Ed25519Alg -> "OKP" [] p.alg \in EcdsaAlg -> "EC2"
         [] OTHER -> "RSA"
CurveParam(p) ==
  CASE KeyType(p) = "OKP" -> "Ed25519" [] KeyType(p) = "EC2" -> CurveOf(p.alg)
    [] OTHER -> None

\* Faulty variant: the exported symmetric key carries no key_ops.
ExportedOps_Dropped(p) ==
  IF p.make \in Signers \cup Verifiers THEN {"verify"} ELSE None

(* Key::symmetric copies the restriction, the public keys get their own.   *)
ExportedOps(p) ==
  IF p.make \in Signers \cup Verifiers THEN {"verify"} ELSE p.ops

(* to_cose_key: symmetric providers give back all they took, signers and   *)
(* verifiers the public half, which permits verification only.  The RSA    *)
(* signer's backend shows no public key, and a point given raw to a        *)
(* verifier may not be an uncompressed one of the curve.                   *)
ToCoseKey(p) ==
  IF \/ p.make = "RingSigner" /\ p.alg \in RsaAlg
     \/ KeyType(p) = "EC2" /\
        \E c \in {"x", "y"} : Length(p.material[c]) # CoordinateLen(p.alg)
  THEN Refused
  ELSE [ok |-> TRUE, key |->
    [q \in Param |->
       CASE q = "kty" -> KeyType(p) [] q = "alg" -> p.alg [] q = "kid" -> p.kid
         [] q = "crv" -> CurveParam(p) [] q = "base_iv" -> p.base_iv
         [] q = "key_ops" -> ExportedOps(p)
         [] q \in Public \cup {"k"} -> p.material[q] [] OTHER -> None]]
=============================================================================
