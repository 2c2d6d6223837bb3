------------------------------ MODULE KeyRing ------------------------------
(***************************************************************************)
(* A program that keeps COSE keys: it writes keys by hand, makes providers *)
(* of them, exports providers back to keys, and sends and receives key     *)
(* sets (src/src/key.rs, src/src/crypto.rs, aes_gcm.rs, ed25519.rs).       *)
(*                                                                         *)
(* Key and KeySet are public maps and vectors, so any of them may be       *)
(* edited between two calls, also into something no call accepts.          *)
(***************************************************************************)
EXTENDS CoseKey, Pkcs1Der

CONSTANTS
  HandKey,      \* the keys written by hand
  KeyEdit,      \* the parameters overwritten in a key: <<parameter, value>>
  RawProvider,  \* providers made from raw bytes instead of a COSE_Key
  ForeignSet,   \* the sets others send: sequences of members
  MaxSet,       \* bound on the keys of the set
  MaxWritten    \* bound on what is written by hand or comes from outside

(* A finite tuple.                                                         *)
IsRow(s) ==
  /\ Len(s) \in Nat /\ DOMAIN s = 1 .. Len(s)
  /\ s = [i \in DOMAIN s |-> s[i]]

(* What new, from_pkcs8, from_public_key and the like accept: everything   *)
(* from_cose_key looks at, except that RingVerifier copies the point and   *)
(* leaves its length to the backend.                                       *)
IsRaw(p) ==
  /\ p \in [make : Maker, alg : Supported(p.make), kid : Kid \cup {None},
            ops : {None}, base_iv : {None},
            material : [Material -> Bytes \cup {None}]]
  /\ p.material = Keep(p.material, Parts(p.make, p.alg))
  /\ HasBytes(p.material, Parts(p.make, p.alg))
  /\ p.make = "RingVerifier" \/ LengthsFit(p.make, p.material, p.alg)

ASSUME KeyRingConstants ==
  /\ \A k \in HandKey : IsKey(k)
  /\ \A ms \in ForeignSet :
       /\ IsRow(ms)
       /\ \A i \in DOMAIN ms : IsKey(ms[i].key)
  /\ \A e \in KeyEdit : e[1] \in {"key_ops", "kid", "kty"}
  /\ \A p \in RawProvider : IsRaw(p)
  /\ MaxSet \in Nat /\ MaxWritten \in Nat

VARIABLES
  key,       \* the COSE_Key at hand
  provider,  \* the provider made last, None before
  raw,       \* whether that provider was made from raw bytes
  keys,      \* the KeySet: a sequence of keys
  wire,      \* the encoded set received or sent last
  origin,    \* how keys came about: "edited", "sent", "lenient" or "strict"
  written,   \* how many keys, edits and foreign sets there have been
  granted    \* what the keys written by hand ever permitted, by secret

vars == <<key, provider, raw, keys, wire, origin, written, granted>>

(* The secret a key or a provider is about, and what a key lets be done.   *)
SecretsOf(k) == {Owner(k[p]) : p \in {q \in Material : k[q] \notin {None, Malformed}}}
PermittedBy(k) ==
  IF k["key_ops"] = None THEN Op
  ELSE IF k["key_ops"] = Malformed THEN {} ELSE k["key_ops"] \cap Op
Grant(g, ks) ==
  [s \in Secret |->
     g[s] \cup UNION {PermittedBy(k) : k \in {x \in ks : s \in SecretsOf(x)}}]

Init ==
  /\ key \in HandKey
  /\ granted = Grant([s \in Secret |-> {}], {key})
  /\ provider = None /\ raw = FALSE
  /\ keys = << >> /\ wire = << >> /\ origin = "edited"
  /\ written = 0

-----------------------------------------------------------------------------
WrittenOnce == written < MaxWritten /\ written' = written + 1

(* The program writes a key, or one parameter of the key it holds.         *)
WriteKey ==
  \E k \in HandKey :
    /\ WrittenOnce
    /\ key' = k
    /\ granted' = Grant(granted, {k})
    /\ UNCHANGED <<provider, raw, keys, wire, origin>>

EditKey ==
  \E e \in KeyEdit :
    /\ WrittenOnce
    /\ key' = KeySetTo(key, e[1], e[2])
    /\ granted' = Grant(granted, {key'})
    /\ UNCHANGED <<provider, raw, keys, wire, origin>>

(* from_cose_key of one of the providers; a refusal makes none.            *)
Import ==
  \E make \in Maker :
    LET made == FromCoseKey(make, key) IN
      /\ made.ok
      /\ provider' = made.provider /\ raw' = FALSE
      /\ UNCHANGED <<key, keys, wire, origin, written, granted>>

(* RingMacer::new and the like: no key_ops restrict such a provider.       *)
MakeRaw ==
  \E p \in RawProvider :
    /\ WrittenOnce
    /\ provider' = p /\ raw' = TRUE
    /\ granted' = [s \in Secret |->
         granted[s] \cup IF s \in SecretsOf(p.material) THEN Purpose(p.make) ELSE {}]
    /\ UNCHANGED <<key, keys, wire, origin>>

(* Encryptor::with_base_iv                                                 *)
SetBaseIv ==
  \E iv \in BaseIv :
    /\ provider # None /\ provider.make \in Encryptors
    /\ provider' = [provider EXCEPT !.base_iv = iv]
    /\ UNCHANGED <<key, raw, keys, wire, origin, written, granted>>

Export ==
  /\ provider # None /\ ToCoseKey(provider).ok
  /\ key' = ToCoseKey(provider).key
  /\ UNCHANGED <<provider, raw, keys, wire, origin, written, granted>>

-----------------------------------------------------------------------------
(* The set: a public vector, encoded and decoded as a whole.               *)
AddKey ==
  /\ Len(keys) < MaxSet
  /\ keys' = Append(keys, key) /\ origin' = "edited"
  /\ UNCHANGED <<key, provider, raw, wire, written, granted>>

SendSet ==
  /\ ToVec(keys).ok
  /\ wire' = ToVec(keys).ms /\ origin' = "sent"
  /\ UNCHANGED <<key, provider, raw, keys, written, granted>>

(* Bytes from elsewhere; who wrote their keys permitted what they say.     *)
Deliver ==
  \E ms \in ForeignSet :
    /\ WrittenOnce
    /\ wire' = ms /\ origin' = "edited"
    /\ granted' = Grant(granted, {ms[i].key : i \in DOMAIN ms})
    /\ UNCHANGED <<key, provider, raw, keys>>

Receive ==
  \/ /\ FromSlice(wire).ok
     /\ keys' = FromSlice(wire).keys /\ origin' = "lenient"
     /\ UNCHANGED <<key, provider, raw, wire, written, granted>>
  \/ /\ FromSliceStrict(wire).ok
     /\ keys' = FromSliceStrict(wire).keys /\ origin' = "strict"
     /\ UNCHANGED <<key, provider, raw, wire, written, granted>>

(* The program takes one of the keys a lookup gives it.                    *)
TakeKey ==
  \E kid \in Kid : \E k \in Lookup(keys, kid) :
    /\ key' = k
    /\ UNCHANGED <<provider, raw, keys, wire, origin, written, granted>>

Next ==
  WriteKey \/ EditKey \/ Import \/ MakeRaw \/ SetBaseIv \/ Export
    \/ AddKey \/ SendSet \/ Deliver \/ Receive \/ TakeKey

Spec == Init /\ [][Next]_vars

-----------------------------------------------------------------------------
(* Whatever way a key took - imports, exports, edits of other keys, sets   *)
(* sent and received - no provider does with a secret what no key written  *)
(* by hand for it allowed.  Verification alone comes with the permission   *)
(* to sign, when a signer gives away its public key (crypto.rs:79-147,     *)
(* util.rs:71-95, key.rs:212-232).                                         *)
Entitled(op, s) ==
  op \in granted[s] \/ (op = "verify" /\ "sign" \in granted[s])
NoUnentitledUse ==
  provider # None =>
    \A op \in Op, s \in SecretsOf(provider.material) :
      Performs(provider, op) => Entitled(op, s)

(* What a provider exports makes the same provider again, and a signer's   *)
(* key a verifier for its signatures.  Every imported provider can be      *)
(* exported, but for the RSA signer (crypto.rs:98-109, 208-226, 452-474,   *)
(* 756-783; aes_gcm.rs:104-120; ed25519.rs:64-75, 152-161).                *)
VerifierFor(make) ==
  IF make = "RingSigner" THEN "RingVerifier" ELSE "Ed25519Verifier"
Same(p, q) ==
  /\ p.alg = q.alg /\ p.kid = q.kid /\ p.base_iv = q.base_iv
  /\ \A part \in Public \cup {"k"} : p.material[part] = q.material[part]
ExportedKeyRestoresTheProvider ==
  provider # None =>
    LET out == ToCoseKey(provider)
        make == IF provider.make \in Signers THEN VerifierFor(provider.make)
                                             ELSE provider.make
        back == FromCoseKey(make, out.key)
    IN /\ ~ raw => (out.ok <=> ~ (provider.make = "RingSigner" /\ provider.alg \in RsaAlg))
       /\ out.ok => /\ back.ok /\ Same(provider, back.provider)
                    /\ \A op \in Purpose(make) :
                         make = provider.make =>
                           (Performs(back.provider, op) <=> Performs(provider, op))

(* What a backend is given for an RSA key are exactly the key's numbers,   *)
(* in their order and in the one form DER allows, whatever their lengths   *)
(* and leading zeros; and n and e come back from every public key document *)
(* as the shortest byte strings for those numbers, never from one that is  *)
(* cut off or followed by anything (crypto.rs:565-583, 766-776, 941-1059). *)
RsaKeysSurviveDer ==
  provider # None /\ provider.alg \in RsaAlg => NumbersSurviveDer

(* A set read from the wire holds the keys that are readable there, all of *)
(* them and in their order, so a lookup neither misses a good key because  *)
(* of a bad one nor finds a key nobody sent; and what a set encodes, both  *)
(* decoders read back as that very set (key.rs:330-384).                   *)
SetsTravelWhole ==
  /\ origin \in {"lenient", "strict"} =>
       /\ \A kid \in Kid :
            Lookup(keys, kid) = {wire[i].key : i \in
                                   {j \in DOMAIN wire : /\ ReadMember(wire[j])
                                                        /\ wire[j].key["kid"] = kid}}
       /\ \A i \in DOMAIN keys : ValidKey(keys[i])
       /\ origin = "strict" => FromSlice(wire).keys = keys
  /\ origin = "sent" =>
       \A read \in {FromSlice(wire), FromSliceStrict(wire)} :
         read = [ok |-> TRUE, keys |-> keys]
=============================================================================
