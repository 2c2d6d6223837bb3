----------------------------- MODULE Recipients -----------------------------
(***************************************************************************)
(* The recipients of a COSE_Mac or COSE_Encrypt message                    *)
(* (src/src/recipient.rs): layers of COSE_recipient structures, each of    *)
(* which may hold a further layer.                                         *)
(*                                                                         *)
(* All recipients of a message together are a function from paths to       *)
(* nodes: <<2>> is the second recipient of the message, <<2, 1>> the first *)
(* one nested in it.  What the code does by recursion over the tree is     *)
(* then said of every path.                                                *)
(***************************************************************************)
EXTENDS CoseHeader, FiniteSets

CONSTANTS
  AlgorithmClass,      \* the class of each algorithm, None if not known
  Ephemeral,           \* the ECDH algorithms with an ephemeral sender key
  ByteString,          \* header values: a byte string, the empty one, and
  EmptyString,         \*   an integer
  IntegerValue,
  MaxRecipientDepth,   \* MAX_RECIPIENT_DEPTH
  ParserDepth          \* levels the strict parser has for a message's array

ClassName ==
  {"Direct", "DirectKeyDerivation", "KeyWrap", "KeyTransport",
   "DirectKeyAgreement", "KeyAgreementWithKeyWrap"}

ASSUME RecipientConstants ==
  /\ AlgorithmClass \in [Alg -> ClassName \cup {None}]
  /\ Ephemeral \subseteq Alg
  /\ {"salt", "nonce", "ephemeral", "static", "static_id"} \subseteq Label
  /\ {ByteString, EmptyString, IntegerValue} \subseteq HeaderValue
  /\ MaxRecipientDepth \in Nat /\ ParserDepth \in Nat
  /\ ParserDepth <= 2 * MaxRecipientDepth + 3

(* The encrypted key: absent, zero-length, or some bytes.                  *)
KeyCiphertext == {"absent", "empty", "key"}

Recipient ==
  [protected : Header, unprotected : Header, ciphertext : KeyCiphertext,
   protected_raw : ProtectedRaw \cup {None}]

WireRecipient ==
  [protected : ProtectedRaw, unprotected : Header, ciphertext : KeyCiphertext]

Parent(path) == SubSeq(path, 1, Len(path) - 1)
LayerOf(rs, path) == {q \in DOMAIN rs : Parent(q) = path}
NoRecipients == << >>

Tree(rs) ==
  /\ IsFiniteSet(DOMAIN rs)
  /\ \A path \in DOMAIN rs :
       /\ path \in Seq(Nat \ {0}) /\ path # << >>
       /\ Parent(path) \in DOMAIN rs \cup {<< >>}
Forest(rs) == rs \in [DOMAIN rs -> Recipient] /\ Tree(rs)
WireForest(ws) == ws \in [DOMAIN ws -> WireRecipient] /\ Tree(ws)

-----------------------------------------------------------------------------
(* The keys of ECDH senders.                                               *)

(* A COSE_Key: of the coordinates, whether they have the curve's length.   *)
Ec2Curve == {"P-256", "P-384", "P-521"}
OkpCurve == {"X25519", "X448"}
EcdhKey ==
  [kty : {"EC2", "OKP", "other"}, crv : Ec2Curve \cup OkpCurve \cup {"other"},
   x : {"absent", "full", "short"}, y : {"absent", "full", "short", "sign"},
   private : BOOLEAN, ops : BOOLEAN, alg : Alg \cup {None}]

ValidateEcdhPublicKey(key, alg) ==
  /\ key.alg \in {None, alg}
  /\ ~ key.ops /\ ~ key.private
  /\ \/ key.kty = "EC2" /\ key.crv \in Ec2Curve
     \/ key.kty = "OKP" /\ key.crv \in OkpCurve
  /\ key.x = "full"
  /\ key.kty = "EC2" => key.y \in {"full", "sign"}

HeaderOf(r, l) ==
  IF r.protected[l] # None THEN r.protected[l] ELSE r.unprotected[l]

(* require_salt_or_party_u_nonce                                           *)
HasSaltOrNonce(r) ==
  LET salt == HeaderOf(r, "salt")
      nonce == HeaderOf(r, "nonce")
  IN /\ salt \in {None, ByteString, EmptyString}
     /\ nonce \in {None, ByteString, EmptyString, IntegerValue}
     /\ salt = ByteString \/ nonce \in {ByteString, IntegerValue}

(* require_sender_key                                                      *)
HasSenderKey(r) ==
  LET alg == DeclaredAlg(r)
      Valid(key) == key \in EcdhKey /\ ValidateEcdhPublicKey(key, alg)
      static == HeaderOf(r, "static")
      static_id == HeaderOf(r, "static_id")
  IN IF alg \in Ephemeral THEN Valid(HeaderOf(r, "ephemeral"))
     ELSE /\ {static, static_id} # {None}
          /\ static # None => Valid(static)
          /\ static_id \in {None, ByteString, EmptyString}
          /\ HasSaltOrNonce(r)

-----------------------------------------------------------------------------
(* Validation.                                                             *)
ClassOf(r) ==
  IF DeclaredAlg(r) \in Alg THEN AlgorithmClass[DeclaredAlg(r)] ELSE None

(* validate_recipient_layer_rules: these keep their layer to themselves.   *)
Alone == {"Direct", "DirectKeyDerivation", "DirectKeyAgreement"}
ValidateLayerRules(rs, path) ==
  Cardinality(LayerOf(rs, path)) > 1 =>
    \A q \in LayerOf(rs, path) : ClassOf(rs[q]) \notin Alone

(* Recipient::validate_local                                               *)
ValidateLocal(rs, path) ==
  LET r == rs[path]
      class == ClassOf(r)
  IN /\ ValidateHeaderBuckets(r)
     /\ r.protected_raw # None =>
          ValidateProtectedState(r.protected, r.protected_raw)
     /\ DeclaredAlg(r) # None
     /\ class \in {"Direct", "KeyWrap", "KeyTransport"} =>
          Present(r.protected) = {}
     /\ class \in Alone => r.ciphertext = "empty"
     /\ class \in ClassName \ Alone => r.ciphertext = "key"
     /\ class \in Alone \cup {"KeyTransport"} => LayerOf(rs, path) = {}
     /\ class = "DirectKeyDerivation" => HasSaltOrNonce(r)
     /\ class \in {"DirectKeyAgreement", "KeyAgreementWithKeyWrap"} =>
          HasSenderKey(r)
     /\ ValidateLayerRules(rs, path)

(* validate_message_recipients                                             *)
ValidateRecipients(rs) ==
  /\ DOMAIN rs # {}
  /\ \A path \in DOMAIN rs :
       /\ Len(path) - 1 <= MaxRecipientDepth
       /\ ValidateLocal(rs, path)
  /\ ValidateLayerRules(rs, << >>)

-----------------------------------------------------------------------------
(* The wire form of a node holds the bytes of its protected header.        *)

\* Faulty variant: encodes the header anew although its bytes are known.
EncodedNode_Reencodes(r) ==
  [protected |-> EncodeProtected(r.protected), unprotected |-> r.unprotected,
   ciphertext |-> r.ciphertext]

(* Recipient's Serialize                                                   *)
EncodedNode(r) ==
  [protected |-> IF r.protected_raw # None THEN r.protected_raw
                 ELSE EncodeProtected(r.protected),
   unprotected |-> r.unprotected, ciphertext |-> r.ciphertext]
EncodedRecipients(rs) == [path \in DOMAIN rs |-> EncodedNode(rs[path])]

(* Recipient's Deserialize, which remembers the bytes.                     *)
DecodedNode(w) ==
  [protected |-> DecodeProtected(w.protected), unprotected |-> w.unprotected,
   ciphertext |-> w.ciphertext, protected_raw |-> w.protected]
DecodedRecipients(ws) == [path \in DOMAIN ws |-> DecodedNode(ws[path])]

(* How deep the parser must go for a recipient: two levels for each layer, *)
(* its fields, what the unprotected header holds, the members of a key.    *)
HeaderDepth(h) ==
  IF Present(h) = {} THEN 0
  ELSE IF \A l \in Present(h) : h[l] \notin EcdhKey THEN 1 ELSE 2
FitsParser(ws) ==
  \A path \in DOMAIN ws :
    2 * Len(path) + 1 + HeaderDepth(ws[path].unprotected) <= ParserDepth

(* What the strict parser, Recipient's Deserialize and then                *)
(* validate_decoded_recipients accept; no limit on layers of its own.      *)
CanDecodeRecipients(ws) ==
  /\ FitsParser(ws)
  /\ DOMAIN ws # {}
  /\ \A path \in DOMAIN ws :
       /\ Decodable(ws[path].protected)
       /\ ValidateLocal(DecodedRecipients(ws), path)
  /\ ValidateLayerRules(DecodedRecipients(ws), << >>)

-----------------------------------------------------------------------------
(* For the properties: what a reader sees of recipients, and whether they  *)
(* are within the depth of a parser.                                       *)
Seen(rs) ==
  [path \in DOMAIN rs |-> <<rs[path].protected, rs[path].unprotected,
                            rs[path].ciphertext>>]
Readable(rs) == FitsParser(EncodedRecipients(rs))
=============================================================================
