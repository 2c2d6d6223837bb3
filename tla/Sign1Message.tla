---------------------------- MODULE Sign1Message ----------------------------
(***************************************************************************)
(* The life of a COSE_Sign1 message object (src/src/sign1.rs): built or    *)
(* decoded, prepared, signed in process or by a remote service, edited     *)
(* through its public fields at any moment, encoded and verified.          *)
(*                                                                         *)
(* A signature is ideal: only the holder of a key makes one, and it        *)
(* records what was signed.  Remote signing requests stay outstanding in   *)
(* "requests": an answer may come late, twice, out of order or never.      *)
(* Each method that changes the message is an operator from the message    *)
(* to the Rust result and the message it leaves.                           *)
(***************************************************************************)
EXTENDS CoseHeader, FiniteSets

CONSTANTS
  Payload,           \* payload byte strings
  Aad,               \* external additional authenticated data
  Key,               \* signing keys
  Signer,            \* records [key, alg, kid]: the Signer implementations
  Verifier,          \* records [key, alg, understood]: the Verifier ones
  ProtectedEdit,     \* headers the application writes to the protected field
  UnprotectedEdit,   \* headers it writes to the unprotected field
  ForeignRaw,        \* protected byte strings of messages from elsewhere
  MaxRequests        \* bound: remote signing requests outstanding at once

ASSUME Sign1Constants ==
  /\ Signer \subseteq [key : Key, alg : Alg \cup {None}, kid : Kid \cup {None}]
  /\ Verifier \subseteq
       [key : Key, alg : Alg \cup {None}, understood : SUBSET Label]
  /\ ProtectedEdit \cup UnprotectedEdit \subseteq Header
  /\ ForeignRaw \subseteq ProtectedRaw
  /\ None \notin Payload
  /\ MaxRequests \in Nat

VARIABLES
  msg,       \* the message object
  requests   \* Sig_structures handed to the remote signer

vars == <<msg, requests>>

SigStructure == {"Signature1"} \X ProtectedRaw \X Aad \X Payload
Signature == [by : Key, over : SigStructure]
ASSUME NoneIsNoSignature == None \notin Signature

Message ==
  [protected : Header, unprotected : Header, payload : Payload \cup {None},
   signature : Signature \cup {None}, protected_raw : ProtectedRaw,
   state : State]

ToBeSigned(raw, aad, payload) == <<"Signature1", raw, aad, payload>>
Sig(key, tbs) == [by |-> key, over |-> tbs]

-----------------------------------------------------------------------------
(* Sign1Message::new                                                       *)
New(payload) ==
  [protected |-> EmptyHeader, unprotected |-> EmptyHeader,
   payload |-> payload, signature |-> None,
   protected_raw |-> EncodeProtected(EmptyHeader), state |-> "New"]

\* Faulty variant: encodes the protected bytes before alg is filled in.
PrepareSignatureHeaders_EncodesFirst(m, alg, kid) ==
  LET h == PrepareHeaders(m, alg, kid)
  IN IF h.ok THEN Ok([h.msg EXCEPT !.signature = None, !.state = "Prepared",
                        !.protected_raw = EncodeProtected(m.protected)])
             ELSE h

PrepareSignatureHeaders(m, alg, kid) ==
  LET h == PrepareHeaders(m, alg, kid)
  IN IF h.ok THEN Ok([h.msg EXCEPT !.signature = None, !.state = "Prepared",
                        !.protected_raw = EncodeProtected(h.msg.protected)])
             ELSE h

(* Preparation for an external signer.  The embedded form notices a        *)
(* missing payload only after the headers were prepared, the detached form *)
(* drops the embedded payload at the end.                                  *)
PrepareEmbedded(m, alg, kid) ==
  LET p == PrepareSignatureHeaders(m, alg, kid)
  IN [p EXCEPT !.ok = @ /\ m.payload # None]

PrepareDetached(m, alg, kid) ==
  LET p == PrepareSignatureHeaders(m, alg, kid)
  IN IF p.ok THEN Ok([p.msg EXCEPT !.payload = None]) ELSE p

(* set_signature: the message cannot know which request sig answers.       *)
SetSig(m, sig) ==
  LET s == SyncProtectedRaw(m)
  IN IF s.ok THEN Ok([s.msg EXCEPT !.signature = sig, !.state = "Complete"])
             ELSE s

(* sign and sign_detached; "available" is whether Signer::sign returns Ok. *)
SignEmbedded(m, s, aad, available) ==
  LET p == PrepareEmbedded(m, s.alg, s.kid)
      tbs == ToBeSigned(p.msg.protected_raw, aad, p.msg.payload)
  IN IF ~ p.ok THEN p
     ELSE IF ~ available THEN Err(p.msg)
     ELSE Ok([p.msg EXCEPT !.signature = Sig(s.key, tbs),
                           !.state = "Complete"])

SignDetached(m, s, payload, aad, available) ==
  LET p == PrepareSignatureHeaders(m, s.alg, s.kid)
      tbs == ToBeSigned(p.msg.protected_raw, aad, payload)
  IN IF ~ p.ok THEN p
     ELSE IF ~ available THEN Err(p.msg)
     ELSE Ok([p.msg EXCEPT !.signature = Sig(s.key, tbs),
                           !.state = "Complete", !.payload = None])

-----------------------------------------------------------------------------
(* The wire array, without its tags.                                       *)
WireOf(m) == [protected |-> m.protected_raw, unprotected |-> m.unprotected,
              payload |-> m.payload, signature |-> m.signature]

\* Faulty variant: does not recheck the public headers before encoding.
CanEncode_Unchecked(m) == m.state = "Complete"

(* encode: whether to_vec and its siblings return Ok (with WireOf(m)).     *)
CanEncode(m) == m.state = "Complete" /\ ValidateLayer(m)

(* from_slice, on an array the strict parser accepted.                     *)
Decoded(w) ==
  [protected |-> DecodeProtected(w.protected), unprotected |-> w.unprotected,
   payload |-> w.payload, signature |-> w.signature,
   protected_raw |-> w.protected, state |-> "Complete"]

CanDecode(w) ==
  /\ Decodable(w.protected)
  /\ ValidateHeaderBuckets(Decoded(w))

-----------------------------------------------------------------------------
(* Verification by a Verifier v, with ideal signatures.                    *)

\* Faulty variant: authenticates a fresh encoding of the view.
VerifyPayload_Reencodes(m, v, aad, payload) ==
  /\ ValidateLayer(m)
  /\ EnsureCritUnderstood(m.protected, v.understood)
  /\ CheckProtectedAlg(m, v.alg)
  /\ m.signature =
       Sig(v.key, ToBeSigned(EncodeProtected(m.protected), aad, payload))

VerifyPayload(m, v, aad, payload) ==
  /\ ValidateLayer(m)
  /\ EnsureCritUnderstood(m.protected, v.understood)
  /\ CheckProtectedAlg(m, v.alg)
  /\ m.signature = Sig(v.key, ToBeSigned(m.protected_raw, aad, payload))

Verify(m, v, aad) ==
  /\ m.state = "Complete"
  /\ m.payload # None
  /\ VerifyPayload(m, v, aad, m.payload)

VerifyDetached(m, v, payload, aad) ==
  /\ m.state = "Complete"
  /\ m.payload = None
  /\ VerifyPayload(m, v, aad, payload)

(* verify_and_decode, the one-step form                                    *)
VerifyAndDecode(w, v, aad) == CanDecode(w) /\ Verify(Decoded(w), v, aad)
VerifyDetachedAndDecode(w, v, payload, aad) ==
  CanDecode(w) /\ VerifyDetached(Decoded(w), v, payload, aad)

-----------------------------------------------------------------------------
(* Actions.                                                                *)
Init == (\E p \in Payload \cup {None} : msg = New(p)) /\ requests = {}

NewMessage ==
  /\ \E p \in Payload \cup {None} : msg' = New(p)
  /\ UNCHANGED requests

(* Writes to the public fields.                                            *)
EditProtected ==
  /\ \E h \in ProtectedEdit : msg' = [msg EXCEPT !.protected = h]
  /\ UNCHANGED requests

EditUnprotected ==
  /\ \E h \in UnprotectedEdit : msg' = [msg EXCEPT !.unprotected = h]
  /\ UNCHANGED requests

EditPayload ==
  /\ \E p \in Payload \cup {None} : msg' = [msg EXCEPT !.payload = p]
  /\ UNCHANGED requests

(* Hands tbs to the remote signer of the key.                              *)
Ask(key, tbs) ==
  /\ requests' = requests \cup {[key |-> key, tbs |-> tbs]}
  /\ Cardinality(requests') <= MaxRequests

PrepareSignature ==
  \E s \in Signer, aad \in Aad :
    LET p == PrepareEmbedded(msg, s.alg, s.kid)
    IN /\ MaxRequests > 0
       /\ msg' = p.msg
       /\ IF p.ok THEN Ask(s.key, ToBeSigned(p.msg.protected_raw, aad,
                                             p.msg.payload))
                  ELSE UNCHANGED requests

PrepareDetachedSignature ==
  \E s \in Signer, aad \in Aad, payload \in Payload :
    LET p == PrepareDetached(msg, s.alg, s.kid)
    IN /\ MaxRequests > 0
       /\ msg' = p.msg
       /\ IF p.ok THEN Ask(s.key, ToBeSigned(p.msg.protected_raw, aad,
                                             payload))
                  ELSE UNCHANGED requests

(* A remote answer is stored; the request stays, so that the answer can be *)
(* delivered again.  None is an empty signature passed by the caller.      *)
Answers == {Sig(r.key, r.tbs) : r \in requests}

SetSignature ==
  /\ MaxRequests > 0
  /\ \E sig \in Answers \cup {None} : msg' = SetSig(msg, sig).msg
  /\ UNCHANGED requests

(* The remote call is lost, or its caller gives up on it.                  *)
LoseRequest ==
  /\ \E r \in requests : requests' = requests \ {r}
  /\ UNCHANGED msg

Sign ==
  /\ \E s \in Signer, aad \in Aad, available \in BOOLEAN :
       msg' = SignEmbedded(msg, s, aad, available).msg
  /\ UNCHANGED requests

SignDetachedPayload ==
  /\ \E s \in Signer, aad \in Aad, p \in Payload, available \in BOOLEAN :
       msg' = SignDetached(msg, s, p, aad, available).msg
  /\ UNCHANGED requests

(* Messages signed elsewhere over bytes this crate would not have chosen.  *)
ForeignWire ==
  {[protected |-> raw, unprotected |-> EmptyHeader, payload |-> p,
    signature |-> Sig(s.key, ToBeSigned(raw, aad, p))] :
      raw \in ForeignRaw, p \in Payload, s \in Signer, aad \in Aad}

Wires == ForeignWire \cup (IF CanEncode(msg) THEN {WireOf(msg)} ELSE {})

FromSlice ==
  /\ \E w \in Wires : CanDecode(w) /\ msg' = Decoded(w)
  /\ UNCHANGED requests

Next ==
  \/ NewMessage
  \/ EditProtected
  \/ EditUnprotected
  \/ EditPayload
  \/ PrepareSignature
  \/ PrepareDetachedSignature
  \/ SetSignature
  \/ LoseRequest
  \/ Sign
  \/ SignDetachedPayload
  \/ FromSlice

Spec == Init /\ [][Next]_vars

-----------------------------------------------------------------------------
(* Type correctness: the fields of the message object and the requests     *)
(* handed to the remote signer (sign1.rs, struct Sign1Message).            *)
TypeOK ==
  /\ msg \in Message
  /\ requests \subseteq [key : Key, tbs : SigStructure]

(* The private fields agree with the state: a message that was never       *)
(* prepared has neither bytes nor a signature, a prepared one has          *)
(* canonical bytes and never carries the signature of an earlier           *)
(* preparation, and the stored bytes always decode to a valid header.      *)
LifecycleOK ==
  /\ msg.state = "New" =>
       /\ msg.signature = None
       /\ msg.protected_raw = EncodeProtected(EmptyHeader)
  /\ msg.state = "Prepared" =>
       /\ msg.signature = None
       /\ msg.protected_raw.canon
  /\ Decodable(msg.protected_raw)

(* The signature stored in m was made by v's key over bytes that decode to *)
(* the header the caller sees, whose critical labels v understands and     *)
(* whose algorithm, if v states one, is v's.                               *)
SignedAsSeen(m, v, aad, payload) ==
  /\ m.signature # None
  /\ m.signature.by = v.key
  /\ LET tbs == m.signature.over
         signed == DecodeProtected(tbs[2])
     IN /\ signed = m.protected
        /\ tbs[3] = aad /\ tbs[4] = payload
        /\ EnsureCritUnderstood(signed, v.understood)
        /\ Get(signed, "alg") \in {None, v.alg} \/ v.alg = None

(* Whatever verify or verify_detached accepts was signed exactly as the    *)
(* caller reads it: a late answer to an older preparation, a header edited *)
(* after signing or a payload replaced after signing is never accepted.    *)
AcceptedIsWhatWasSigned ==
  \A v \in Verifier, aad \in Aad :
    /\ Verify(msg, v, aad) => SignedAsSeen(msg, v, aad, msg.payload)
    /\ \A p \in Payload :
         VerifyDetached(msg, v, p, aad) => SignedAsSeen(msg, v, aad, p)

(* v has the key and the abilities that the signed message m asks for.     *)
Suits(v, key, m) ==
  /\ v.key = key
  /\ CheckProtectedAlg(m, v.alg)
  /\ EnsureCritUnderstood(m.protected, v.understood)

(* From every state a call to sign or sign_detached that returns Ok leaves *)
(* a message that encodes, decodes and verifies for the signer's key, and  *)
(* in the detached case carries no payload on the wire.                    *)
SignThenVerify ==
  \A s \in Signer, aad \in Aad :
    /\ LET r == SignEmbedded(msg, s, aad, TRUE)
       IN r.ok => /\ CanEncode(r.msg)
                  /\ \A v \in Verifier : Suits(v, s.key, r.msg) =>
                       VerifyAndDecode(WireOf(r.msg), v, aad)
    /\ \A p \in Payload :
         LET r == SignDetached(msg, s, p, aad, TRUE)
         IN r.ok => /\ CanEncode(r.msg) /\ WireOf(r.msg).payload = None
                    /\ \A v \in Verifier : Suits(v, s.key, r.msg) =>
                         VerifyDetachedAndDecode(WireOf(r.msg), v, p, aad)

(* A message that encodes decodes to itself, private fields included.      *)
EncodeDecodeIdentity ==
  CanEncode(msg) => /\ CanDecode(WireOf(msg))
                    /\ Decoded(WireOf(msg)) = msg

(* A message signed elsewhere, decoded and not edited since, is verified   *)
(* over the very bytes that were signed, canonical or not: no signature    *)
(* that holds is refused for the way its header was encoded.               *)
ForeignBytesKept ==
  \A w \in {x \in ForeignWire : msg = Decoded(x)}, v \in Verifier :
    Suits(v, w.signature.by, msg) => Verify(msg, v, w.signature.over[3])

(* The message implements the promise of an authenticated layer.           *)
BytesDenote(raw, view) == DecodeProtected(raw) = view
BytesFresh(raw, view) == raw = EncodeProtected(view)
SignatureCovers(sig, raw) == sig # None /\ sig.over[2] = raw

Layer == INSTANCE AuthLayer WITH
  NoResult <- None, Start <- EmptyHeader, Denotes <- BytesDenote,
  Fresh <- BytesFresh, Covers <- SignatureCovers,
  view <- msg.protected, bytes <- msg.protected_raw,
  result <- msg.signature, phase <- msg.state

ImplementsAuthLayer == Layer!Spec
=============================================================================
