---------------------------- MODULE EncryptMessage ----------------------------
(***************************************************************************)
(* The life of a COSE_Encrypt0 or COSE_Encrypt message object              *)
(* (src/src/encrypt0.rs, src/src/encrypt.rs).  The plaintext is a public   *)
(* field, the ciphertext a private one, which may be embedded in the       *)
(* encoded message or travel apart from it.  A COSE_Encrypt message also   *)
(* has recipients, which whoever makes it validates before anything else   *)
(* and which the ciphertext does not cover.  The field context tells the   *)
(* two kinds apart.                                                        *)
(*                                                                         *)
(* A ciphertext is ideal: it records the key, the nonce, the additional    *)
(* data and the plaintext, and opens only with the first three.  Whatever  *)
(* travels apart from a message - the answer of a remote AEAD service or a *)
(* detached ciphertext - is in "transit", where it may arrive late, twice, *)
(* with the wrong message, or never.                                       *)
(***************************************************************************)
EXTENDS CoseNonce, Recipients

CONSTANTS
  Payload,           \* plaintext byte strings
  Aad,               \* external additional authenticated data
  Key,               \* content-encryption keys
  Encryptor,         \* records [key, alg, kid, nonce_size, base_iv, understood]
  ProtectedEdit,     \* headers the application writes to the protected field
  UnprotectedEdit,   \* headers it writes to the unprotected field
  RecipientsEdit,    \* recipients it gives a message
  RecipientEdit,     \* headers it writes to a recipient's protected field
  ForeignRecipients, \* recipients of messages from elsewhere
  ForeignRaw,        \* protected byte strings of messages from elsewhere
  MaxTransit         \* bound: ciphertexts in transit at once

ASSUME EncryptConstants ==
  /\ \A e \in Encryptor :
       /\ e.key \in Key /\ e.alg \in Alg \cup {None}
       /\ e.kid \in Kid \cup {None} /\ e.nonce_size \in Nat
       /\ e.base_iv \in NonceBytes \cup {None}
       /\ e.understood \subseteq Label
  /\ ProtectedEdit \cup UnprotectedEdit \cup RecipientEdit \subseteq Header
  /\ \A rs \in RecipientsEdit : Forest(rs)
  /\ \A ws \in ForeignRecipients : WireForest(ws)
  /\ ForeignRaw \subseteq ProtectedRaw
  /\ None \notin Payload
  /\ MaxTransit \in Nat

VARIABLES
  msg,      \* the message object
  transit   \* ciphertexts outside any message

vars == <<msg, transit>>

Context == {"Encrypt0", "Encrypt"}
EncStructure == Context \X ProtectedRaw \X Aad
NonceValue == HeaderValue \cup Seq(Byte)
Ciphertext ==
  [by : Key, nonce : NonceValue, aad : EncStructure, plain : Payload]
ASSUME NoneIsNoCiphertext == None \notin Ciphertext \cup ProtectedRaw

Message(recipients) ==
  [context : Context, protected : Header, unprotected : Header,
   payload : Payload \cup {None}, ciphertext : Ciphertext \cup {None},
   ciphertext_detached : BOOLEAN, recipients : {recipients},
   protected_raw : ProtectedRaw, state : State]
IsMessage(m) ==
  /\ m \in Message(m.recipients)
  /\ Forest(m.recipients)
  /\ m.context = "Encrypt0" => m.recipients = NoRecipients

ToBeEncrypted(m, aad) == <<m.context, m.protected_raw, aad>>

(* Encryptor::encrypt and Encryptor::decrypt, ideally.                     *)
Seal(key, nonce, aad, plain) ==
  [by |-> key, nonce |-> nonce, aad |-> aad, plain |-> plain]
Opens(ct, key, nonce, aad) ==
  ct # None /\ ct.by = key /\ ct.nonce = nonce /\ ct.aad = aad

-----------------------------------------------------------------------------
RecipientsOk(m) == m.context = "Encrypt" => ValidateRecipients(m.recipients)

(* Encrypt0Message::new and EncryptMessage::new                            *)
New(context, payload) ==
  [context |-> context, protected |-> EmptyHeader,
   unprotected |-> EmptyHeader, payload |-> payload,
   recipients |-> NoRecipients, ciphertext |-> None,
   ciphertext_detached |-> FALSE,
   protected_raw |-> EncodeProtected(EmptyHeader), state |-> "New"]

Encrypting(m) ==
  [m EXCEPT !.protected_raw = EncodeProtected(m.protected),
            !.state = "Prepared", !.ciphertext = None,
            !.ciphertext_detached = FALSE]
HasNonce(m, e) == Nonce(m, e.nonce_size, e.base_iv) # None

\* Faulty variant: recipients are left to encode.
PrepareEncryption_AnyRecipients(m, e) ==
  LET h == PrepareHeaders(m, e.alg, e.kid)
  IN IF h.ok /\ m.payload # None /\ HasNonce(h.msg, e)
     THEN Ok(Encrypting(h.msg)) ELSE Err(h.msg)

(* prepare_encryption: after the recipients are validated the headers are  *)
(* written; a missing plaintext or nonce ends the call before the bytes,   *)
(* the state and the ciphertext are touched.                               *)
PrepareEncryption(m, e) ==
  LET h == PrepareHeaders(m, e.alg, e.kid)
  IN IF ~ RecipientsOk(m) THEN Err(m)
     ELSE IF h.ok /\ m.payload # None /\ HasNonce(h.msg, e)
     THEN Ok(Encrypting(h.msg)) ELSE Err(h.msg)

(* What e makes of the prepared message p.                                 *)
SealedBy(p, e, aad) ==
  Seal(e.key, Nonce(p, e.nonce_size, e.base_iv),
       ToBeEncrypted(p, aad), p.payload)

SetCt(m, ct, detached) ==
  LET s == SyncProtectedRaw(m)
  IN IF ~ RecipientsOk(m) THEN Err(m)
     ELSE IF s.ok
     THEN Ok([s.msg EXCEPT !.ciphertext = ct, !.state = "Complete",
                           !.ciphertext_detached = detached])
     ELSE s

(* encrypt; "available" is whether Encryptor::encrypt returns Ok.          *)
Encrypted(m, e, aad, available) ==
  LET p == PrepareEncryption(m, e)
  IN IF ~ p.ok THEN p
     ELSE IF ~ available THEN Err(p.msg)
     ELSE Ok([p.msg EXCEPT !.ciphertext = SealedBy(p.msg, e, aad),
                           !.state = "Complete"])

EncryptedDetached(m, e, aad, available) ==
  LET r == Encrypted(m, e, aad, available)
  IN IF r.ok THEN Ok([r.msg EXCEPT !.ciphertext_detached = TRUE]) ELSE r

-----------------------------------------------------------------------------
(* The wire array: a detached ciphertext is nil on the wire.               *)
WireOf(m) ==
  [context |-> m.context, protected |-> m.protected_raw,
   unprotected |-> m.unprotected, nil |-> m.ciphertext_detached,
   ciphertext |-> IF m.ciphertext_detached THEN None ELSE m.ciphertext,
   recipients |-> EncodedRecipients(m.recipients)]

CanEncode(m) ==
  /\ m.state = "Complete"
  /\ RecipientsOk(m)
  /\ ValidateLayer(m)

(* What encrypt_detached_and_encode makes of the result d of               *)
(* encrypt_detached: mem::take moves the ciphertext out of the message,    *)
(* which stays complete.                                                   *)
TakenAndEncoded(d) ==
  IF ~ d.ok THEN d
  ELSE IF ~ CanEncode(d.msg) THEN Err(d.msg)
  ELSE Ok([d.msg EXCEPT !.ciphertext = None])

Decoded(w) ==
  [context |-> w.context, protected |-> DecodeProtected(w.protected),
   unprotected |-> w.unprotected, payload |-> None,
   recipients |-> DecodedRecipients(w.recipients),
   ciphertext |-> w.ciphertext, ciphertext_detached |-> w.nil,
   protected_raw |-> w.protected, state |-> "Complete"]

CanDecode(w) ==
  /\ w.context = "Encrypt" => CanDecodeRecipients(w.recipients)
  /\ Decodable(w.protected)
  /\ ValidateHeaderBuckets(Decoded(w))

-----------------------------------------------------------------------------
(* Decryption.                                                             *)

(* prepare_decryption_with_crit                                            *)
PrepareDecryption(m, e) ==
  /\ m.state = "Complete"
  /\ ValidateLayer(m)
  /\ EnsureCritUnderstood(m.protected, e.understood)
  /\ CheckProtectedAlg(m, e.alg)
  /\ Nonce(m, e.nonce_size, e.base_iv) # None

CanOpen(m, e, ct, aad) ==
  /\ PrepareDecryption(m, e)
  /\ Opens(ct, e.key, Nonce(m, e.nonce_size, e.base_iv),
           ToBeEncrypted(m, aad))

Decrypted(m, e, aad) ==
  IF ~ m.ciphertext_detached /\ CanOpen(m, e, m.ciphertext, aad)
  THEN Ok([m EXCEPT !.payload = m.ciphertext.plain]) ELSE Err(m)

\* Faulty variant: stores the detached ciphertext before it is opened.
DecryptedDetached_StoresFirst(m, e, ct, aad) ==
  IF ~ m.ciphertext_detached \/ ~ PrepareDecryption(m, e) THEN Err(m)
  ELSE IF CanOpen(m, e, ct, aad)
  THEN Ok([m EXCEPT !.ciphertext = ct, !.payload = ct.plain])
  ELSE Err([m EXCEPT !.ciphertext = ct])

(* decrypt_detached keeps the ciphertext it was given once it opened.      *)
DecryptedDetached(m, e, ct, aad) ==
  IF m.ciphertext_detached /\ CanOpen(m, e, ct, aad)
  THEN Ok([m EXCEPT !.ciphertext = ct, !.payload = ct.plain]) ELSE Err(m)

(* decrypt_and_decode and decrypt_detached_and_decode: what they return.   *)
DecryptAndDecode(w, e, aad) ==
  IF CanDecode(w) THEN Decrypted(Decoded(w), e, aad) ELSE Err(None)
DecryptDetachedAndDecode(w, e, ct, aad) ==
  IF CanDecode(w) THEN DecryptedDetached(Decoded(w), e, ct, aad) ELSE Err(None)

-----------------------------------------------------------------------------
(* Actions.                                                                *)
Init ==
  /\ \E c \in Context, p \in Payload \cup {None} : msg = New(c, p)
  /\ transit = {}

NewMessage ==
  /\ \E c \in Context, p \in Payload \cup {None} : msg' = New(c, p)
  /\ UNCHANGED transit

EditProtected ==
  /\ \E h \in ProtectedEdit : msg' = [msg EXCEPT !.protected = h]
  /\ UNCHANGED transit

EditUnprotected ==
  /\ \E h \in UnprotectedEdit : msg' = [msg EXCEPT !.unprotected = h]
  /\ UNCHANGED transit

EditPayload ==
  /\ \E p \in Payload \cup {None} : msg' = [msg EXCEPT !.payload = p]
  /\ UNCHANGED transit

SetRecipients ==
  /\ msg.context = "Encrypt"
  /\ \E rs \in RecipientsEdit : msg' = [msg EXCEPT !.recipients = rs]
  /\ UNCHANGED transit

(* A recipient's own public fields, beside the bytes a decoded one keeps.  *)
EditRecipient ==
  /\ \E path \in DOMAIN msg.recipients, h \in RecipientEdit :
       msg' = [msg EXCEPT !.recipients[path].protected = h]
  /\ UNCHANGED transit

Send(ct) ==
  /\ transit' = transit \cup {ct}
  /\ Cardinality(transit') <= MaxTransit

(* The context goes to the remote AEAD service, whose answer is in transit *)
(* from then on.                                                           *)
Prepare ==
  \E e \in Encryptor, aad \in Aad :
    LET p == PrepareEncryption(msg, e)
    IN /\ msg' = p.msg
       /\ IF p.ok THEN Send(SealedBy(p.msg, e, aad)) ELSE UNCHANGED transit

(* The message cannot know which request ct answers; None is an empty      *)
(* ciphertext passed by the caller.                                        *)
SetCiphertext ==
  /\ \E ct \in transit \cup {None}, detached \in BOOLEAN :
       msg' = SetCt(msg, ct, detached).msg
  /\ UNCHANGED transit

LoseInTransit ==
  /\ \E ct \in transit : transit' = transit \ {ct}
  /\ UNCHANGED msg

Encrypt ==
  /\ \E e \in Encryptor, aad \in Aad, available \in BOOLEAN :
       msg' = Encrypted(msg, e, aad, available).msg
  /\ UNCHANGED transit

EncryptDetached ==
  \E e \in Encryptor, aad \in Aad, available \in BOOLEAN :
    LET r == EncryptedDetached(msg, e, aad, available)
    IN /\ msg' = r.msg
       /\ IF r.ok THEN Send(r.msg.ciphertext) ELSE UNCHANGED transit

EncryptDetachedAndEncode ==
  \E e \in Encryptor, aad \in Aad, available \in BOOLEAN :
    \E d \in {EncryptedDetached(msg, e, aad, available)} :
      LET r == TakenAndEncoded(d)
      IN /\ msg' = r.msg
         /\ IF r.ok THEN Send(d.msg.ciphertext) ELSE UNCHANGED transit

Decrypt ==
  /\ \E e \in Encryptor, aad \in Aad : msg' = Decrypted(msg, e, aad).msg
  /\ UNCHANGED transit

DecryptDetached ==
  /\ \E e \in Encryptor, aad \in Aad, ct \in transit :
       msg' = DecryptedDetached(msg, e, ct, aad).msg
  /\ UNCHANGED transit

(* Messages encrypted elsewhere over bytes this crate would not choose.    *)
ForeignMessage(raw, u, p, e, aad, ws) ==
  LET w == [context |-> IF ws = NoRecipients THEN "Encrypt0" ELSE "Encrypt",
            protected |-> raw, unprotected |-> u, nil |-> FALSE,
            ciphertext |-> None, recipients |-> ws]
      m == [Decoded(w) EXCEPT !.payload = p]
  IN [w EXCEPT !.ciphertext = SealedBy(m, e, aad)]
ForeignWire ==
  {w \in {ForeignMessage(raw, u, p, e, aad, ws) :
             raw \in ForeignRaw, u \in UnprotectedEdit, p \in Payload,
             e \in Encryptor, aad \in Aad, ws \in ForeignRecipients} :
     w.ciphertext.nonce # None}

Wires ==
  ForeignWire
    \cup (IF CanEncode(msg) THEN {WireOf(msg)} ELSE {})

FromSlice ==
  /\ \E w \in Wires : CanDecode(w) /\ msg' = Decoded(w)
  /\ UNCHANGED transit

Next ==
  \/ NewMessage \/ EditProtected \/ EditUnprotected \/ EditPayload
  \/ SetRecipients \/ EditRecipient
  \/ Prepare \/ SetCiphertext \/ LoseInTransit
  \/ Encrypt \/ EncryptDetached \/ EncryptDetachedAndEncode
  \/ Decrypt \/ DecryptDetached \/ FromSlice

Spec == Init /\ [][Next]_vars

-----------------------------------------------------------------------------
(* Type correctness: the fields of the message object and the ciphertexts  *)
(* outside it (encrypt.rs, struct EncryptMessage, and encrypt0.rs).        *)
TypeOK ==
  /\ IsMessage(msg)
  /\ transit \subseteq Ciphertext

(* The private fields agree with the state: until an encryption completes  *)
(* there is no ciphertext and nothing is marked detached, so the ciphertext *)
(* of an earlier encryption cannot leave under new headers; prepared bytes *)
(* are canonical and stored bytes always decode to a valid header.         *)
LifecycleOK ==
  /\ msg.state \in {"New", "Prepared"} =>
       /\ msg.ciphertext = None /\ ~ msg.ciphertext_detached
       /\ msg.protected_raw.canon
  /\ msg.state = "New" => msg.protected_raw.hdr = EmptyHeader
  /\ Decodable(msg.protected_raw)

(* The plaintext and ciphertext of m belong together, and the ciphertext   *)
(* was sealed by e's key, under the nonce m's headers denote and over the  *)
(* protected header the caller sees, whose critical labels e understands.  *)
SealedAsSeen(m, e, aad) ==
  LET ct == m.ciphertext
      signed == DecodeProtected(ct.aad[2])
  IN /\ ct # None /\ ct.by = e.key /\ ct.plain = m.payload
     /\ ct.aad[1] = m.context
     /\ ct.nonce = Nonce(m, e.nonce_size, e.base_iv)
     /\ ct.aad[3] = aad /\ signed = m.protected
     /\ EnsureCritUnderstood(signed, e.understood)
     /\ Get(signed, "alg") \in {None, e.alg} \/ e.alg = None

(* decrypt and decrypt_detached are all or nothing: one that returns Ok    *)
(* leaves plaintext and ciphertext that belong together and were sealed    *)
(* under what the caller sees, and one that fails leaves the plaintext and *)
(* the ciphertext of the message as they were.                             *)
DecryptedIsWhatWasSealed ==
  \A e \in Encryptor, aad \in Aad :
    /\ LET r == Decrypted(msg, e, aad)
       IN IF r.ok THEN SealedAsSeen(r.msg, e, aad) ELSE r.msg = msg
    /\ \A ct \in transit :
         LET r == DecryptedDetached(msg, e, ct, aad)
         IN IF r.ok THEN SealedAsSeen(r.msg, e, aad) ELSE r.msg = msg

(* o can open what e sealed for the message m.                             *)
Suits(o, e, m) ==
  /\ o.key = e.key
  /\ Nonce(m, o.nonce_size, o.base_iv) = Nonce(m, e.nonce_size, e.base_iv)
  /\ CheckProtectedAlg(m, o.alg)
  /\ EnsureCritUnderstood(m.protected, o.understood)

(* o opens what it receives as w, whose ciphertext comes apart from it when *)
(* m keeps it detached, and has m's plaintext and headers then.            *)
AsSeen(m) == [m EXCEPT !.recipients = Seen(m.recipients)]
OpensTo(w, o, aad, m) ==
  LET r == IF w.nil THEN DecryptDetachedAndDecode(w, o, m.ciphertext, aad)
                    ELSE DecryptAndDecode(w, o, aad)
  IN r.ok /\ AsSeen(r.msg) = AsSeen(m)

(* From every state an encryption that returns Ok leaves a message that    *)
(* encodes and that a suitable receiver opens to the plaintext; a detached *)
(* ciphertext opens with the encoded message, whether the sender's object  *)
(* keeps it or has moved it out.  (Unless recipients are nested more       *)
(* deeply than any parser reads.)                                          *)
EncryptThenDecrypt ==
  \A e \in Encryptor, aad \in Aad :
    \A r \in {Encrypted(msg, e, aad, TRUE)},
       d \in {EncryptedDetached(msg, e, aad, TRUE)} :
    \A t \in {TakenAndEncoded(d)} :
    \A whole \in {WireOf(r.msg)}, apart \in {WireOf(t.msg)} :
      /\ r.ok = d.ok /\ d.ok = t.ok
      /\ r.ok =>
           /\ CanEncode(r.msg) /\ CanEncode(t.msg)
           /\ apart = WireOf(d.msg) /\ apart.nil /\ ~ whole.nil
           /\ \A o \in {x \in Encryptor : /\ Readable(r.msg.recipients)
                                          /\ Suits(x, e, r.msg)} :
                /\ OpensTo(whole, o, aad, r.msg)
                /\ OpensTo(apart, o, aad, d.msg)

(* The number a Partial IV stands for, big-endian: the powers of two it is *)
(* the sum of.                                                             *)
Number(piv) == {Len(piv) - i : i \in {j \in DOMAIN piv : piv[j] = "1"}}

(* Under one Base IV, Partial IVs that are different numbers never give    *)
(* the same nonce, whatever their lengths, and every nonce has the length  *)
(* the algorithm asks for.                                                 *)
PartialIvsGiveDistinctNonces ==
  \A h \in UnprotectedEdit, e \in Encryptor :
    LET m == [msg EXCEPT !.unprotected = h]
        n1 == Nonce(msg, e.nonce_size, e.base_iv)
        n2 == Nonce(m, e.nonce_size, e.base_iv)
        piv1 == HeaderBytes(msg, "piv")
        piv2 == HeaderBytes(m, "piv")
    IN /\ n1 # None => Len(n1) = e.nonce_size
       /\ (n1 # None /\ n1 = n2 /\ None \notin {piv1, piv2})
            => Number(piv1) = Number(piv2)

(* The message implements the promise of an authenticated layer.           *)
BytesDenote(raw, view) == DecodeProtected(raw) = view
BytesFresh(raw, view) == raw = EncodeProtected(view)
CiphertextCovers(ct, raw) == ct # None /\ ct.aad[2] = raw

Layer == INSTANCE AuthLayer WITH
  NoResult <- None, Start <- EmptyHeader, Denotes <- BytesDenote,
  Fresh <- BytesFresh, Covers <- CiphertextCovers,
  view <- msg.protected, bytes <- msg.protected_raw,
  result <- msg.ciphertext, phase <- msg.state

ImplementsAuthLayer == Layer!Spec
=============================================================================
