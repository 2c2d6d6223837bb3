---------------------------- MODULE EncryptProofs ----------------------------
(***************************************************************************)
(* Proofs about EncryptMessage, for every choice of its constants: type    *)
(* correctness, the agreement of the private fields with the state, that   *)
(* the message is an authenticated layer, that what decrypts was sealed as *)
(* the caller sees it, that what encrypts decrypts, and that Partial IVs   *)
(* give nonces of their own.                                               *)
(***************************************************************************)
EXTENDS EncryptMessage, HeaderProofs

(* The messages that differ from m in the two header buckets only.         *)
Rewritten(m) ==
  {n \in Message(m.recipients) :
     /\ n.context = m.context /\ n.payload = m.payload
     /\ n.ciphertext = m.ciphertext
     /\ n.ciphertext_detached = m.ciphertext_detached
     /\ n.state = m.state /\ n.protected_raw = m.protected_raw}

LEMMA RewrittenClosed ==
  ASSUME NEW m, IsMessage(m)
  PROVE  m \in Rewritten(m) /\ ClosedUnderEdits(Rewritten(m))
BY DEF Rewritten, ClosedUnderEdits, IsMessage, Message

LEMMA RewrittenIsMessage ==
  ASSUME NEW m, IsMessage(m), NEW n \in Rewritten(m)
  PROVE  /\ IsMessage(n) /\ n.recipients = m.recipients
         /\ RecipientsOk(n) = RecipientsOk(m)
BY DEF Rewritten, IsMessage, Message, RecipientsOk

-----------------------------------------------------------------------------
(* Nonces and ciphertexts.                                                 *)

(* A nonce depends on the headers only.                                    *)
LEMMA NonceOfHeaders ==
  ASSUME NEW m, NEW n, n.protected = m.protected,
         n.unprotected = m.unprotected, NEW size, NEW baseIv
  PROVE  Nonce(n, size, baseIv) = Nonce(m, size, baseIv)
BY DEF Nonce, HeaderBytes

LEMMA HeaderBytesType ==
  ASSUME NEW m, m.protected \in Header, m.unprotected \in Header, NEW l
  PROVE  HeaderBytes(m, l) \in HeaderValue \cup {None}
BY DEF HeaderBytes, Present, Get, Header

LEMMA NonceType ==
  ASSUME NEW m, m.protected \in Header, m.unprotected \in Header,
         NEW size \in Nat, NEW baseIv,
         Nonce(m, size, baseIv) # None
  PROVE  Nonce(m, size, baseIv) \in NonceValue
<1> DEFINE iv == HeaderBytes(m, "iv")
           piv == HeaderBytes(m, "piv")
           pad == LeftPad(piv, size)
<1>1. iv \in HeaderValue \cup {None}
  BY HeaderBytesType
<1>2. Xor(pad, baseIv) \in Seq(Byte)
  <2>1. DOMAIN pad = 1 .. size
    BY DEF LeftPad
  <2>2. Xor(pad, baseIv) \in [1 .. size -> Byte]
    BY <2>1 DEF Xor, Byte
  <2> QED
    BY <2>2, SeqDef
<1>3. Nonce(m, size, baseIv)
        = IF ~ ({iv, piv} \subseteq NonceBytes \cup {None}) THEN None
          ELSE IF None \notin {iv, piv} THEN None
          ELSE IF piv = None
          THEN IF iv # None /\ Len(iv) = size THEN iv ELSE None
          ELSE IF baseIv # None /\ Len(baseIv) = size /\ Len(piv) <= size
          THEN Xor(pad, baseIv) ELSE None
  BY DEF Nonce
<1> HIDE DEF iv, piv, pad
<1>4. Nonce(m, size, baseIv) \in {None, iv, Xor(pad, baseIv)}
  BY <1>3
<1> QED
  BY <1>1, <1>2, <1>4 DEF NonceValue

LEMMA SealedByType ==
  ASSUME NEW m, IsMessage(m), m.payload # None,
         NEW e \in Encryptor, HasNonce(m, e), NEW aad \in Aad
  PROVE  /\ SealedBy(m, e, aad) \in Ciphertext
         /\ SealedBy(m, e, aad) # None
         /\ SealedBy(m, e, aad).aad[2] = m.protected_raw
<1> DEFINE nonce == Nonce(m, e.nonce_size, e.base_iv)
           over == ToBeEncrypted(m, aad)
<1>1. nonce \in NonceValue /\ e.key \in Key
  BY NonceType, EncryptConstants DEF HasNonce, IsMessage, Message
<1>2. over \in EncStructure /\ over[2] = m.protected_raw
  BY DEF ToBeEncrypted, EncStructure, IsMessage, Message
<1>3. m.payload \in Payload
  BY DEF IsMessage, Message
<1>4. SealedBy(m, e, aad)
        = [by |-> e.key, nonce |-> nonce, aad |-> over, plain |-> m.payload]
  BY DEF SealedBy, Seal
<1> HIDE DEF nonce, over
<1>5. SealedBy(m, e, aad) \in Ciphertext
  BY <1>1, <1>2, <1>3, <1>4 DEF Ciphertext
<1> QED
  BY <1>2, <1>4, <1>5, NoneIsNoCiphertext

-----------------------------------------------------------------------------
(* What a method does to the private fields of the message.                *)

Untouched(m, n) ==
  /\ n.ciphertext = m.ciphertext /\ n.protected_raw = m.protected_raw
  /\ n.ciphertext_detached = m.ciphertext_detached
  /\ n.state = m.state

Prepared(n) ==
  /\ n.state = "Prepared" /\ n.ciphertext = None
  /\ ~ n.ciphertext_detached
  /\ n.protected_raw = EncodeProtected(n.protected)
  /\ ValidateCommon(n.protected)

(* A ciphertext is stored: bytes prepared before are kept, and decode to   *)
(* the header that the caller sees.                                        *)
Stored(m, n) ==
  /\ n.state = "Complete" /\ n.protected = m.protected
  /\ IF m.state = "New"
     THEN /\ n.protected_raw = EncodeProtected(m.protected)
          /\ ValidateCommon(m.protected)
     ELSE /\ n.protected_raw = m.protected_raw
          /\ m.protected_raw.hdr = m.protected

(* A ciphertext over the bytes was made, and may have been moved out.      *)
Completed(n) ==
  /\ n.state = "Complete"
  /\ n.protected_raw = EncodeProtected(n.protected)
  /\ ValidateCommon(n.protected)
  /\ n.ciphertext = None \/ CiphertextCovers(n.ciphertext, n.protected_raw)

(* The message came from elsewhere.                                        *)
Loaded(n) ==
  /\ n.state = "Complete" /\ n.protected = n.protected_raw.hdr
  /\ Decodable(n.protected_raw)
  /\ CiphertextCovers(n.ciphertext, n.protected_raw)

Renewed(n) ==
  /\ n.state = "New" /\ n.ciphertext = None /\ ~ n.ciphertext_detached
  /\ n.protected = EmptyHeader
  /\ n.protected_raw = EncodeProtected(EmptyHeader)

LEMMA NewEffect ==
  ASSUME NEW c \in Context, NEW p \in Payload \cup {None}
  PROVE  IsMessage(New(c, p)) /\ Renewed(New(c, p))
BY EmptyHeaderType, EncodeProtectedType, NoRecipientsForest
DEF New, IsMessage, Message, State, Renewed

(* A layer that validates has the view that its bytes decode to.           *)
LEMMA ViewOfValidLayer ==
  ASSUME NEW m, ValidateLayer(m)
  PROVE  m.protected_raw.hdr = m.protected
BY ViewOfValidBytes DEF ValidateLayer, DecodeProtected

-----------------------------------------------------------------------------
(* Encryption.                                                             *)

(* The message is ready for e to encrypt.                                  *)
Ready(n, e) ==
  /\ Prepared(n) /\ RecipientsOk(n) /\ ValidateHeaderBuckets(n)
  /\ CheckProtectedAlg(n, e.alg) /\ n.payload # None /\ HasNonce(n, e)

LEMMA EncryptingEffect ==
  ASSUME NEW m, IsMessage(m), RecipientsOk(m), ValidateHeaderBuckets(m),
         NEW e, CheckProtectedAlg(m, e.alg), m.payload # None, HasNonce(m, e)
  PROVE  /\ IsMessage(Encrypting(m)) /\ Encrypting(m).payload = m.payload
         /\ Ready(Encrypting(m), e)
<1> DEFINE n == Encrypting(m)
<1>1. EncodeProtected(m.protected) \in ProtectedRaw
  BY EncodeProtectedType DEF IsMessage, Message
<1>2. n = [m EXCEPT !.protected_raw = EncodeProtected(m.protected),
                    !.state = "Prepared", !.ciphertext = None,
                    !.ciphertext_detached = FALSE]
  BY DEF Encrypting
<1> HIDE DEF n
<1>3. /\ IsMessage(n) /\ n.payload = m.payload
      /\ n.protected = m.protected /\ n.unprotected = m.unprotected
      /\ n.context = m.context /\ n.recipients = m.recipients
      /\ n.protected_raw = EncodeProtected(n.protected)
      /\ n.state = "Prepared" /\ n.ciphertext = None
      /\ n.ciphertext_detached = FALSE
  BY <1>1, <1>2 DEF IsMessage, Message, State
<1>4. /\ RecipientsOk(n) /\ ValidateHeaderBuckets(n)
      /\ CheckProtectedAlg(n, e.alg)
  BY <1>3 DEF RecipientsOk, ValidateHeaderBuckets, CheckProtectedAlg,
              DeclaredAlg
<1>5. HasNonce(n, e)
  BY <1>3, NonceOfHeaders DEF HasNonce
<1>6. Prepared(n)
  BY <1>3, <1>4 DEF Prepared, ValidateHeaderBuckets
<1> QED
  BY <1>3, <1>4, <1>5, <1>6 DEF Ready, n

(* prepare_encryption prepares the message or, when it fails, leaves its   *)
(* private fields as they were.                                            *)
LEMMA PrepareEncryptionEffect ==
  ASSUME NEW m, IsMessage(m), NEW e \in Encryptor
  PROVE  LET p == PrepareEncryption(m, e)
         IN /\ IsMessage(p.msg) /\ p.ok \in BOOLEAN
            /\ p = [ok |-> p.ok, msg |-> p.msg]
            /\ p.ok => Ready(p.msg, e)
            /\ ~ p.ok => Untouched(m, p.msg)
<1> DEFINE h == PrepareHeaders(m, e.alg, e.kid)
           p == PrepareEncryption(m, e)
           n == Encrypting(h.msg)
<1>1. e.alg \in Alg \cup {None} /\ e.kid \in Kid \cup {None}
  BY EncryptConstants
<1>2. /\ h.msg \in Rewritten(m) /\ h.ok \in BOOLEAN
      /\ h.ok => /\ ValidateHeaderBuckets(h.msg)
                 /\ CheckProtectedAlg(h.msg, e.alg)
  BY <1>1, RewrittenClosed, PrepareHeadersKeeps
<1>3. p = IF ~ RecipientsOk(m) THEN [ok |-> FALSE, msg |-> m]
          ELSE IF h.ok /\ m.payload # None /\ HasNonce(h.msg, e)
          THEN [ok |-> TRUE, msg |-> n] ELSE [ok |-> FALSE, msg |-> h.msg]
  BY DEF PrepareEncryption, Ok, Err
<1> HIDE DEF h, p, n
<1>4. /\ IsMessage(h.msg) /\ h.msg.payload = m.payload
      /\ RecipientsOk(h.msg) = RecipientsOk(m) /\ Untouched(m, h.msg)
  BY <1>2, RewrittenIsMessage DEF Rewritten, Untouched
<1>5. CASE RecipientsOk(m) /\ h.ok /\ m.payload # None /\ HasNonce(h.msg, e)
  <2>1. p = [ok |-> TRUE, msg |-> n]
    BY <1>3, <1>5
  <2>2. IsMessage(n) /\ Ready(n, e)
    BY <1>2, <1>4, <1>5, EncryptingEffect DEF n
  <2> QED
    BY <2>1, <2>2 DEF p
<1>6. CASE RecipientsOk(m)
           /\ ~ (h.ok /\ m.payload # None /\ HasNonce(h.msg, e))
  <2>1. p = [ok |-> FALSE, msg |-> h.msg]
    BY <1>3, <1>6
  <2> QED
    BY <1>4, <2>1 DEF p
<1>7. CASE ~ RecipientsOk(m)
  <2>1. p = [ok |-> FALSE, msg |-> m]
    BY <1>3, <1>7
  <2> QED
    BY <2>1 DEF p, Untouched
<1> QED
  BY <1>5, <1>6, <1>7

(* set_ciphertext stores the ciphertext or changes nothing.                *)
LEMMA SetCtEffect ==
  ASSUME NEW m, IsMessage(m), NEW ct \in Ciphertext \cup {None},
         NEW detached \in BOOLEAN
  PROVE  LET n == SetCt(m, ct, detached).msg
         IN IsMessage(n) /\ (n = m \/ Stored(m, n))
<1> DEFINE y == SyncProtectedRaw(m)
           r == SetCt(m, ct, detached)
           e == [m EXCEPT !.protected_raw = EncodeProtected(m.protected)]
           n == [y.msg EXCEPT !.ciphertext = ct, !.state = "Complete",
                              !.ciphertext_detached = detached]
<1>1. r.msg = IF ~ RecipientsOk(m) THEN m
              ELSE IF y.ok THEN n ELSE y.msg
  BY DEF SetCt, Ok, Err
<1>2. CASE RecipientsOk(m) /\ m.state = "New" /\ ValidateHeaderBuckets(m)
  <2>1. y = [ok |-> TRUE, msg |-> e]
    BY <1>2 DEF SyncProtectedRaw, Ok
  <2>2. EncodeProtected(m.protected) \in ProtectedRaw
    BY EncodeProtectedType DEF IsMessage, Message
  <2>3. r.msg = [e EXCEPT !.ciphertext = ct, !.state = "Complete",
                          !.ciphertext_detached = detached]
    BY <1>1, <1>2, <2>1
  <2>4. /\ IsMessage(r.msg) /\ r.msg.protected = m.protected
        /\ r.msg.protected_raw = EncodeProtected(m.protected)
        /\ r.msg.state = "Complete"
    BY <2>2, <2>3 DEF IsMessage, Message, State
  <2> QED
    BY <1>2, <2>4 DEF Stored, ValidateHeaderBuckets
<1>3. CASE RecipientsOk(m) /\ m.state # "New" /\ ValidateLayer(m)
  <2>1. y.ok = TRUE /\ y.msg = m
    BY <1>3 DEF SyncProtectedRaw
  <2>2. r.msg = [m EXCEPT !.ciphertext = ct, !.state = "Complete",
                          !.ciphertext_detached = detached]
    BY <1>1, <1>3, <2>1
  <2>3. /\ IsMessage(r.msg) /\ r.msg.protected = m.protected
        /\ r.msg.protected_raw = m.protected_raw
        /\ r.msg.state = "Complete"
    BY <2>2 DEF IsMessage, Message, State
  <2> QED
    BY <1>3, <2>3, ViewOfValidLayer DEF Stored
<1>4. CASE IF m.state = "New" THEN ~ ValidateHeaderBuckets(m)
                              ELSE ~ ValidateLayer(m)
  <2>1. y.ok = FALSE /\ y.msg = m
    BY <1>4 DEF SyncProtectedRaw, Err
  <2> QED
    BY <1>1, <2>1
<1>5. CASE ~ RecipientsOk(m)
  BY <1>1, <1>5
<1> QED
  BY <1>2, <1>3, <1>4, <1>5

(* What encrypt and encrypt_detached leave when they return Ok.            *)
Sealed(n, e, aad, detached) ==
  /\ IsMessage(n) /\ Completed(n) /\ RecipientsOk(n)
  /\ ValidateHeaderBuckets(n) /\ CheckProtectedAlg(n, e.alg)
  /\ n.payload # None /\ HasNonce(n, e)
  /\ n.ciphertext = SealedBy(n, e, aad) /\ n.ciphertext \in Ciphertext
  /\ n.ciphertext_detached = detached

LEMMA SealedOfReady ==
  ASSUME NEW n, IsMessage(n), NEW e \in Encryptor, Ready(n, e),
         NEW aad \in Aad
  PROVE  Sealed([n EXCEPT !.ciphertext = SealedBy(n, e, aad),
                          !.state = "Complete"], e, aad, FALSE)
<1> DEFINE ct == SealedBy(n, e, aad)
           r == [n EXCEPT !.ciphertext = ct, !.state = "Complete"]
<1>1. ct \in Ciphertext /\ ct # None /\ ct.aad[2] = n.protected_raw
  BY SealedByType DEF Ready
<1>2. ct = Seal(e.key, Nonce(n, e.nonce_size, e.base_iv),
                <<n.context, n.protected_raw, aad>>, n.payload)
  BY DEF SealedBy, ToBeEncrypted
<1> HIDE DEF ct
<1>3. /\ IsMessage(r) /\ r.ciphertext = ct /\ r.state = "Complete"
      /\ r.payload = n.payload /\ r.context = n.context
      /\ r.protected = n.protected /\ r.unprotected = n.unprotected
      /\ r.protected_raw = n.protected_raw /\ r.recipients = n.recipients
      /\ r.ciphertext_detached = n.ciphertext_detached
  BY <1>1 DEF IsMessage, Message, State
<1> HIDE DEF r
<1>4. /\ RecipientsOk(r) /\ CheckProtectedAlg(r, e.alg)
      /\ ValidateHeaderBuckets(r) /\ r.payload # None
  BY <1>3 DEF Ready, RecipientsOk, CheckProtectedAlg, DeclaredAlg,
              ValidateHeaderBuckets
<1>5. Nonce(r, e.nonce_size, e.base_iv) = Nonce(n, e.nonce_size, e.base_iv)
  BY <1>3, NonceOfHeaders
<1>6. HasNonce(r, e) /\ ct = SealedBy(r, e, aad)
  BY <1>2, <1>3, <1>5 DEF Ready, HasNonce, SealedBy, ToBeEncrypted
<1>7. Completed(r)
  BY <1>1, <1>3 DEF Ready, Prepared, Completed, CiphertextCovers
<1>8. r.ciphertext_detached = FALSE
  BY <1>3 DEF Ready, Prepared, IsMessage, Message
<1>9. Sealed(r, e, aad, FALSE)
  BY <1>1, <1>3, <1>4, <1>6, <1>7, <1>8 DEF Sealed
<1> QED
  BY <1>9 DEF r, ct

Outcome(m, n) ==
  IsMessage(n) /\ (Untouched(m, n) \/ Prepared(n) \/ Completed(n))

(* encrypt seals the message, stops at a prepared one, or leaves its       *)
(* private fields alone.                                                   *)
LEMMA EncryptedEffect ==
  ASSUME NEW m, IsMessage(m), NEW e \in Encryptor, NEW aad \in Aad,
         NEW available \in BOOLEAN
  PROVE  LET r == Encrypted(m, e, aad, available)
         IN /\ Outcome(m, r.msg) /\ r.ok \in BOOLEAN
            /\ r = [ok |-> r.ok, msg |-> r.msg]
            /\ r.ok => Sealed(r.msg, e, aad, FALSE)
<1> DEFINE p == PrepareEncryption(m, e)
           n == [p.msg EXCEPT !.ciphertext = SealedBy(p.msg, e, aad),
                              !.state = "Complete"]
           r == Encrypted(m, e, aad, available)
<1>1. /\ IsMessage(p.msg) /\ p.ok \in BOOLEAN
      /\ p = [ok |-> p.ok, msg |-> p.msg]
      /\ p.ok => Ready(p.msg, e)
      /\ ~ p.ok => Untouched(m, p.msg)
  BY PrepareEncryptionEffect
<1>2. r = IF ~ p.ok THEN p
          ELSE IF ~ available THEN [ok |-> FALSE, msg |-> p.msg]
          ELSE [ok |-> TRUE, msg |-> n]
  BY DEF Encrypted, Ok, Err
<1> HIDE DEF p, r
<1>3. CASE p.ok /\ available
  <2>1. Sealed(n, e, aad, FALSE)
    BY <1>1, <1>3, SealedOfReady
  <2> HIDE DEF n
  <2>2. r = [ok |-> TRUE, msg |-> n]
    BY <1>2, <1>3
  <2> QED
    BY <2>1, <2>2 DEF Outcome, Sealed, r
<1>4. CASE p.ok /\ ~ available
  <2>1. r = [ok |-> FALSE, msg |-> p.msg]
    BY <1>2, <1>4
  <2> QED
    BY <1>1, <1>4, <2>1 DEF Outcome, Ready, r
<1>5. CASE ~ p.ok
  <2>1. r = p
    BY <1>2, <1>5
  <2> QED
    BY <1>1, <1>5, <2>1 DEF Outcome, r
<1> QED
  BY <1>1, <1>3, <1>4, <1>5

(* encrypt_detached makes the same message, with the ciphertext apart.     *)
Apart(n) == [n EXCEPT !.ciphertext_detached = TRUE]

LEMMA EncryptedDetachedEffect ==
  ASSUME NEW m, IsMessage(m), NEW e \in Encryptor, NEW aad \in Aad,
         NEW available \in BOOLEAN
  PROVE  LET r == Encrypted(m, e, aad, available)
             d == EncryptedDetached(m, e, aad, available)
         IN /\ Outcome(m, d.msg) /\ d.ok = r.ok
            /\ d = [ok |-> d.ok, msg |-> d.msg]
            /\ d.ok => /\ Sealed(d.msg, e, aad, TRUE)
                       /\ d.msg = Apart(r.msg)
<1> DEFINE r == Encrypted(m, e, aad, available)
           d == EncryptedDetached(m, e, aad, available)
           n == [r.msg EXCEPT !.ciphertext_detached = TRUE]
<1>1. /\ Outcome(m, r.msg) /\ r.ok \in BOOLEAN
      /\ r = [ok |-> r.ok, msg |-> r.msg]
      /\ r.ok => Sealed(r.msg, e, aad, FALSE)
  BY EncryptedEffect
<1>2. d = IF r.ok THEN [ok |-> TRUE, msg |-> n] ELSE r
  BY DEF EncryptedDetached, Ok
<1> HIDE DEF r, d
<1>3. CASE r.ok
  <2>1. d = [ok |-> TRUE, msg |-> n]
    BY <1>2, <1>3
  <2>2. /\ IsMessage(n) /\ n.ciphertext_detached = TRUE
        /\ n.ciphertext = r.msg.ciphertext /\ n.state = r.msg.state
        /\ n.payload = r.msg.payload /\ n.context = r.msg.context
        /\ n.protected = r.msg.protected
        /\ n.unprotected = r.msg.unprotected
        /\ n.protected_raw = r.msg.protected_raw
        /\ n.recipients = r.msg.recipients
    BY <1>1, <1>3 DEF Sealed, IsMessage, Message
  <2>3. d.msg = Apart(r.msg)
    BY <2>1 DEF Apart
  <2> HIDE DEF n
  <2>4. /\ RecipientsOk(n) /\ CheckProtectedAlg(n, e.alg)
        /\ ValidateHeaderBuckets(n) /\ Completed(n)
    BY <1>1, <1>3, <2>2 DEF Sealed, RecipientsOk, CheckProtectedAlg,
       DeclaredAlg, ValidateHeaderBuckets, Completed
  <2>5. Nonce(n, e.nonce_size, e.base_iv)
          = Nonce(r.msg, e.nonce_size, e.base_iv)
    BY <2>2, NonceOfHeaders
  <2>6. HasNonce(n, e) /\ SealedBy(n, e, aad) = SealedBy(r.msg, e, aad)
    BY <1>1, <1>3, <2>2, <2>5
    DEF Sealed, HasNonce, SealedBy, ToBeEncrypted
  <2>7. Sealed(n, e, aad, TRUE)
    BY <1>1, <1>3, <2>2, <2>4, <2>6 DEF Sealed
  <2>8. d.ok = TRUE /\ d.msg = n
    BY <2>1
  <2> QED
    BY <1>3, <2>1, <2>3, <2>4, <2>2, <2>7, <2>8 DEF Outcome, d, r
<1>4. CASE ~ r.ok
  <2>1. d = r
    BY <1>2, <1>4
  <2> QED
    BY <1>1, <1>4, <2>1 DEF d, r
<1> QED
  BY <1>1, <1>3, <1>4

LEMMA SealedEncodes ==
  ASSUME NEW n, NEW e, NEW aad, NEW detached, Sealed(n, e, aad, detached)
  PROVE  CanEncode(n)
BY DEF Sealed, Completed, CanEncode, ValidateLayer, ValidateProtectedState,
       Encodable, ValidateHeaderBuckets

(* encrypt_detached_and_encode then moves the ciphertext out.              *)
Taken(n) == [n EXCEPT !.ciphertext = None]

LEMMA TakenAndEncodedEffect ==
  ASSUME NEW m, IsMessage(m), NEW e \in Encryptor, NEW aad \in Aad,
         NEW available \in BOOLEAN
  PROVE  LET d == EncryptedDetached(m, e, aad, available)
             t == TakenAndEncoded(d)
         IN /\ Outcome(m, t.msg) /\ t.ok = d.ok
            /\ t.ok => t.msg = Taken(d.msg)
<1> DEFINE d == EncryptedDetached(m, e, aad, available)
           t == TakenAndEncoded(d)
           n == [d.msg EXCEPT !.ciphertext = None]
<1>1. /\ Outcome(m, d.msg) /\ d.ok \in BOOLEAN
      /\ d = [ok |-> d.ok, msg |-> d.msg]
      /\ d.ok => Sealed(d.msg, e, aad, TRUE)
  <2> DEFINE r == Encrypted(m, e, aad, available)
  <2>1. r.ok \in BOOLEAN
    BY EncryptedEffect
  <2>2. /\ Outcome(m, d.msg) /\ d.ok = r.ok
        /\ d = [ok |-> d.ok, msg |-> d.msg]
        /\ d.ok => Sealed(d.msg, e, aad, TRUE)
    BY EncryptedDetachedEffect
  <2> HIDE DEF d, r
  <2> QED
    BY <2>1, <2>2
<1>2. t = IF ~ d.ok THEN d
          ELSE IF ~ CanEncode(d.msg) THEN [ok |-> FALSE, msg |-> d.msg]
          ELSE [ok |-> TRUE, msg |-> n]
  BY DEF TakenAndEncoded, Ok, Err
<1> HIDE DEF d, t
<1>3. CASE d.ok
  <2>1. t = [ok |-> TRUE, msg |-> n]
    BY <1>1, <1>2, <1>3, SealedEncodes
  <2>2. /\ IsMessage(n) /\ n.ciphertext = None /\ n.state = d.msg.state
        /\ n.protected = d.msg.protected
        /\ n.protected_raw = d.msg.protected_raw
    BY <1>1, <1>3 DEF Sealed, IsMessage, Message
  <2>3. t.ok = TRUE /\ t.msg = n /\ n = Taken(d.msg)
    BY <2>1 DEF Taken
  <2> HIDE DEF n
  <2>4. Completed(n)
    BY <1>1, <1>3, <2>2 DEF Sealed, Completed
  <2> QED
    BY <1>3, <2>2, <2>3, <2>4 DEF Outcome, d, t
<1>4. CASE ~ d.ok
  <2>1. t = d
    BY <1>2, <1>4
  <2> QED
    BY <1>1, <1>4, <2>1 DEF d, t
<1> QED
  BY <1>1, <1>3, <1>4

-----------------------------------------------------------------------------
(* Decryption.                                                             *)

(* decrypt writes the plaintext only.                                      *)
LEMMA DecryptedEffect ==
  ASSUME NEW m, IsMessage(m), NEW e, NEW aad
  PROVE  LET r == Decrypted(m, e, aad)
         IN IsMessage(r.msg) /\ Untouched(m, r.msg)
<1> DEFINE n == [m EXCEPT !.payload = m.ciphertext.plain]
           r == Decrypted(m, e, aad)
<1>1. CASE ~ m.ciphertext_detached /\ CanOpen(m, e, m.ciphertext, aad)
  <2>1. r.msg = n
    BY <1>1 DEF Decrypted, Ok
  <2>2. m.ciphertext \in Ciphertext
    BY <1>1 DEF CanOpen, Opens, IsMessage, Message
  <2>3. m.ciphertext.plain \in Payload
    BY <2>2 DEF Ciphertext
  <2>4. IsMessage(n) /\ Untouched(m, n)
    BY <2>3 DEF IsMessage, Message, Untouched
  <2> HIDE DEF n, r
  <2> QED
    BY <2>1, <2>4 DEF r
<1>2. CASE ~ (~ m.ciphertext_detached /\ CanOpen(m, e, m.ciphertext, aad))
  <2>1. r.msg = m
    BY <1>2 DEF Decrypted, Err
  <2> QED
    BY <2>1 DEF Untouched
<1> QED
  BY <1>1, <1>2

(* decrypt_detached stores a ciphertext that opens, or changes nothing.    *)
LEMMA DecryptedDetachedEffect ==
  ASSUME NEW m, IsMessage(m), NEW e, NEW aad, NEW ct \in Ciphertext
  PROVE  LET n == DecryptedDetached(m, e, ct, aad).msg
         IN IsMessage(n) /\ (n = m \/ Stored(m, n))
<1> DEFINE n == [m EXCEPT !.ciphertext = ct, !.payload = ct.plain]
           r == DecryptedDetached(m, e, ct, aad)
<1>1. CASE m.ciphertext_detached /\ CanOpen(m, e, ct, aad)
  <2>1. r.msg = n
    BY <1>1 DEF DecryptedDetached, Ok
  <2>2. ct.plain \in Payload
    BY DEF Ciphertext
  <2>3. /\ IsMessage(n) /\ n.state = m.state
        /\ n.protected = m.protected /\ n.protected_raw = m.protected_raw
    BY <2>2 DEF IsMessage, Message
  <2>4. m.state = "Complete" /\ m.protected_raw.hdr = m.protected
    BY <1>1, ViewOfValidLayer DEF CanOpen, PrepareDecryption
  <2> HIDE DEF n, r
  <2>5. Stored(m, n)
    BY <2>3, <2>4 DEF Stored
  <2> QED
    BY <2>1, <2>3, <2>5 DEF r
<1>2. CASE ~ (m.ciphertext_detached /\ CanOpen(m, e, ct, aad))
  <2>1. r.msg = m
    BY <1>2 DEF DecryptedDetached, Err
  <2> QED
    BY <2>1
<1> QED
  BY <1>1, <1>2

-----------------------------------------------------------------------------
(* The wire.                                                               *)

WireMessage(w) ==
  /\ w.context \in Context /\ w.protected \in ProtectedRaw
  /\ w.unprotected \in Header /\ w.nil \in BOOLEAN
  /\ w.ciphertext \in Ciphertext \cup {None} /\ WireForest(w.recipients)
  /\ w.context = "Encrypt0" => w.recipients = NoRecipients

(* What is decoded from the wire is a message object.                      *)
LEMMA DecodedIsMessage ==
  ASSUME NEW w, WireMessage(w)
  PROVE  IsMessage(Decoded(w))
<1>1. DecodeProtected(w.protected) \in Header
  BY DecodeProtectedType DEF WireMessage
<1>2. /\ Forest(DecodedRecipients(w.recipients))
      /\ w.context = "Encrypt0" =>
           DecodedRecipients(w.recipients) = NoRecipients
  BY DecodedForest, NoRecipientsAcrossTheWire DEF WireMessage
<1> QED
  BY <1>1, <1>2 DEF WireMessage, Decoded, IsMessage, Message, State

(* Messages from elsewhere carry a ciphertext over their own bytes.        *)
LEMMA ForeignEffect ==
  ASSUME NEW w \in ForeignWire, CanDecode(w)
  PROVE  IsMessage(Decoded(w)) /\ Loaded(Decoded(w))
<1>1. PICK raw \in ForeignRaw, u \in UnprotectedEdit, p \in Payload,
           e \in Encryptor, aad \in Aad, ws \in ForeignRecipients :
        w = ForeignMessage(raw, u, p, e, aad, ws)
  BY DEF ForeignWire
<1>2. w.ciphertext.nonce # None
  BY DEF ForeignWire
<1> DEFINE v == [context |-> IF ws = NoRecipients THEN "Encrypt0"
                             ELSE "Encrypt",
                 protected |-> raw, unprotected |-> u, nil |-> FALSE,
                 ciphertext |-> None, recipients |-> ws]
           d == Decoded(v)
           m == [d EXCEPT !.payload = p]
           ct == SealedBy(m, e, aad)
<1>3. WireMessage(v)
  BY EncryptConstants DEF WireMessage, Context
<1>4. IsMessage(d) /\ d.protected_raw = raw
  BY <1>3, DecodedIsMessage DEF Decoded
<1>5. w = [v EXCEPT !.ciphertext = ct]
  BY <1>1 DEF ForeignMessage
<1> HIDE DEF d
<1>6. IsMessage(m) /\ m.payload = p /\ m.protected_raw = raw
  BY <1>4 DEF IsMessage, Message
<1> HIDE DEF m, ct
<1>7. /\ w.context = v.context /\ w.protected = raw
      /\ w.unprotected = v.unprotected /\ w.nil = v.nil
      /\ w.recipients = v.recipients /\ w.ciphertext = ct
  BY <1>5
<1> HIDE DEF v
<1>8. HasNonce(m, e)
  BY <1>2, <1>7 DEF HasNonce, ct, SealedBy, Seal
<1>9. ct \in Ciphertext /\ ct # None /\ ct.aad[2] = raw
  <2>1. m.payload # None
    BY <1>6, EncryptConstants
  <2> QED
    BY <1>6, <1>8, <2>1, SealedByType DEF ct
<1>10. WireMessage(w)
  BY <1>3, <1>7, <1>9 DEF WireMessage, v
<1>11. Loaded(Decoded(w))
  BY <1>7, <1>9
  DEF Loaded, Decoded, CanDecode, DecodeProtected, CiphertextCovers
<1> QED
  BY <1>10, <1>11, DecodedIsMessage

(* A message coming back from the wire: its ciphertext may have stayed     *)
(* behind, as if None had been stored.                                     *)
LEMMA WireOfMessage ==
  ASSUME NEW m, IsMessage(m)
  PROVE  WireMessage(WireOf(m))
<1>1. /\ WireForest(EncodedRecipients(m.recipients))
      /\ m.context = "Encrypt0" =>
           EncodedRecipients(m.recipients) = NoRecipients
  BY EncodedForest, NoRecipientsAcrossTheWire DEF IsMessage
<1> QED
  BY <1>1 DEF WireMessage, WireOf, IsMessage, Message

LEMMA ReturnedEffect ==
  ASSUME NEW m, IsMessage(m), CanEncode(m)
  PROVE  LET n == Decoded(WireOf(m))
         IN IsMessage(n) /\ Stored(m, n)
<1> DEFINE n == Decoded(WireOf(m))
<1>1. IsMessage(n)
  BY WireOfMessage, DecodedIsMessage
<1>2. m.protected_raw.hdr = m.protected /\ m.state = "Complete"
  BY ViewOfValidLayer DEF CanEncode
<1>3. /\ n.state = "Complete" /\ n.protected_raw = m.protected_raw
      /\ n.protected = m.protected_raw.hdr
  BY DEF Decoded, WireOf, DecodeProtected
<1> QED
  BY <1>1, <1>2, <1>3 DEF Stored
-----------------------------------------------------------------------------
(* Every step of the program.                                              *)

Effect(m, n) ==
  \/ Renewed(n) \/ Untouched(m, n) \/ Prepared(n)
  \/ Stored(m, n) \/ Completed(n) \/ Loaded(n)

(* A step keeps the types, and does one of six things to the private       *)
(* fields of the message: it renews them, leaves them alone, prepares,     *)
(* stores a ciphertext, encrypts, or loads a message made elsewhere.       *)
LEMMA StepEffect ==
  ASSUME TypeOK, [Next]_vars
  PROVE  TypeOK' /\ Effect(msg, msg')
<1> USE DEF Effect
<1>1. IsMessage(msg) /\ transit \subseteq Ciphertext
  BY DEF TypeOK
<1>2. SUFFICES /\ IsMessage(msg') /\ transit' \subseteq Ciphertext
               /\ Effect(msg, msg')
  BY DEF TypeOK
<1>3. ASSUME NEW ct \in Ciphertext, Send(ct)
      PROVE  transit' \subseteq Ciphertext
  BY <1>1, <1>3 DEF Send
<1>4. CASE NewMessage
  BY <1>1, <1>4, NewEffect DEF NewMessage
<1>5. CASE EditProtected
  BY <1>1, <1>5, EncryptConstants
  DEF EditProtected, IsMessage, Message, Untouched
<1>6. CASE EditUnprotected
  BY <1>1, <1>6, EncryptConstants
  DEF EditUnprotected, IsMessage, Message, Untouched
<1>7. CASE EditPayload
  BY <1>1, <1>7 DEF EditPayload, IsMessage, Message, Untouched
<1>8. ASSUME NEW rs, Forest(rs), msg.context = "Encrypt",
             msg' = [msg EXCEPT !.recipients = rs]
      PROVE  IsMessage(msg') /\ Untouched(msg, msg')
  BY <1>1, <1>8 DEF IsMessage, Message, Untouched
<1>9. CASE SetRecipients
  BY <1>1, <1>8, <1>9, EncryptConstants DEF SetRecipients
<1>10. CASE EditRecipient
  <2>1. PICK path \in DOMAIN msg.recipients, h \in RecipientEdit :
          msg' = [msg EXCEPT !.recipients[path].protected = h]
    BY <1>10 DEF EditRecipient
  <2> DEFINE rs == [msg.recipients EXCEPT ![path].protected = h]
  <2>2. Forest(rs)
    BY <1>1, EditedForest, EncryptConstants DEF IsMessage
  <2>3. msg.context = "Encrypt"
    BY <1>1, NoRecipientsForest DEF IsMessage, Message, Context
  <2>4. msg' = [msg EXCEPT !.recipients = rs]
    BY <1>1, <2>1 DEF IsMessage, Message
  <2> HIDE DEF rs
  <2> QED
    BY <1>1, <1>8, <1>10, <2>2, <2>3, <2>4 DEF EditRecipient
<1>11. CASE Prepare
  <2>1. PICK e \in Encryptor, aad \in Aad :
          LET p == PrepareEncryption(msg, e)
          IN /\ msg' = p.msg
             /\ IF p.ok THEN Send(SealedBy(p.msg, e, aad))
                        ELSE UNCHANGED transit
    BY <1>11 DEF Prepare
  <2> DEFINE p == PrepareEncryption(msg, e)
  <2>2. /\ IsMessage(p.msg) /\ p.ok \in BOOLEAN
        /\ p.ok => Ready(p.msg, e)
        /\ ~ p.ok => Untouched(msg, p.msg)
    BY <1>1, PrepareEncryptionEffect
  <2>3. p.ok => SealedBy(p.msg, e, aad) \in Ciphertext
    BY <2>2, SealedByType DEF Ready
  <2>4. /\ msg' = p.msg
        /\ IF p.ok THEN Send(SealedBy(p.msg, e, aad)) ELSE UNCHANGED transit
    BY <2>1
  <2> HIDE DEF p
  <2> QED
    BY <1>1, <1>3, <2>2, <2>3, <2>4 DEF Ready
<1>12. CASE SetCiphertext
  <2>1. PICK ct \in transit \cup {None}, detached \in BOOLEAN :
          msg' = SetCt(msg, ct, detached).msg
    BY <1>12 DEF SetCiphertext
  <2>2. IsMessage(msg') /\ (msg' = msg \/ Stored(msg, msg'))
    BY <1>1, <2>1, SetCtEffect
  <2> QED
    BY <1>1, <1>12, <2>2 DEF SetCiphertext, Untouched
<1>13. CASE LoseInTransit
  BY <1>1, <1>13 DEF LoseInTransit, Untouched
<1>14. CASE Encrypt
  <2>1. PICK e \in Encryptor, aad \in Aad, available \in BOOLEAN :
          msg' = Encrypted(msg, e, aad, available).msg
    BY <1>14 DEF Encrypt
  <2>2. Outcome(msg, msg')
    BY <1>1, <2>1, EncryptedEffect
  <2> QED
    BY <1>1, <1>14, <2>2 DEF Encrypt, Outcome
<1>15. CASE EncryptDetached
  <2>1. PICK e \in Encryptor, aad \in Aad, available \in BOOLEAN :
          LET r == EncryptedDetached(msg, e, aad, available)
          IN /\ msg' = r.msg
             /\ IF r.ok THEN Send(r.msg.ciphertext) ELSE UNCHANGED transit
    BY <1>15 DEF EncryptDetached
  <2> DEFINE d == EncryptedDetached(msg, e, aad, available)
  <2>2. Outcome(msg, d.msg) /\ (d.ok => Sealed(d.msg, e, aad, TRUE))
    BY <1>1, EncryptedDetachedEffect
  <2>3. /\ msg' = d.msg
        /\ IF d.ok THEN Send(d.msg.ciphertext) ELSE UNCHANGED transit
    BY <2>1
  <2> HIDE DEF d
  <2> QED
    BY <1>1, <1>3, <2>2, <2>3 DEF Outcome, Sealed
<1>16. CASE EncryptDetachedAndEncode
  <2>1. PICK e \in Encryptor, aad \in Aad, available \in BOOLEAN :
          \E d \in {EncryptedDetached(msg, e, aad, available)} :
            LET r == TakenAndEncoded(d)
            IN /\ msg' = r.msg
               /\ IF r.ok THEN Send(d.msg.ciphertext)
                          ELSE UNCHANGED transit
    BY <1>16 DEF EncryptDetachedAndEncode
  <2> DEFINE d == EncryptedDetached(msg, e, aad, available)
             t == TakenAndEncoded(d)
  <2>2. d.ok => Sealed(d.msg, e, aad, TRUE)
    BY <1>1, EncryptedDetachedEffect
  <2>3. Outcome(msg, t.msg) /\ t.ok = d.ok
    BY <1>1, TakenAndEncodedEffect
  <2>4. /\ msg' = t.msg
        /\ IF t.ok THEN Send(d.msg.ciphertext) ELSE UNCHANGED transit
    BY <2>1
  <2> HIDE DEF d, t
  <2> QED
    BY <1>1, <1>3, <2>2, <2>3, <2>4 DEF Outcome, Sealed
<1>17. CASE Decrypt
  BY <1>1, <1>17, DecryptedEffect DEF Decrypt
<1>18. CASE DecryptDetached
  <2>1. PICK e \in Encryptor, aad \in Aad, ct \in transit :
          msg' = DecryptedDetached(msg, e, ct, aad).msg
    BY <1>18 DEF DecryptDetached
  <2>2. IsMessage(msg') /\ (msg' = msg \/ Stored(msg, msg'))
    BY <1>1, <2>1, DecryptedDetachedEffect
  <2> QED
    BY <1>1, <1>18, <2>2 DEF DecryptDetached, Untouched
<1>19. CASE FromSlice
  <2>1. PICK w \in Wires : CanDecode(w) /\ msg' = Decoded(w)
    BY <1>19 DEF FromSlice
  <2>2. w \in ForeignWire \/ (CanEncode(msg) /\ w = WireOf(msg))
    BY <2>1 DEF Wires
  <2>3. IsMessage(msg') /\ (Loaded(msg') \/ Stored(msg, msg'))
    BY <1>1, <2>1, <2>2, ForeignEffect, ReturnedEffect
  <2> QED
    BY <1>1, <1>19, <2>3 DEF FromSlice
<1>20. CASE UNCHANGED vars
  BY <1>1, <1>20 DEF vars, Untouched
<1> QED
  BY <1>4, <1>5, <1>6, <1>7, <1>9, <1>10, <1>11, <1>12, <1>13,
     <1>14, <1>15, <1>16, <1>17, <1>18, <1>19, <1>20 DEF Next

(* The message object and the ciphertexts apart from it keep their types   *)
(* under every sequence of calls (encrypt.rs, struct EncryptMessage).      *)
THEOREM TypeCorrect == Spec => []TypeOK
<1>1. Init => TypeOK
  BY NewEffect DEF Init, TypeOK
<1>2. TypeOK /\ [Next]_vars => TypeOK'
  BY StepEffect
<1> QED
  BY <1>1, <1>2, PTL DEF Spec

(* The private fields always agree with the state: no ciphertext outlives  *)
(* a new preparation, prepared bytes are canonical, stored bytes decode    *)
(* (encrypt.rs, prepare_encryption and set_ciphertext).                    *)
THEOREM LifecycleCorrect == Spec => []LifecycleOK
<1>1. Init => LifecycleOK
  <2> SUFFICES ASSUME NEW c \in Context, NEW p \in Payload \cup {None},
                      msg = New(c, p)
               PROVE  LifecycleOK
    BY DEF Init
  <2> QED
    BY EmptyHeaderType DEF New, LifecycleOK, Decodable, EncodeProtected
<1>2. TypeOK /\ LifecycleOK /\ [Next]_vars => LifecycleOK'
  <2> SUFFICES ASSUME TypeOK, LifecycleOK, [Next]_vars
               PROVE  LifecycleOK'
    OBVIOUS
  <2>1. Effect(msg, msg')
    BY StepEffect
  <2>2. CASE Renewed(msg')
    BY <2>2, EmptyHeaderType
    DEF Renewed, LifecycleOK, Decodable, EncodeProtected
  <2>3. CASE Untouched(msg, msg')
    BY <2>3 DEF Untouched, LifecycleOK
  <2>4. CASE Prepared(msg')
    BY <2>4 DEF Prepared, LifecycleOK, Decodable, EncodeProtected
  <2>5. CASE Stored(msg, msg')
    BY <2>5 DEF Stored, LifecycleOK, Decodable, EncodeProtected
  <2>6. CASE Completed(msg')
    BY <2>6 DEF Completed, LifecycleOK, Decodable, EncodeProtected
  <2>7. CASE Loaded(msg')
    BY <2>7 DEF Loaded, LifecycleOK
  <2> QED
    BY <2>1, <2>2, <2>3, <2>4, <2>5, <2>6, <2>7 DEF Effect
<1> QED
  BY <1>1, <1>2, TypeCorrect, PTL DEF Spec

(* The message object implements an authenticated layer, though its        *)
(* ciphertext may leave it and come back: the protected bytes are frozen   *)
(* while a ciphertext under them is pending, stored or apart.              *)
THEOREM Refinement == Spec => ImplementsAuthLayer
<1> USE DEF BytesDenote, BytesFresh, DecodeProtected
<1>1. Init => Layer!Init
  BY DEF Init, New, Layer!Init
<1>2. TypeOK /\ [Next]_vars => [Layer!Next]_(Layer!layer)
  <2> SUFFICES ASSUME TypeOK, [Next]_vars
               PROVE  [Layer!Next]_(Layer!layer)
    OBVIOUS
  <2> USE DEF Layer!Next
  <2>1. Effect(msg, msg')
    BY StepEffect
  <2>2. CASE Renewed(msg')
    BY <2>2 DEF Renewed, Layer!Renew, Layer!Init
  <2>3. CASE Untouched(msg, msg')
    BY <2>3 DEF Untouched, Layer!Edit
  <2>4. CASE Prepared(msg')
    BY <2>4 DEF Prepared, Layer!Prepare
  <2>5. CASE Stored(msg, msg')
    BY <2>5 DEF Stored, Layer!Store
  <2>6. CASE Completed(msg')
    BY <2>6 DEF Completed, Layer!Produce
  <2>7. CASE Loaded(msg')
    BY <2>7 DEF Loaded, Layer!Load
  <2> QED
    BY <2>1, <2>2, <2>3, <2>4, <2>5, <2>6, <2>7 DEF Effect
<1> QED
  BY <1>1, <1>2, TypeCorrect, PTL DEF Spec, ImplementsAuthLayer, Layer!Spec
(* What decrypts was sealed for this kind of message, under the headers,   *)
(* external data and key that the caller sees, and a decryption that fails *)
(* changes nothing (encrypt.rs, decrypt and decrypt_detached).             *)
THEOREM DecryptionCorrect == Spec => []DecryptedIsWhatWasSealed
<1>1. ASSUME TypeOK, NEW e \in Encryptor, NEW aad \in Aad,
             NEW ct, CanOpen(msg, e, ct, aad), NEW n,
             n.ciphertext = ct, n.payload = ct.plain,
             n.context = msg.context, n.protected = msg.protected,
             n.unprotected = msg.unprotected
      PROVE  SealedAsSeen(n, e, aad)
  <2> DEFINE over == ToBeEncrypted(msg, aad)
  <2>1. /\ ct # None /\ ct.by = e.key /\ ct.aad = over
        /\ ct.nonce = Nonce(msg, e.nonce_size, e.base_iv)
    BY <1>1 DEF CanOpen, Opens
  <2>2. /\ over[1] = msg.context /\ over[2] = msg.protected_raw
        /\ over[3] = aad
    BY DEF ToBeEncrypted
  <2> HIDE DEF over
  <2>3. DecodeProtected(msg.protected_raw) = msg.protected
    BY <1>1, ViewOfValidBytes DEF CanOpen, PrepareDecryption, ValidateLayer
  <2>4. Get(msg.protected, "alg") \in {None, e.alg} \/ e.alg = None
    BY <1>1, HeaderConstants
    DEF CanOpen, PrepareDecryption, CheckProtectedAlg, DeclaredAlg, Get
  <2>5. EnsureCritUnderstood(msg.protected, e.understood)
    BY <1>1 DEF CanOpen, PrepareDecryption
  <2>6. Nonce(n, e.nonce_size, e.base_iv)
          = Nonce(msg, e.nonce_size, e.base_iv)
    BY <1>1, NonceOfHeaders
  <2> QED
    BY <1>1, <2>1, <2>2, <2>3, <2>4, <2>5, <2>6 DEF SealedAsSeen
<1>2. ASSUME TypeOK, NEW e \in Encryptor, NEW aad \in Aad
      PROVE  LET r == Decrypted(msg, e, aad)
             IN IF r.ok THEN SealedAsSeen(r.msg, e, aad) ELSE r.msg = msg
  <2> DEFINE n == [msg EXCEPT !.payload = msg.ciphertext.plain]
             r == Decrypted(msg, e, aad)
  <2>1. CASE ~ msg.ciphertext_detached
             /\ CanOpen(msg, e, msg.ciphertext, aad)
    <3>1. r.ok = TRUE /\ r.msg = n
      BY <2>1 DEF Decrypted, Ok
    <3>2. /\ n.ciphertext = msg.ciphertext
          /\ n.payload = msg.ciphertext.plain /\ n.context = msg.context
          /\ n.protected = msg.protected
          /\ n.unprotected = msg.unprotected
      BY <1>2 DEF TypeOK, IsMessage, Message
    <3> HIDE DEF n, r
    <3>3. SealedAsSeen(n, e, aad)
      BY <1>1, <1>2, <2>1, <3>2
    <3> QED
      BY <3>1, <3>3 DEF r
  <2>2. CASE ~ (~ msg.ciphertext_detached
                /\ CanOpen(msg, e, msg.ciphertext, aad))
    BY <2>2 DEF Decrypted, Err
  <2> QED
    BY <2>1, <2>2
<1>3. ASSUME TypeOK, NEW e \in Encryptor, NEW aad \in Aad, NEW ct \in transit
      PROVE  LET r == DecryptedDetached(msg, e, ct, aad)
             IN IF r.ok THEN SealedAsSeen(r.msg, e, aad) ELSE r.msg = msg
  <2> DEFINE n == [msg EXCEPT !.ciphertext = ct, !.payload = ct.plain]
             r == DecryptedDetached(msg, e, ct, aad)
  <2>1. CASE msg.ciphertext_detached /\ CanOpen(msg, e, ct, aad)
    <3>1. r.ok = TRUE /\ r.msg = n
      BY <2>1 DEF DecryptedDetached, Ok
    <3>2. /\ n.ciphertext = ct /\ n.payload = ct.plain
          /\ n.context = msg.context /\ n.protected = msg.protected
          /\ n.unprotected = msg.unprotected
      BY <1>3 DEF TypeOK, IsMessage, Message
    <3> HIDE DEF n, r
    <3>3. SealedAsSeen(n, e, aad)
      BY <1>1, <1>3, <2>1, <3>2
    <3> QED
      BY <3>1, <3>3 DEF r
  <2>2. CASE ~ (msg.ciphertext_detached /\ CanOpen(msg, e, ct, aad))
    BY <2>2 DEF DecryptedDetached, Err
  <2> QED
    BY <2>1, <2>2
<1>4. TypeOK => DecryptedIsWhatWasSealed
  BY <1>2, <1>3 DEF DecryptedIsWhatWasSealed
<1> QED
  BY <1>4, TypeCorrect, PTL

-----------------------------------------------------------------------------
(* Encrypting and decrypting.                                              *)

(* What encodes decodes, if a parser reads as deep as its recipients.      *)
LEMMA EncodedMessageDecodes ==
  ASSUME NEW m, IsMessage(m), CanEncode(m), Readable(m.recipients)
  PROVE  /\ CanDecode(WireOf(m))
         /\ Seen(Decoded(WireOf(m)).recipients) = Seen(m.recipients)
         /\ Decoded(WireOf(m)).protected = m.protected
<1> DEFINE w == WireOf(m)
           d == Decoded(w)
<1>1. /\ w.context = m.context /\ w.protected = m.protected_raw
      /\ w.recipients = EncodedRecipients(m.recipients)
      /\ d.unprotected = m.unprotected
      /\ d.protected = DecodeProtected(m.protected_raw)
      /\ d.recipients = DecodedRecipients(EncodedRecipients(m.recipients))
  BY DEF WireOf, Decoded
<1> HIDE DEF d, w
<1>2. d.protected = m.protected
  BY <1>1, ViewOfValidBytes DEF CanEncode, ValidateLayer
<1>3. ValidateHeaderBuckets(d) /\ Decodable(w.protected)
  BY <1>1, <1>2
  DEF CanEncode, ValidateLayer, ValidateHeaderBuckets, Decodable,
      DecodeProtected
<1>4. CASE m.context = "Encrypt"
  <2>1. ValidateRecipients(m.recipients) /\ Forest(m.recipients)
    BY <1>4 DEF CanEncode, RecipientsOk, IsMessage
  <2>2. CanDecodeRecipients(w.recipients)
    BY <1>1, <2>1, EncodedDecodes
  <2>3. Seen(d.recipients) = Seen(m.recipients)
    BY <1>1, <2>1, SeenAcrossTheWire DEF ValidateRecipients
  <2> QED
    BY <1>2, <1>3, <2>2, <2>3 DEF CanDecode, d, w
<1>5. CASE m.context = "Encrypt0"
  <2>1. d.recipients = m.recipients
    BY <1>1, <1>5, NoRecipientsAcrossTheWire DEF IsMessage
  <2> QED
    BY <1>1, <1>2, <1>3, <1>5, <2>1 DEF CanDecode, d, w
<1> QED
  BY <1>4, <1>5 DEF IsMessage, Message, Context

(* Messages that differ in what a reader does not see of their recipients. *)
LEMMA SameAsSeen ==
  ASSUME NEW m, IsMessage(m), NEW n, IsMessage(n),
         m.context = n.context, m.protected = n.protected,
         m.unprotected = n.unprotected, m.payload = n.payload,
         m.ciphertext = n.ciphertext, m.state = n.state,
         m.ciphertext_detached = n.ciphertext_detached,
         m.protected_raw = n.protected_raw,
         Seen(m.recipients) = Seen(n.recipients)
  PROVE  AsSeen(m) = AsSeen(n)
BY DEF AsSeen, IsMessage, Message

(* A sealed message opens for whoever reads so deep and has the key.       *)
LEMMA SealedOpens ==
  ASSUME NEW n, NEW e, NEW aad, NEW detached \in BOOLEAN,
         Sealed(n, e, aad, detached), Readable(n.recipients),
         NEW o, Suits(o, e, n)
  PROVE  OpensTo(WireOf(n), o, aad, n)
<1> DEFINE w == WireOf(n)
           d == Decoded(w)
           g == [d EXCEPT !.ciphertext = n.ciphertext, !.payload = n.payload]
<1>1. IsMessage(n) /\ CanEncode(n)
  BY SealedEncodes DEF Sealed
<1>2. /\ CanDecode(w) /\ Seen(d.recipients) = Seen(n.recipients)
      /\ d.protected = n.protected
  BY <1>1, EncodedMessageDecodes
<1>3. /\ w.nil = detached
      /\ d = [context |-> n.context, protected |-> d.protected,
              unprotected |-> n.unprotected, payload |-> None,
              recipients |-> d.recipients,
              ciphertext |-> IF detached THEN None ELSE n.ciphertext,
              ciphertext_detached |-> detached,
              protected_raw |-> n.protected_raw, state |-> "Complete"]
  BY DEF WireOf, Decoded, Sealed
<1> HIDE DEF d, w
<1>4. /\ d.context = n.context /\ d.unprotected = n.unprotected
      /\ d.protected_raw = n.protected_raw /\ d.state = "Complete"
      /\ d.ciphertext_detached = detached
      /\ ~ detached => d.ciphertext = n.ciphertext
  BY <1>3
<1>5. CanOpen(d, o, n.ciphertext, aad)
  <2>1. Nonce(d, o.nonce_size, o.base_iv) = Nonce(n, o.nonce_size, o.base_iv)
    BY <1>2, <1>4, NonceOfHeaders
  <2>2. Nonce(n, o.nonce_size, o.base_iv) = Nonce(n, e.nonce_size, e.base_iv)
        /\ o.key = e.key
    BY DEF Suits
  <2>3. /\ n.ciphertext.by = e.key
        /\ n.ciphertext.nonce = Nonce(n, e.nonce_size, e.base_iv)
        /\ n.ciphertext.aad = ToBeEncrypted(n, aad)
    BY DEF Sealed, SealedBy, Seal
  <2>4. ToBeEncrypted(d, aad) = ToBeEncrypted(n, aad)
    BY <1>4 DEF ToBeEncrypted
  <2>5. n.ciphertext # None
    BY NoneIsNoCiphertext DEF Sealed
  <2>6. Opens(n.ciphertext, o.key, Nonce(d, o.nonce_size, o.base_iv),
              ToBeEncrypted(d, aad))
    BY <2>1, <2>2, <2>3, <2>4, <2>5 DEF Opens
  <2>7. ValidateLayer(d)
    BY <1>1, <1>2, <1>4
    DEF CanEncode, ValidateLayer, ValidateHeaderBuckets
  <2>8. CheckProtectedAlg(d, o.alg)
        /\ EnsureCritUnderstood(d.protected, o.understood)
    BY <1>2, <1>4 DEF Suits, CheckProtectedAlg, DeclaredAlg
  <2>9. Nonce(d, o.nonce_size, o.base_iv) # None
    BY <2>1, <2>2 DEF Sealed, HasNonce
  <2> QED
    BY <1>4, <2>6, <2>7, <2>8, <2>9 DEF CanOpen, PrepareDecryption
<1>6. n.ciphertext.plain = n.payload
  BY DEF Sealed, SealedBy, Seal
<1>7. AsSeen(g) = AsSeen(n)
  <2>1. IsMessage(d)
    BY <1>1, WireOfMessage, DecodedIsMessage DEF d, w
  <2>2. n.ciphertext \in Ciphertext /\ n.payload \in Payload \cup {None}
    BY <1>1 DEF Sealed, IsMessage, Message
  <2>3. /\ IsMessage(g) /\ g.ciphertext = n.ciphertext
        /\ g.payload = n.payload /\ g.context = d.context
        /\ g.protected = d.protected /\ g.unprotected = d.unprotected
        /\ g.protected_raw = d.protected_raw /\ g.state = d.state
        /\ g.ciphertext_detached = d.ciphertext_detached
        /\ g.recipients = d.recipients
    BY <2>1, <2>2 DEF IsMessage, Message
  <2>4. n.state = "Complete" /\ n.ciphertext_detached = detached
    BY DEF Sealed, Completed
  <2> HIDE DEF g
  <2> QED
    BY <1>1, <1>2, <1>4, <2>3, <2>4, SameAsSeen
<1>8. CASE detached
  <2>1. DecryptDetachedAndDecode(w, o, n.ciphertext, aad) = Ok(g)
    BY <1>2, <1>4, <1>5, <1>6, <1>8
    DEF DecryptDetachedAndDecode, DecryptedDetached, d
  <2> HIDE DEF g
  <2> QED
    BY <1>3, <1>7, <1>8, <2>1 DEF OpensTo, Ok, w
<1>9. CASE ~ detached
  <2>1. g = [d EXCEPT !.payload = n.payload]
    BY <1>3, <1>4, <1>9
  <2>2. DecryptAndDecode(w, o, aad) = Ok(g)
    BY <1>2, <1>4, <1>5, <1>6, <1>9, <2>1
    DEF DecryptAndDecode, Decrypted, d
  <2> HIDE DEF g
  <2> QED
    BY <1>3, <1>7, <1>9, <2>2 DEF OpensTo, Ok, w
<1> QED
  BY <1>8, <1>9

(* From every state an encryption that returns Ok gives a message that     *)
(* encodes and opens, whole or with its ciphertext apart (encrypt.rs,      *)
(* encrypt, encrypt_detached and encrypt_detached_and_encode).             *)
THEOREM EncryptThenDecryptCorrect == Spec => []EncryptThenDecrypt
<1>1. ASSUME TypeOK, NEW e \in Encryptor, NEW aad \in Aad
      PROVE  LET r == Encrypted(msg, e, aad, TRUE)
                 d == EncryptedDetached(msg, e, aad, TRUE)
                 t == TakenAndEncoded(d)
                 whole == WireOf(r.msg)
                 apart == WireOf(t.msg)
             IN /\ r.ok = d.ok /\ d.ok = t.ok
                /\ r.ok =>
                     /\ CanEncode(r.msg) /\ CanEncode(t.msg)
                     /\ apart = WireOf(d.msg) /\ apart.nil /\ ~ whole.nil
                     /\ \A o \in {x \in Encryptor :
                                  /\ Readable(r.msg.recipients)
                                  /\ Suits(x, e, r.msg)} :
                          /\ OpensTo(whole, o, aad, r.msg)
                          /\ OpensTo(apart, o, aad, d.msg)
  <2> DEFINE r == Encrypted(msg, e, aad, TRUE)
             d == EncryptedDetached(msg, e, aad, TRUE)
             t == TakenAndEncoded(d)
  <2>1. IsMessage(msg)
    BY <1>1 DEF TypeOK
  <2>2. r.ok => Sealed(r.msg, e, aad, FALSE)
    BY <2>1, EncryptedEffect
  <2>3. /\ d.ok = r.ok
        /\ d.ok => Sealed(d.msg, e, aad, TRUE) /\ d.msg = Apart(r.msg)
    BY <2>1, EncryptedDetachedEffect
  <2>4. t.ok = d.ok /\ (t.ok => t.msg = Taken(d.msg))
    BY <2>1, TakenAndEncodedEffect
  <2> HIDE DEF r, d, t
  <2>5. ASSUME r.ok
        PROVE  /\ CanEncode(r.msg) /\ CanEncode(t.msg)
               /\ WireOf(t.msg) = WireOf(d.msg) /\ WireOf(t.msg).nil
               /\ ~ WireOf(r.msg).nil
    <3>1. /\ t.msg.context = d.msg.context /\ t.msg.state = d.msg.state
          /\ t.msg.protected = d.msg.protected
          /\ t.msg.unprotected = d.msg.unprotected
          /\ t.msg.protected_raw = d.msg.protected_raw
          /\ t.msg.recipients = d.msg.recipients
          /\ t.msg.ciphertext_detached = TRUE
          /\ d.msg.ciphertext_detached = TRUE
      BY <2>3, <2>4, <2>5 DEF Taken, Sealed, IsMessage, Message
    <3>2. CanEncode(r.msg) /\ CanEncode(d.msg)
      BY <2>2, <2>3, <2>5, SealedEncodes
    <3>3. CanEncode(t.msg)
      BY <3>1, <3>2
      DEF CanEncode, RecipientsOk, ValidateLayer, ValidateHeaderBuckets
    <3>4. WireOf(t.msg) = WireOf(d.msg) /\ WireOf(t.msg).nil
      BY <3>1 DEF WireOf
    <3>5. ~ WireOf(r.msg).nil
      BY <2>2, <2>5 DEF WireOf, Sealed
    <3> QED
      BY <3>2, <3>3, <3>4, <3>5
  <2>6. ASSUME r.ok, NEW o, Readable(r.msg.recipients), Suits(o, e, r.msg)
        PROVE  /\ OpensTo(WireOf(r.msg), o, aad, r.msg)
               /\ OpensTo(WireOf(t.msg), o, aad, d.msg)
    <3>1. OpensTo(WireOf(r.msg), o, aad, r.msg)
      BY <2>2, <2>6, SealedOpens
    <3>2. /\ d.msg.protected = r.msg.protected
          /\ d.msg.unprotected = r.msg.unprotected
          /\ d.msg.recipients = r.msg.recipients
      BY <2>2, <2>3, <2>6 DEF Apart, Sealed, IsMessage, Message
    <3>3. /\ Nonce(d.msg, o.nonce_size, o.base_iv)
               = Nonce(r.msg, o.nonce_size, o.base_iv)
          /\ Nonce(d.msg, e.nonce_size, e.base_iv)
               = Nonce(r.msg, e.nonce_size, e.base_iv)
      BY <3>2, NonceOfHeaders
    <3>4. Suits(o, e, d.msg)
      BY <2>6, <3>2, <3>3 DEF Suits, CheckProtectedAlg, DeclaredAlg
    <3>5. OpensTo(WireOf(d.msg), o, aad, d.msg)
      BY <2>3, <2>6, <3>2, <3>4, SealedOpens
    <3> QED
      BY <2>5, <2>6, <3>1, <3>5
  <2> QED
    BY <2>3, <2>4, <2>5, <2>6 DEF r, d, t
<1>2. TypeOK => EncryptThenDecrypt
  <2> SUFFICES ASSUME TypeOK
               PROVE  EncryptThenDecrypt
    OBVIOUS
  <2> USE DEF EncryptThenDecrypt
  <2> TAKE e \in Encryptor, aad \in Aad
  <2> TAKE r \in {Encrypted(msg, e, aad, TRUE)},
           d \in {EncryptedDetached(msg, e, aad, TRUE)}
  <2> TAKE t \in {TakenAndEncoded(d)}
  <2> TAKE whole \in {WireOf(r.msg)}, apart \in {WireOf(t.msg)}
  <2>1. /\ r = Encrypted(msg, e, aad, TRUE)
        /\ d = EncryptedDetached(msg, e, aad, TRUE)
        /\ t = TakenAndEncoded(d)
        /\ whole = WireOf(r.msg) /\ apart = WireOf(t.msg)
    OBVIOUS
  <2> QED
    BY <1>1, <2>1
<1> QED
  BY <1>2, TypeCorrect, PTL

(* XOR with one Base IV and filling up to one length lose nothing.         *)
LEMMA PaddedApart ==
  ASSUME NEW size \in Nat, NEW base \in Seq(Byte), Len(base) = size,
         NEW piv1 \in Seq(Byte), Len(piv1) <= size,
         NEW piv2 \in Seq(Byte), Len(piv2) <= size,
         Xor(LeftPad(piv1, size), base) = Xor(LeftPad(piv2, size), base)
  PROVE  Number(piv1) = Number(piv2)
<1> DEFINE pad1 == LeftPad(piv1, size)
           pad2 == LeftPad(piv2, size)
<1>1. DOMAIN pad1 = 1..size /\ DOMAIN pad2 = 1..size
  BY DEF LeftPad
<1>2. ASSUME NEW piv \in Seq(Byte), Len(piv) <= size
      PROVE  /\ \A i \in 1..size : LeftPad(piv, size)[i] \in Byte
             /\ Number(piv) =
                  {size - i : i \in {j \in 1..size : LeftPad(piv, size)[j] = "1"}}
  <2> DEFINE z == size - Len(piv)
             pad == LeftPad(piv, size)
             ones == {j \in DOMAIN piv : piv[j] = "1"}
             high == {j \in 1..size : pad[j] = "1"}
  <2>1. z \in Nat /\ Len(piv) \in Nat /\ DOMAIN piv = 1..Len(piv)
    BY <1>2
  <2>2. \A i \in 1..size :
          pad[i] = IF i <= z THEN "0" ELSE piv[i - z]
    BY DEF LeftPad
  <2>3. \A i \in 1..size : i > z => i - z \in DOMAIN piv
    BY <2>1
  <2>4. \A i \in 1..size : pad[i] \in Byte
    BY <1>2, <2>1, <2>2, <2>3 DEF Byte
  <2>5. ASSUME NEW x \in Number(piv)
        PROVE  x \in {size - i : i \in high}
    <3>1. PICK j \in ones : x = Len(piv) - j
      BY DEF Number
    <3>2. j + z \in 1..size /\ j + z > z /\ (j + z) - z = j
      BY <2>1
    <3>3. pad[j + z] = "1"
      BY <2>2, <3>2
    <3>4. x = size - (j + z)
      BY <2>1, <3>1
    <3> HIDE DEF pad, z
    <3> QED
      BY <3>2, <3>3, <3>4
  <2>6. ASSUME NEW i \in high
        PROVE  size - i \in Number(piv)
    <3>1. i > z /\ piv[i - z] = "1" /\ i - z \in DOMAIN piv
      BY <2>1, <2>2, <2>3
    <3>2. i - z \in ones
      BY <3>1
    <3>3. size - i = Len(piv) - (i - z)
      BY <2>1
    <3> HIDE DEF z
    <3> QED
      BY <3>2, <3>3 DEF Number
  <2> QED
    BY <2>4, <2>5, <2>6
<1>3. ASSUME NEW i \in 1..size
      PROVE  pad1[i] = pad2[i]
  <2>1. pad1[i] \in Byte /\ pad2[i] \in Byte /\ base[i] \in Byte
    BY <1>2
  <2> DEFINE both1 == Xor(pad1, base)
             both2 == Xor(pad2, base)
  <2>2. both1 = both2
    OBVIOUS
  <2>3. /\ both1[i] = IF pad1[i] = base[i] THEN "0" ELSE "1"
        /\ both2[i] = IF pad2[i] = base[i] THEN "0" ELSE "1"
    BY <1>1 DEF Xor
  <2> HIDE DEF both1, both2, pad1, pad2
  <2> QED
    BY <2>1, <2>2, <2>3 DEF Byte
<1>4. {j \in 1..size : pad1[j] = "1"} = {j \in 1..size : pad2[j] = "1"}
  BY <1>3
<1> HIDE DEF pad1, pad2
<1>5. Number(piv1) = {size - i : i \in {j \in 1..size : pad1[j] = "1"}}
  BY <1>2 DEF pad1
<1>6. Number(piv2) = {size - i : i \in {j \in 1..size : pad2[j] = "1"}}
  BY <1>2 DEF pad2
<1> QED
  BY <1>4, <1>5, <1>6

(* The cases of nonce_from_header_values that give a nonce.                *)
LEMMA NonceCases ==
  ASSUME NEW m, NEW size \in Nat, NEW base, Nonce(m, size, base) # None
  PROVE  LET n == Nonce(m, size, base)
             piv == HeaderBytes(m, "piv")
         IN \/ piv = None /\ Len(n) = size
            \/ /\ piv \in Seq(Byte) /\ Len(piv) <= size
               /\ base # None /\ Len(base) = size
               /\ n = Xor(LeftPad(piv, size), base)
<1> DEFINE iv == HeaderBytes(m, "iv")
           piv == HeaderBytes(m, "piv")
           n == Nonce(m, size, base)
           bad == ~ ({iv, piv} \subseteq NonceBytes \cup {None})
                    \/ None \notin {iv, piv}
           both == Xor(LeftPad(piv, size), base)
<1>1. n = IF bad THEN None
          ELSE IF piv = None
          THEN IF iv # None /\ Len(iv) = size THEN iv ELSE None
          ELSE IF base # None /\ Len(base) = size /\ Len(piv) <= size
          THEN both ELSE None
  BY DEF Nonce
<1>2. n # None
  OBVIOUS
<1> HIDE DEF both, n
<1>3. {iv, piv} \subseteq NonceBytes \cup {None} /\ None \in {iv, piv}
  BY <1>1, <1>2
<1> HIDE DEF iv, piv, bad
<1>4. CASE piv = None
  <2>1. n = iv /\ Len(iv) = size
    BY <1>1, <1>2, <1>4
  <2> QED
    BY <1>4, <2>1 DEF n, piv
<1>5. CASE piv # None
  <2>1. n = Xor(LeftPad(piv, size), base) /\ base # None /\ Len(base) = size
        /\ Len(piv) <= size
    BY <1>1, <1>2, <1>5 DEF both
  <2>2. piv \in Seq(Byte)
    BY <1>3, <1>5, NonceConstants
  <2> QED
    BY <2>1, <2>2 DEF n, piv
<1> QED
  BY <1>4, <1>5

(* Under one Base IV, Partial IVs that are different numbers give          *)
(* different nonces, for byte strings of any length (util.rs,              *)
(* nonce_from_header_values).                                              *)
THEOREM PartialIvsCorrect == Spec => []PartialIvsGiveDistinctNonces
<1>1. ASSUME NEW m, NEW e \in Encryptor, Nonce(m, e.nonce_size, e.base_iv) # None
      PROVE  Len(Nonce(m, e.nonce_size, e.base_iv)) = e.nonce_size
  <2> DEFINE n == Nonce(m, e.nonce_size, e.base_iv)
             pad == LeftPad(HeaderBytes(m, "piv"), e.nonce_size)
  <2>1. e.nonce_size \in Nat
    BY EncryptConstants
  <2>2. Len(n) = e.nonce_size \/ n = Xor(pad, e.base_iv)
    BY <1>1, <2>1, NonceCases
  <2>3. DOMAIN pad = 1..e.nonce_size
    BY DEF LeftPad
  <2>4. Xor(pad, e.base_iv) \in [1..e.nonce_size -> Byte]
    BY <2>3 DEF Xor, Byte
  <2>5. Len(Xor(pad, e.base_iv)) = e.nonce_size
    <3> HIDE DEF pad
    <3> QED
      BY <2>1, <2>4
  <2> HIDE DEF n, pad
  <2> QED
    BY <2>2, <2>5 DEF n
<1>2. ASSUME NEW m1, NEW m2, NEW e \in Encryptor,
             Nonce(m1, e.nonce_size, e.base_iv) # None,
             Nonce(m1, e.nonce_size, e.base_iv)
               = Nonce(m2, e.nonce_size, e.base_iv),
             HeaderBytes(m1, "piv") # None, HeaderBytes(m2, "piv") # None
      PROVE  Number(HeaderBytes(m1, "piv")) = Number(HeaderBytes(m2, "piv"))
  <2> DEFINE piv1 == HeaderBytes(m1, "piv")
             piv2 == HeaderBytes(m2, "piv")
             size == e.nonce_size
             base == e.base_iv
  <2>1. size \in Nat /\ base \in NonceBytes \cup {None}
    BY EncryptConstants
  <2>2. /\ piv1 \in Seq(Byte) /\ Len(piv1) <= size
        /\ base # None /\ Len(base) = size
        /\ Nonce(m1, size, base) = Xor(LeftPad(piv1, size), base)
    BY <1>2, <2>1, NonceCases
  <2>3. /\ piv2 \in Seq(Byte) /\ Len(piv2) <= size
        /\ Nonce(m2, size, base) = Xor(LeftPad(piv2, size), base)
    BY <1>2, <2>1, NonceCases
  <2>4. base \in Seq(Byte)
    BY <2>1, <2>2, NonceConstants
  <2>5. Xor(LeftPad(piv1, size), base) = Xor(LeftPad(piv2, size), base)
    BY <1>2, <2>2, <2>3
  <2> HIDE DEF piv1, piv2, size, base
  <2>6. Number(piv1) = Number(piv2)
    BY <2>1, <2>2, <2>3, <2>4, <2>5, PaddedApart
  <2> QED
    BY <2>6 DEF piv1, piv2
<1>3. PartialIvsGiveDistinctNonces
  <2> SUFFICES
        ASSUME NEW h \in UnprotectedEdit, NEW e \in Encryptor
        PROVE  LET m == [msg EXCEPT !.unprotected = h]
                   n1 == Nonce(msg, e.nonce_size, e.base_iv)
                   n2 == Nonce(m, e.nonce_size, e.base_iv)
                   piv1 == HeaderBytes(msg, "piv")
                   piv2 == HeaderBytes(m, "piv")
               IN /\ n1 # None => Len(n1) = e.nonce_size
                  /\ (n1 # None /\ n1 = n2 /\ None \notin {piv1, piv2})
                       => Number(piv1) = Number(piv2)
    BY DEF PartialIvsGiveDistinctNonces
  <2> QED
    BY <1>1, <1>2
<1> QED
  BY <1>3, PTL
=============================================================================
