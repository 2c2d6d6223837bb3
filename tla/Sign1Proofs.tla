----------------------------- MODULE Sign1Proofs -----------------------------
(***************************************************************************)
(* Proofs about Sign1Message, for every choice of its constants: type      *)
(* correctness, the agreement of the private fields with the state, that   *)
(* what verification accepts is what was signed, that what signs verifies, *)
(* and that the bytes of others are verified as they came.                 *)
(***************************************************************************)
EXTENDS Sign1Message, HeaderProofs

-----------------------------------------------------------------------------
(* Headers.                                                                *)

(* The private fields of a message, and the payload.                       *)
SameButHeaders(m, n) ==
  /\ n.payload = m.payload /\ n.signature = m.signature
  /\ n.protected_raw = m.protected_raw /\ n.state = m.state

(* prepare_headers writes header fields only; when it succeeds the buckets *)
(* are valid.                                                              *)
LEMMA PrepareHeadersEffect ==
  ASSUME NEW m \in Message, NEW alg \in Alg \cup {None},
         NEW kid \in Kid \cup {None}
  PROVE  LET h == PrepareHeaders(m, alg, kid)
         IN /\ h.msg \in Message /\ h.ok \in BOOLEAN
            /\ SameButHeaders(m, h.msg)
            /\ h.ok => /\ ValidateHeaderBuckets(h.msg)
                       /\ ValidateCommon(h.msg.protected)
<1> DEFINE Rewritten == {n \in Message : SameButHeaders(m, n)}
<1>1. m \in Rewritten /\ ClosedUnderEdits(Rewritten)
  BY DEF ClosedUnderEdits, Message, SameButHeaders
<1> HIDE DEF Rewritten
<1>2. LET h == PrepareHeaders(m, alg, kid)
      IN /\ h.msg \in Rewritten /\ h.ok \in BOOLEAN
         /\ h.ok => ValidateHeaderBuckets(h.msg)
  BY <1>1, PrepareHeadersKeeps
<1> QED
  BY <1>2 DEF ValidateHeaderBuckets, Rewritten

-----------------------------------------------------------------------------
(* The methods.                                                            *)

(* What every method but new, from_slice and the public fields does to the *)
(* private fields of m: it leaves them alone, prepares the message, or     *)
(* completes it.                                                           *)
Prepared(n) ==
  /\ n.state = "Prepared" /\ n.signature = None
  /\ n.protected_raw = EncodeProtected(n.protected)
  /\ ValidateCommon(n.protected)

Untouched(m, n) ==
  /\ n.signature = m.signature /\ n.protected_raw = m.protected_raw
  /\ n.state = m.state

(* prepare_signature_headers prepares the message or, when it fails,       *)
(* leaves its private fields as they were.                                 *)
LEMMA PrepareSignatureHeadersEffect ==
  ASSUME NEW m \in Message, NEW alg \in Alg \cup {None},
         NEW kid \in Kid \cup {None}
  PROVE  LET p == PrepareSignatureHeaders(m, alg, kid)
         IN /\ p.msg \in Message /\ p.ok \in BOOLEAN
            /\ p.msg.payload = m.payload
            /\ p.ok => Prepared(p.msg)
            /\ ~ p.ok => Untouched(m, p.msg)
<1> DEFINE h == PrepareHeaders(m, alg, kid)
           p == PrepareSignatureHeaders(m, alg, kid)
           n == [h.msg EXCEPT !.signature = None, !.state = "Prepared",
                        !.protected_raw = EncodeProtected(h.msg.protected)]
<1>1. /\ h.msg \in Message /\ h.ok \in BOOLEAN /\ SameButHeaders(m, h.msg)
      /\ h.ok => ValidateCommon(h.msg.protected)
  BY PrepareHeadersEffect
<1>2. p = IF h.ok THEN [ok |-> TRUE, msg |-> n] ELSE h
  BY DEF PrepareSignatureHeaders, Ok
<1> HIDE DEF h, p
<1>3. EncodeProtected(h.msg.protected) \in ProtectedRaw
  BY <1>1, EncodeProtectedType DEF Message
<1>4. /\ n \in Message
      /\ n.payload = h.msg.payload /\ n.protected = h.msg.protected
      /\ n.signature = None /\ n.state = "Prepared"
      /\ n.protected_raw = EncodeProtected(h.msg.protected)
  BY <1>1, <1>3 DEF Message, State
<1> HIDE DEF n
<1>5. CASE h.ok
  BY <1>1, <1>2, <1>4, <1>5 DEF Prepared, SameButHeaders, p
<1>6. CASE ~ h.ok
  BY <1>1, <1>2, <1>6 DEF Untouched, SameButHeaders, p
<1> QED
  BY <1>1, <1>5, <1>6

(* prepare_signature fails in one more case, and changes nothing else.     *)
LEMMA PrepareEmbeddedFields ==
  ASSUME NEW m, NEW alg, NEW kid
  PROVE  /\ PrepareEmbedded(m, alg, kid).msg
              = PrepareSignatureHeaders(m, alg, kid).msg
         /\ PrepareEmbedded(m, alg, kid).ok
              = (PrepareSignatureHeaders(m, alg, kid).ok /\ m.payload # None)
<1> DEFINE q == PrepareSignatureHeaders(m, alg, kid)
<1>1. q = [ok |-> q.ok, msg |-> q.msg]
  BY DEF PrepareSignatureHeaders, PrepareHeaders, EnsureProtectedAlg,
         EnsureUnprotectedKid, Ok, Err
<1> QED
  BY <1>1 DEF PrepareEmbedded

(* prepare_signature prepares the message or leaves its private fields     *)
(* alone; the structure it returns is well typed.                          *)
LEMMA PrepareEmbeddedEffect ==
  ASSUME NEW m \in Message, NEW s \in Signer, NEW aad \in Aad
  PROVE  LET p == PrepareEmbedded(m, s.alg, s.kid)
         IN /\ p.msg \in Message /\ p.ok \in BOOLEAN
            /\ Prepared(p.msg) \/ Untouched(m, p.msg)
            /\ p.ok => /\ Prepared(p.msg)
                       /\ ToBeSigned(p.msg.protected_raw, aad, p.msg.payload)
                            \in SigStructure
<1> DEFINE q == PrepareSignatureHeaders(m, s.alg, s.kid)
           p == PrepareEmbedded(m, s.alg, s.kid)
<1>1. s.alg \in Alg \cup {None} /\ s.kid \in Kid \cup {None}
  BY Sign1Constants
<1>2. /\ q.msg \in Message /\ q.ok \in BOOLEAN
      /\ q.msg.payload = m.payload
      /\ q.ok => Prepared(q.msg)
      /\ ~ q.ok => Untouched(m, q.msg)
  BY <1>1, PrepareSignatureHeadersEffect
<1>4. p.msg = q.msg /\ p.ok = (q.ok /\ m.payload # None)
  BY PrepareEmbeddedFields
<1> HIDE DEF p, q
<1>5. p.ok => ToBeSigned(p.msg.protected_raw, aad, p.msg.payload)
                \in SigStructure
  BY <1>2, <1>4 DEF ToBeSigned, SigStructure, Message
<1> QED
  BY <1>2, <1>4, <1>5 DEF p

(* The same of prepare_detached_signature.                                 *)
LEMMA PrepareDetachedEffect ==
  ASSUME NEW m \in Message, NEW s \in Signer, NEW aad \in Aad,
         NEW payload \in Payload
  PROVE  LET p == PrepareDetached(m, s.alg, s.kid)
         IN /\ p.msg \in Message /\ p.ok \in BOOLEAN
            /\ Prepared(p.msg) \/ Untouched(m, p.msg)
            /\ p.ok => /\ Prepared(p.msg)
                       /\ ToBeSigned(p.msg.protected_raw, aad, payload)
                            \in SigStructure
<1> DEFINE q == PrepareSignatureHeaders(m, s.alg, s.kid)
           p == PrepareDetached(m, s.alg, s.kid)
           n == [q.msg EXCEPT !.payload = None]
<1>1. s.alg \in Alg \cup {None} /\ s.kid \in Kid \cup {None}
  BY Sign1Constants
<1>2. /\ q.msg \in Message /\ q.ok \in BOOLEAN
      /\ q.ok => Prepared(q.msg)
      /\ ~ q.ok => Untouched(m, q.msg)
  BY <1>1, PrepareSignatureHeadersEffect
<1>3. p = IF q.ok THEN [ok |-> TRUE, msg |-> n] ELSE q
  BY DEF PrepareDetached, Ok
<1> HIDE DEF p, q
<1>4. /\ n \in Message
      /\ n.protected = q.msg.protected /\ n.signature = q.msg.signature
      /\ n.state = q.msg.state /\ n.protected_raw = q.msg.protected_raw
  BY <1>2 DEF Message
<1>5. ToBeSigned(n.protected_raw, aad, payload) \in SigStructure
  BY <1>4 DEF ToBeSigned, SigStructure, Message
<1> HIDE DEF n
<1>6. CASE q.ok
  BY <1>2, <1>3, <1>4, <1>5, <1>6 DEF Prepared, p
<1>7. CASE ~ q.ok
  BY <1>2, <1>3, <1>7 DEF p
<1> QED
  BY <1>2, <1>6, <1>7

(* An answer is stored: bytes of a message prepared before are kept, and   *)
(* decode to the header that the caller sees.                              *)
Stored(m, n) ==
  /\ n.state = "Complete" /\ n.protected = m.protected
  /\ IF m.state = "New"
     THEN /\ n.protected_raw = EncodeProtected(m.protected)
          /\ ValidateCommon(m.protected)
     ELSE /\ n.protected_raw = m.protected_raw
          /\ m.protected_raw.hdr = m.protected

(* A layer that validates has the view that its bytes decode to.           *)
LEMMA ViewOfValidLayer ==
  ASSUME NEW m, ValidateLayer(m)
  PROVE  m.protected_raw.hdr = m.protected
BY ViewOfValidBytes DEF ValidateLayer, DecodeProtected

(* set_signature stores the answer or changes nothing.                     *)
LEMMA SetSigEffect ==
  ASSUME NEW m \in Message, NEW sig \in Signature \cup {None}
  PROVE  /\ SetSig(m, sig).msg \in Message
         /\ SetSig(m, sig).msg = m \/ Stored(m, SetSig(m, sig).msg)
<1> DEFINE y == SyncProtectedRaw(m)
           r == SetSig(m, sig)
           n == [y.msg EXCEPT !.signature = sig, !.state = "Complete"]
           e == [m EXCEPT !.protected_raw = EncodeProtected(m.protected)]
<1>1. r.msg = IF y.ok THEN n ELSE y.msg
  BY DEF SetSig, Ok
<1>2. CASE m.state = "New" /\ ValidateHeaderBuckets(m)
  <2>1. y = [ok |-> TRUE, msg |-> e]
    BY <1>2 DEF SyncProtectedRaw, Ok
  <2>2. EncodeProtected(m.protected) \in ProtectedRaw
    BY EncodeProtectedType DEF Message
  <2>3. r.msg = [e EXCEPT !.signature = sig, !.state = "Complete"]
    BY <1>1, <2>1
  <2>4. r.msg \in Message /\ r.msg.protected = m.protected
        /\ r.msg.protected_raw = EncodeProtected(m.protected)
        /\ r.msg.state = "Complete"
    BY <2>2, <2>3 DEF Message, State
  <2> QED
    BY <1>2, <2>4 DEF Stored, ValidateHeaderBuckets
<1>3. CASE m.state # "New" /\ ValidateLayer(m)
  <2>1. y.ok = TRUE /\ y.msg = m
    BY <1>3 DEF SyncProtectedRaw
  <2>2. r.msg = [m EXCEPT !.signature = sig, !.state = "Complete"]
    BY <1>1, <2>1
  <2>3. r.msg \in Message /\ r.msg.protected = m.protected
        /\ r.msg.protected_raw = m.protected_raw
        /\ r.msg.state = "Complete"
    BY <2>2 DEF Message, State
  <2> QED
    BY <1>3, <2>3, ViewOfValidLayer DEF Stored
<1>4. CASE IF m.state = "New" THEN ~ ValidateHeaderBuckets(m)
                              ELSE ~ ValidateLayer(m)
  <2>1. y.ok = FALSE /\ y.msg = m
    BY <1>4 DEF SyncProtectedRaw, Err
  <2> QED
    BY <1>1, <2>1
<1> QED
  BY <1>2, <1>3, <1>4

(* The message carries a signature over the bytes computed with it.        *)
Completed(n) ==
  /\ n.state = "Complete" /\ n.signature # None
  /\ n.protected_raw = EncodeProtected(n.protected)
  /\ ValidateCommon(n.protected)
  /\ n.signature.over[2] = n.protected_raw

(* Storing the signature of a prepared message completes it.               *)
LEMMA CompletedSignature ==
  ASSUME NEW n \in Message, Prepared(n), NEW s \in Signer, NEW aad \in Aad,
         NEW payload \in Payload, NEW r,
         r = [n EXCEPT !.signature =
                         Sig(s.key, ToBeSigned(n.protected_raw, aad, payload)),
                       !.state = "Complete"]
  PROVE  r \in Message /\ Completed(r)
<1> DEFINE sig == Sig(s.key, ToBeSigned(n.protected_raw, aad, payload))
<1>1. s.key \in Key
  BY Sign1Constants
<1>2. ToBeSigned(n.protected_raw, aad, payload) \in SigStructure
  BY DEF ToBeSigned, SigStructure, Message
<1>3. sig \in Signature /\ sig.over[2] = n.protected_raw
  BY <1>1, <1>2 DEF Sig, Signature, ToBeSigned
<1>4. sig # None
  BY <1>3, NoneIsNoSignature
<1> HIDE DEF sig
<1>5. r = [n EXCEPT !.signature = sig, !.state = "Complete"]
  BY DEF sig
<1>6. /\ r \in Message /\ r.signature = sig /\ r.state = "Complete"
      /\ r.protected = n.protected /\ r.protected_raw = n.protected_raw
  BY <1>3, <1>5 DEF Message, State
<1> QED
  BY <1>3, <1>4, <1>6 DEF Completed, Prepared

Outcome(m, n) ==
  n \in Message /\ (Untouched(m, n) \/ Prepared(n) \/ Completed(n))

(* sign completes the message, stops at a prepared one, or leaves its      *)
(* private fields alone.                                                   *)
LEMMA SignEmbeddedEffect ==
  ASSUME NEW m \in Message, NEW s \in Signer, NEW aad \in Aad,
         NEW available \in BOOLEAN
  PROVE  Outcome(m, SignEmbedded(m, s, aad, available).msg)
<1> DEFINE p == PrepareEmbedded(m, s.alg, s.kid)
           tbs == ToBeSigned(p.msg.protected_raw, aad, p.msg.payload)
           r == [p.msg EXCEPT !.signature = Sig(s.key, tbs),
                              !.state = "Complete"]
<1>1. /\ p.msg \in Message /\ p.ok \in BOOLEAN
      /\ Prepared(p.msg) \/ Untouched(m, p.msg)
      /\ p.ok => Prepared(p.msg)
      /\ p.ok => m.payload # None /\ p.msg.payload = m.payload
  <2>1. s.alg \in Alg \cup {None} /\ s.kid \in Kid \cup {None}
    BY Sign1Constants
  <2>2. PrepareSignatureHeaders(m, s.alg, s.kid).msg.payload = m.payload
    BY <2>1, PrepareSignatureHeadersEffect
  <2> QED
    BY <2>2, PrepareEmbeddedEffect, PrepareEmbeddedFields
<1>2. SignEmbedded(m, s, aad, available).msg
        = IF p.ok /\ available THEN r ELSE p.msg
  BY DEF SignEmbedded, Ok, Err
<1> HIDE DEF p
<1>3. CASE p.ok /\ available
  <2>1. p.msg.payload \in Payload
    BY <1>1, <1>3 DEF Message
  <2>2. r \in Message /\ Completed(r)
    BY <1>1, <1>3, <2>1, CompletedSignature
  <2> HIDE DEF r
  <2> QED
    BY <1>2, <1>3, <2>2 DEF Outcome
<1>4. CASE ~ (p.ok /\ available)
  BY <1>1, <1>2, <1>4 DEF Outcome
<1> QED
  BY <1>3, <1>4

(* The same of sign_detached.                                              *)
LEMMA SignDetachedEffect ==
  ASSUME NEW m \in Message, NEW s \in Signer, NEW aad \in Aad,
         NEW payload \in Payload, NEW available \in BOOLEAN
  PROVE  Outcome(m, SignDetached(m, s, payload, aad, available).msg)
<1> DEFINE p == PrepareSignatureHeaders(m, s.alg, s.kid)
           tbs == ToBeSigned(p.msg.protected_raw, aad, payload)
           q == [p.msg EXCEPT !.signature = Sig(s.key, tbs),
                              !.state = "Complete"]
           r == [p.msg EXCEPT !.signature = Sig(s.key, tbs),
                              !.state = "Complete", !.payload = None]
<1>1. s.alg \in Alg \cup {None} /\ s.kid \in Kid \cup {None}
  BY Sign1Constants
<1>2. /\ p.msg \in Message /\ p.ok \in BOOLEAN
      /\ p.ok => Prepared(p.msg)
      /\ ~ p.ok => Untouched(m, p.msg)
  BY <1>1, PrepareSignatureHeadersEffect
<1>3. SignDetached(m, s, payload, aad, available).msg
        = IF p.ok /\ available THEN r ELSE p.msg
  BY DEF SignDetached, Ok, Err
<1> HIDE DEF p
<1>4. CASE p.ok /\ available
  <2>1. q \in Message /\ Completed(q)
    BY <1>2, <1>4, CompletedSignature
  <2>2. r = [q EXCEPT !.payload = None]
    BY <1>2 DEF Message
  <2> HIDE DEF q, r
  <2>3. r \in Message /\ Completed(r)
    BY <2>1, <2>2 DEF Message, Completed
  <2> QED
    BY <1>3, <1>4, <2>3 DEF Outcome
<1>5. CASE ~ (p.ok /\ available)
  BY <1>2, <1>3, <1>5 DEF Outcome
<1> QED
  BY <1>4, <1>5

(* The message is a new one, or one that came from the wire.               *)
Renewed(n) ==
  /\ n.state = "New" /\ n.signature = None
  /\ n.protected = EmptyHeader
  /\ n.protected_raw = EncodeProtected(EmptyHeader)

(* new builds a new message.                                               *)
LEMMA NewEffect ==
  ASSUME NEW payload \in Payload \cup {None}
  PROVE  New(payload) \in Message /\ Renewed(New(payload))
BY EmptyHeaderType, EncodeProtectedType DEF New, Message, State, Renewed

Loaded(m, n) ==
  /\ n.state = "Complete" /\ n.protected = n.protected_raw.hdr
  /\ Decodable(n.protected_raw)
  /\ \/ n.signature # None /\ n.signature.over[2] = n.protected_raw
     \/ n.signature = m.signature /\ n.protected_raw = m.protected_raw

(* Messages from elsewhere carry a signature over their own bytes.         *)
LEMMA ForeignWireType ==
  ASSUME NEW w \in ForeignWire
  PROVE  /\ w.protected \in ProtectedRaw /\ w.unprotected \in Header
         /\ w.payload \in Payload /\ w.signature \in Signature
         /\ w.signature.over[2] = w.protected
<1>1. PICK raw \in ForeignRaw, p \in Payload, s \in Signer, aad \in Aad :
        w = [protected |-> raw, unprotected |-> EmptyHeader, payload |-> p,
             signature |-> Sig(s.key, ToBeSigned(raw, aad, p))]
  BY DEF ForeignWire
<1>2. raw \in ProtectedRaw /\ s.key \in Key
  BY Sign1Constants
<1>3. ToBeSigned(raw, aad, p) \in SigStructure
      /\ ToBeSigned(raw, aad, p)[2] = raw
  BY <1>2 DEF ToBeSigned, SigStructure
<1>4. Sig(s.key, ToBeSigned(raw, aad, p)) \in Signature
      /\ Sig(s.key, ToBeSigned(raw, aad, p)).over[2] = raw
  BY <1>2, <1>3 DEF Sig, Signature
<1> QED
  BY <1>1, <1>2, <1>4, EmptyHeaderType

(* from_slice loads a message made elsewhere, or this very message.        *)
LEMMA DecodedEffect ==
  ASSUME NEW m \in Message, NEW w, CanDecode(w),
         w \in ForeignWire \/ w = WireOf(m)
  PROVE  Decoded(w) \in Message /\ Loaded(m, Decoded(w))
<1>1. CASE w \in ForeignWire
  <2>1. /\ w.protected \in ProtectedRaw /\ w.unprotected \in Header
        /\ w.payload \in Payload /\ w.signature \in Signature
        /\ w.signature.over[2] = w.protected
    BY <1>1, ForeignWireType
  <2>2. w.protected.hdr \in Header
    BY <2>1 DEF ProtectedRaw
  <2> QED
    BY <2>1, <2>2, NoneIsNoSignature
    DEF Decoded, CanDecode, Loaded, Message, State, DecodeProtected
<1>2. CASE w = WireOf(m)
  <2>1. /\ w.protected \in ProtectedRaw /\ w.unprotected \in Header
        /\ w.payload \in Payload \cup {None}
        /\ w.signature = m.signature /\ w.protected = m.protected_raw
        /\ m.signature \in Signature \cup {None}
    BY <1>2 DEF WireOf, Message
  <2>2. w.protected.hdr \in Header
    BY <2>1 DEF ProtectedRaw
  <2> QED
    BY <2>1, <2>2
    DEF Decoded, CanDecode, Loaded, Message, State, DecodeProtected
<1> QED
  BY <1>1, <1>2

-----------------------------------------------------------------------------
(* Every step of the program.                                              *)

Effect(m, n) ==
  \/ Renewed(n) \/ Untouched(m, n) \/ Prepared(n)
  \/ Stored(m, n) \/ Completed(n) \/ Loaded(m, n)

(* A step keeps the types, and does one of six things to the private       *)
(* fields of the message: it renews them, leaves them alone, prepares,     *)
(* stores an answer, signs, or loads a decoded message.                    *)
LEMMA StepEffect ==
  ASSUME TypeOK, [Next]_vars
  PROVE  TypeOK' /\ Effect(msg, msg')
<1> USE DEF Effect
<1>1. msg \in Message /\ requests \subseteq [key : Key, tbs : SigStructure]
  BY DEF TypeOK
<1>2. SUFFICES /\ msg' \in Message
               /\ requests' \subseteq [key : Key, tbs : SigStructure]
               /\ Effect(msg, msg')
  BY DEF TypeOK
<1>3. ASSUME NEW s \in Signer, NEW tbs \in SigStructure, Ask(s.key, tbs)
      PROVE  requests' \subseteq [key : Key, tbs : SigStructure]
  BY <1>1, <1>3, Sign1Constants DEF Ask
<1>4. CASE NewMessage
  BY <1>1, <1>4, NewEffect DEF NewMessage
<1>5. CASE EditProtected
  BY <1>1, <1>5, Sign1Constants DEF EditProtected, Message, Untouched
<1>6. CASE EditUnprotected
  BY <1>1, <1>6, Sign1Constants DEF EditUnprotected, Message, Untouched
<1>7. CASE EditPayload
  BY <1>1, <1>7 DEF EditPayload, Message, Untouched
<1>8. CASE PrepareSignature
  <2>1. PICK s \in Signer, aad \in Aad :
          LET p == PrepareEmbedded(msg, s.alg, s.kid)
          IN /\ msg' = p.msg
             /\ IF p.ok THEN Ask(s.key, ToBeSigned(p.msg.protected_raw, aad,
                                                   p.msg.payload))
                        ELSE UNCHANGED requests
    BY <1>8 DEF PrepareSignature
  <2> QED
    BY <1>1, <1>3, <2>1, PrepareEmbeddedEffect
<1>9. CASE PrepareDetachedSignature
  <2>1. PICK s \in Signer, aad \in Aad, payload \in Payload :
          LET p == PrepareDetached(msg, s.alg, s.kid)
          IN /\ msg' = p.msg
             /\ IF p.ok THEN Ask(s.key, ToBeSigned(p.msg.protected_raw, aad,
                                                   payload))
                        ELSE UNCHANGED requests
    BY <1>9 DEF PrepareDetachedSignature
  <2> QED
    BY <1>1, <1>3, <2>1, PrepareDetachedEffect
<1>10. CASE SetSignature
  <2>1. PICK sig \in Answers \cup {None} : msg' = SetSig(msg, sig).msg
    BY <1>10 DEF SetSignature
  <2>2. sig \in Signature \cup {None}
    BY <1>1, <2>1 DEF Answers, Sig, Signature
  <2>3. msg' \in Message /\ (msg' = msg \/ Stored(msg, msg'))
    BY <1>1, <2>1, <2>2, SetSigEffect
  <2> QED
    BY <1>1, <1>10, <2>3 DEF SetSignature, Untouched
<1>11. CASE LoseRequest
  BY <1>1, <1>11 DEF LoseRequest, Untouched
<1>12. CASE Sign
  BY <1>1, <1>12, SignEmbeddedEffect DEF Sign, Outcome
<1>13. CASE SignDetachedPayload
  BY <1>1, <1>13, SignDetachedEffect DEF SignDetachedPayload, Outcome
<1>14. CASE FromSlice
  <2>1. PICK w \in Wires : CanDecode(w) /\ msg' = Decoded(w)
    BY <1>14 DEF FromSlice
  <2>2. w \in ForeignWire \/ w = WireOf(msg)
    BY <2>1 DEF Wires
  <2> QED
    BY <1>1, <1>14, <2>1, <2>2, DecodedEffect DEF FromSlice
<1>15. CASE UNCHANGED vars
  BY <1>1, <1>15 DEF vars, Untouched
<1> QED
  BY <1>4, <1>5, <1>6, <1>7, <1>8, <1>9, <1>10, <1>11, <1>12, <1>13,
     <1>14, <1>15 DEF Next

(* The message object and the outstanding requests keep their types under  *)
(* every sequence of calls (sign1.rs, struct Sign1Message).                *)
THEOREM TypeCorrect == Spec => []TypeOK
<1>1. Init => TypeOK
  BY NewEffect DEF Init, TypeOK
<1>2. TypeOK /\ [Next]_vars => TypeOK'
  BY StepEffect
<1> QED
  BY <1>1, <1>2, PTL DEF Spec

(* The private fields always agree with the state: no signature outlives a *)
(* new preparation, prepared bytes are canonical, stored bytes decode      *)
(* (sign1.rs, prepare_signature_headers and set_signature).                *)
THEOREM LifecycleCorrect == Spec => []LifecycleOK
<1>1. Init => LifecycleOK
  <2> SUFFICES ASSUME NEW p \in Payload \cup {None}, msg = New(p)
               PROVE  LifecycleOK
    BY DEF Init
  <2> QED
    BY EmptyHeaderType DEF New, LifecycleOK, Decodable, EncodeProtected
<1>2. TypeOK /\ LifecycleOK /\ [Next]_vars => LifecycleOK'
  <2> SUFFICES ASSUME TypeOK, LifecycleOK, [Next]_vars
               PROVE  LifecycleOK'
    OBVIOUS
  <2>1. Effect(msg, msg')
    BY StepEffect
  <2>2. CASE Renewed(msg')
    BY <2>2, EmptyHeaderType
    DEF Renewed, LifecycleOK, Decodable, EncodeProtected
  <2>3. CASE Untouched(msg, msg')
    BY <2>3 DEF Untouched, LifecycleOK
  <2>4. CASE Prepared(msg')
    BY <2>4 DEF Prepared, LifecycleOK, Decodable, EncodeProtected
  <2>5. CASE Stored(msg, msg')
    BY <2>5 DEF Stored, LifecycleOK, Decodable, EncodeProtected
  <2>6. CASE Completed(msg')
    BY <2>6 DEF Completed, LifecycleOK, Decodable, EncodeProtected
  <2>7. CASE Loaded(msg, msg')
    BY <2>7 DEF Loaded, LifecycleOK
  <2> QED
    BY <2>1, <2>2, <2>3, <2>4, <2>5, <2>6, <2>7 DEF Effect
<1> QED
  BY <1>1, <1>2, TypeCorrect, PTL DEF Spec

(* The message object implements an authenticated layer: the protected     *)
(* bytes are frozen while a signature over them is pending or stored, and  *)
(* a signature is stored only while the public header denotes them.        *)
THEOREM Refinement == Spec => ImplementsAuthLayer
<1> USE DEF BytesDenote, BytesFresh, SignatureCovers, DecodeProtected
<1>1. Init => Layer!Init
  BY DEF Init, New, Layer!Init
<1>2. TypeOK /\ [Next]_vars => [Layer!Next]_(Layer!layer)
  <2> SUFFICES ASSUME TypeOK, [Next]_vars
               PROVE  [Layer!Next]_(Layer!layer)
    OBVIOUS
  <2> USE DEF Layer!Next
  <2>1. Effect(msg, msg')
    BY StepEffect
  <2>2. CASE Renewed(msg')
    BY <2>2 DEF Renewed, Layer!Renew, Layer!Init
  <2>3. CASE Untouched(msg, msg')
    BY <2>3 DEF Untouched, Layer!Edit
  <2>4. CASE Prepared(msg')
    BY <2>4 DEF Prepared, Layer!Prepare
  <2>5. CASE Stored(msg, msg')
    BY <2>5 DEF Stored, Layer!Store
  <2>6. CASE Completed(msg')
    BY <2>6 DEF Completed, Layer!Produce
  <2>7. CASE Loaded(msg, msg')
    BY <2>7 DEF Loaded, Layer!Load
  <2> QED
    BY <2>1, <2>2, <2>3, <2>4, <2>5, <2>6, <2>7 DEF Effect
<1> QED
  BY <1>1, <1>2, TypeCorrect, PTL DEF Spec, ImplementsAuthLayer, Layer!Spec

(* Whatever verify and verify_detached accept was signed as the caller     *)
(* reads it (sign1.rs, verify_payload).                                    *)
THEOREM AcceptanceCorrect == Spec => []AcceptedIsWhatWasSigned
<1>1. ASSUME TypeOK, NEW v \in Verifier, NEW aad \in Aad,
             NEW payload \in Payload, VerifyPayload(msg, v, aad, payload)
      PROVE  SignedAsSeen(msg, v, aad, payload)
  <2> DEFINE tbs == ToBeSigned(msg.protected_raw, aad, payload)
  <2>1. msg.signature = Sig(v.key, tbs)
    BY <1>1 DEF VerifyPayload
  <2>2. tbs \in SigStructure /\ tbs[2] = msg.protected_raw
        /\ tbs[3] = aad /\ tbs[4] = payload
    BY <1>1 DEF ToBeSigned, SigStructure, TypeOK, Message
  <2>3. msg.signature.by = v.key /\ msg.signature.over = tbs
    BY <2>1 DEF Sig
  <2>4. msg.signature # None
    BY <2>1, <2>2, NoneIsNoSignature, Sign1Constants DEF Sig, Signature
  <2>5. msg.protected_raw.hdr = msg.protected
    BY <1>1, ViewOfValidLayer DEF VerifyPayload
  <2>6. Get(msg.protected, "alg") \in {None, v.alg} \/ v.alg = None
    BY <1>1, HeaderConstants
    DEF VerifyPayload, CheckProtectedAlg, DeclaredAlg, Get
  <2>7. EnsureCritUnderstood(msg.protected, v.understood)
    BY <1>1 DEF VerifyPayload
  <2> HIDE DEF tbs
  <2> QED
    BY <2>2, <2>3, <2>4, <2>5, <2>6, <2>7 DEF SignedAsSeen, DecodeProtected
<1>2. TypeOK => AcceptedIsWhatWasSigned
  <2> SUFFICES ASSUME TypeOK, NEW v \in Verifier, NEW aad \in Aad
               PROVE  /\ Verify(msg, v, aad) =>
                           SignedAsSeen(msg, v, aad, msg.payload)
                      /\ \A p \in Payload : VerifyDetached(msg, v, p, aad) =>
                           SignedAsSeen(msg, v, aad, p)
    BY DEF AcceptedIsWhatWasSigned
  <2>1. Verify(msg, v, aad) => msg.payload \in Payload
    BY DEF Verify, TypeOK, Message
  <2> QED
    BY <1>1, <2>1 DEF Verify, VerifyDetached
<1> QED
  BY <1>2, TypeCorrect, PTL

(* A message that encodes decodes to itself (sign1.rs, encode and          *)
(* from_slice).                                                            *)
THEOREM RoundTripCorrect == Spec => []EncodeDecodeIdentity
<1>1. TypeOK /\ LifecycleOK => EncodeDecodeIdentity
  <2> SUFFICES ASSUME TypeOK, LifecycleOK, CanEncode(msg)
               PROVE  /\ CanDecode(WireOf(msg))
                      /\ Decoded(WireOf(msg)) = msg
    BY DEF EncodeDecodeIdentity
  <2>1. msg.protected_raw.hdr = msg.protected /\ msg.state = "Complete"
    BY ViewOfValidLayer DEF CanEncode
  <2>2. Decoded(WireOf(msg)) = msg
    BY <2>1 DEF Decoded, WireOf, DecodeProtected, TypeOK, Message
  <2>3. ValidateHeaderBuckets(msg)
    BY DEF CanEncode, ValidateLayer
  <2>4. Decodable(WireOf(msg).protected)
    BY DEF WireOf, LifecycleOK
  <2> QED
    BY <2>2, <2>3, <2>4 DEF CanDecode
<1> QED
  BY <1>1, TypeCorrect, LifecycleCorrect, PTL

(* prepare_signature_headers leaves buckets that validate.                 *)
LEMMA PreparedHeadersValidate ==
  ASSUME NEW m \in Message, NEW s \in Signer
  PROVE  LET p == PrepareSignatureHeaders(m, s.alg, s.kid)
         IN p.ok => ValidateHeaderBuckets(p.msg)
<1> DEFINE h == PrepareHeaders(m, s.alg, s.kid)
           p == PrepareSignatureHeaders(m, s.alg, s.kid)
           n == [h.msg EXCEPT !.signature = None, !.state = "Prepared",
                        !.protected_raw = EncodeProtected(h.msg.protected)]
<1>1. h.msg \in Message /\ h.ok \in BOOLEAN
      /\ (h.ok => ValidateHeaderBuckets(h.msg))
  BY PrepareHeadersEffect, Sign1Constants
<1>2. p = IF h.ok THEN [ok |-> TRUE, msg |-> n] ELSE h
  BY DEF PrepareSignatureHeaders, Ok
<1> HIDE DEF h, p
<1>3. n.protected = h.msg.protected /\ n.unprotected = h.msg.unprotected
  BY <1>1 DEF Message
<1>4. h.ok => ValidateHeaderBuckets(n)
  BY <1>1, <1>3 DEF ValidateHeaderBuckets
<1> HIDE DEF n
<1> QED
  BY <1>2, <1>4 DEF p

(* A message that is complete over the canonical bytes of a valid header   *)
(* encodes, comes back from the wire as it is, and verifies for whoever    *)
(* suits it.                                                               *)
LEMMA SignedOpens ==
  ASSUME NEW n \in Message, NEW s \in Signer, NEW aad \in Aad, NEW payload,
         n.state = "Complete", ValidateHeaderBuckets(n),
         n.protected_raw = EncodeProtected(n.protected),
         n.signature = Sig(s.key, ToBeSigned(n.protected_raw, aad, payload))
  PROVE  /\ CanEncode(n) /\ CanDecode(WireOf(n)) /\ Decoded(WireOf(n)) = n
         /\ \A v \in Verifier :
              Suits(v, s.key, n) => VerifyPayload(n, v, aad, payload)
<1>1. ValidateCommon(n.protected)
  BY DEF ValidateHeaderBuckets
<1>2. ValidateLayer(n)
  BY <1>1 DEF ValidateLayer, ValidateProtectedState, Encodable
<1>3. Decoded(WireOf(n)) = n
  BY DEF Decoded, WireOf, DecodeProtected, EncodeProtected, Message
<1>4. Decodable(WireOf(n).protected)
  BY <1>1 DEF WireOf, Decodable, EncodeProtected
<1> QED
  BY <1>2, <1>3, <1>4 DEF CanEncode, CanDecode, Suits, VerifyPayload

(* What sign and sign_detached return verifies, for the signer's key and   *)
(* after the way over the wire (sign1.rs, sign and verify).                *)
THEOREM SignThenVerifyCorrect == Spec => []SignThenVerify
<1>1. ASSUME TypeOK, NEW s \in Signer, NEW aad \in Aad,
             SignEmbedded(msg, s, aad, TRUE).ok
      PROVE  LET n == SignEmbedded(msg, s, aad, TRUE).msg
             IN /\ CanEncode(n)
                /\ \A v \in Verifier : Suits(v, s.key, n) =>
                     VerifyAndDecode(WireOf(n), v, aad)
  <2> DEFINE p == PrepareEmbedded(msg, s.alg, s.kid)
             q == PrepareSignatureHeaders(msg, s.alg, s.kid)
             sig == Sig(s.key, ToBeSigned(p.msg.protected_raw, aad, p.msg.payload))
             n == [p.msg EXCEPT !.signature = sig, !.state = "Complete"]
             r == SignEmbedded(msg, s, aad, TRUE)
  <2>1. r = IF ~ p.ok THEN p ELSE [ok |-> TRUE, msg |-> n]
    BY DEF SignEmbedded, Ok
  <2>2. p.msg = q.msg /\ p.ok = (q.ok /\ msg.payload # None)
    BY PrepareEmbeddedFields
  <2>3. msg \in Message
    BY <1>1 DEF TypeOK
  <2>4. /\ q.msg \in Message /\ q.msg.payload = msg.payload
        /\ q.ok => Prepared(q.msg)
    BY <2>3, PrepareSignatureHeadersEffect, Sign1Constants
  <2>5. q.ok => ValidateHeaderBuckets(q.msg)
    BY <2>3, PreparedHeadersValidate
  <2>6. r.ok
    BY <1>1
  <2> HIDE DEF r, p, q
  <2>7. p.ok /\ r.msg = n
    BY <2>1, <2>6
  <2>8. p.msg.payload \in Payload
    BY <2>2, <2>3, <2>4, <2>7 DEF Message
  <2>9. n \in Message
    BY <2>2, <2>4, <2>7, <2>8, CompletedSignature
  <2>10. /\ n.state = "Complete" /\ n.signature = sig
         /\ n.protected = p.msg.protected /\ n.unprotected = p.msg.unprotected
         /\ n.payload = p.msg.payload /\ n.protected_raw = p.msg.protected_raw
    BY <2>2, <2>4 DEF Message
  <2> HIDE DEF n
  <2>11. ValidateHeaderBuckets(n)
    BY <2>2, <2>5, <2>7, <2>10 DEF ValidateHeaderBuckets
  <2>12. n.protected_raw = EncodeProtected(n.protected)
    BY <2>2, <2>4, <2>7, <2>10 DEF Prepared
  <2>13. n.signature = Sig(s.key, ToBeSigned(n.protected_raw, aad, n.payload))
    BY <2>10
  <2>14. n.payload # None
    BY <2>2, <2>4, <2>7, <2>10
  <2>15. /\ CanEncode(n) /\ CanDecode(WireOf(n)) /\ Decoded(WireOf(n)) = n
         /\ \A v \in Verifier :
              Suits(v, s.key, n) => VerifyPayload(n, v, aad, n.payload)
    BY <2>9, <2>10, <2>11, <2>12, <2>13, SignedOpens
  <2> QED
    BY <2>7, <2>10, <2>14, <2>15 DEF VerifyAndDecode, Verify, r
<1>2. ASSUME TypeOK, NEW s \in Signer, NEW aad \in Aad, NEW payload \in Payload,
             SignDetached(msg, s, payload, aad, TRUE).ok
      PROVE  LET n == SignDetached(msg, s, payload, aad, TRUE).msg
             IN /\ CanEncode(n) /\ WireOf(n).payload = None
                /\ \A v \in Verifier : Suits(v, s.key, n) =>
                     VerifyDetachedAndDecode(WireOf(n), v, payload, aad)
  <2> DEFINE q == PrepareSignatureHeaders(msg, s.alg, s.kid)
             sig == Sig(s.key, ToBeSigned(q.msg.protected_raw, aad, payload))
             n == [q.msg EXCEPT !.signature = sig, !.state = "Complete",
                                !.payload = None]
             c == [q.msg EXCEPT !.signature = sig, !.state = "Complete"]
             r == SignDetached(msg, s, payload, aad, TRUE)
  <2>1. r = IF ~ q.ok THEN q ELSE [ok |-> TRUE, msg |-> n]
    BY DEF SignDetached, Ok
  <2>2. msg \in Message
    BY <1>2 DEF TypeOK
  <2>3. q.msg \in Message /\ (q.ok => Prepared(q.msg))
    BY <2>2, PrepareSignatureHeadersEffect, Sign1Constants
  <2>4. q.ok => ValidateHeaderBuckets(q.msg)
    BY <2>2, PreparedHeadersValidate
  <2>5. r.ok
    BY <1>2
  <2> HIDE DEF r, q
  <2>6. q.ok /\ r.msg = n
    BY <2>1, <2>5
  <2>7. c \in Message
    BY <2>3, <2>6, CompletedSignature
  <2>8. n = [c EXCEPT !.payload = None]
    BY <2>3 DEF Message
  <2>9. /\ n.state = "Complete" /\ n.signature = sig
        /\ n.protected = q.msg.protected /\ n.unprotected = q.msg.unprotected
        /\ n.payload = None /\ n.protected_raw = q.msg.protected_raw
    BY <2>3 DEF Message
  <2> HIDE DEF n, c
  <2>10. n \in Message
    BY <2>7, <2>8 DEF Message
  <2>11. ValidateHeaderBuckets(n)
    BY <2>4, <2>6, <2>9 DEF ValidateHeaderBuckets
  <2>12. n.protected_raw = EncodeProtected(n.protected)
    BY <2>3, <2>6, <2>9 DEF Prepared
  <2>13. n.signature = Sig(s.key, ToBeSigned(n.protected_raw, aad, payload))
    BY <2>9
  <2>14. /\ CanEncode(n) /\ CanDecode(WireOf(n)) /\ Decoded(WireOf(n)) = n
         /\ \A v \in Verifier :
              Suits(v, s.key, n) => VerifyPayload(n, v, aad, payload)
    BY <2>9, <2>10, <2>11, <2>12, <2>13, SignedOpens
  <2>15. WireOf(n).payload = None
    BY <2>9 DEF WireOf
  <2> QED
    BY <2>6, <2>9, <2>14, <2>15 DEF VerifyDetachedAndDecode, VerifyDetached, r
<1>3. TypeOK => SignThenVerify
  BY <1>1, <1>2 DEF SignThenVerify
<1> QED
  BY <1>3, TypeCorrect, PTL

(* A message from elsewhere that was not edited since it was decoded is    *)
(* verified over the bytes it came with, in whatever form they encode its  *)
(* header (sign1.rs, from_slice and verify; header.rs, validate_protected_ *)
(* state).                                                                 *)
THEOREM ForeignBytesCorrect == Spec => []ForeignBytesKept
<1>1. ForeignBytesKept
  <2> SUFFICES ASSUME NEW w \in ForeignWire, msg = Decoded(w), NEW v \in Verifier,
                      Suits(v, w.signature.by, msg)
               PROVE  Verify(msg, v, w.signature.over[3])
    BY DEF ForeignBytesKept
  <2>1. PICK raw \in ForeignRaw, p \in Payload, s \in Signer, aad \in Aad :
          w = [protected |-> raw, unprotected |-> EmptyHeader, payload |-> p,
               signature |-> Sig(s.key, ToBeSigned(raw, aad, p))]
    BY DEF ForeignWire
  <2>2. /\ msg.protected = raw.hdr /\ msg.unprotected = EmptyHeader
        /\ msg.payload = p /\ msg.protected_raw = raw /\ msg.state = "Complete"
        /\ msg.signature = Sig(s.key, ToBeSigned(raw, aad, p))
    BY <2>1 DEF Decoded, DecodeProtected
  <2>3. w.signature.by = s.key /\ w.signature.over[3] = aad
    BY <2>1 DEF Sig, ToBeSigned
  <2>4. ValidateCommon(raw.hdr)
    BY <2>2 DEF Suits, EnsureCritUnderstood
  <2>5. Present(EmptyHeader) = {}
    BY DEF Present, EmptyHeader
  <2>6. ValidateHeaderBuckets(msg)
    <3>1. ~ ({"iv", "piv"} \subseteq Present(raw.hdr) \cup {})
      BY <2>4 DEF ValidateCommon
    <3> QED
      BY <2>2, <2>4, <2>5, <3>1, EmptyHeaderType DEF ValidateHeaderBuckets
  <2>7. ValidateProtectedState(msg.protected, msg.protected_raw)
    BY <2>2, <2>4 DEF ValidateProtectedState, Encodable, Decodable, DecodeProtected
  <2>8. p # None
    BY Sign1Constants
  <2> QED
    BY <2>2, <2>3, <2>6, <2>7, <2>8
    DEF Verify, VerifyPayload, ValidateLayer, Suits
<1> QED
  BY <1>1, PTL
=============================================================================
