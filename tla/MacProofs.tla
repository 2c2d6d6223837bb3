----------------------------- MODULE MacProofs ------------------------------
(***************************************************************************)
(* Proofs about MacMessage, for every choice of its constants: type        *)
(* correctness, that what verification accepts is what was MACed as a      *)
(* message of this kind, that recipients travel unharmed, that what is     *)
(* computed verifies, and that bad recipients block every method.          *)
(***************************************************************************)
EXTENDS MacMessage, HeaderProofs

(* The messages that differ from m in the two header buckets only.         *)
Rewritten(m) ==
  {n \in Message(m.recipients) :
     /\ n.context = m.context /\ n.payload = m.payload /\ n.tag = m.tag
     /\ n.state = m.state /\ n.protected_raw = m.protected_raw}

LEMMA RewrittenClosed ==
  ASSUME NEW m, IsMessage(m)
  PROVE  m \in Rewritten(m) /\ ClosedUnderEdits(Rewritten(m))
BY DEF Rewritten, ClosedUnderEdits, IsMessage, Message

LEMMA RewrittenIsMessage ==
  ASSUME NEW m, IsMessage(m), NEW n \in Rewritten(m)
  PROVE  /\ IsMessage(n) /\ n.recipients = m.recipients
         /\ RecipientsOk(n) = RecipientsOk(m)
BY DEF Rewritten, IsMessage, Message, RecipientsOk

-----------------------------------------------------------------------------
(* The methods.                                                            *)

(* The message is ready for a tag made with c.                             *)
Ready(n, alg) ==
  /\ n.state = "Prepared" /\ RecipientsOk(n)
  /\ n.protected_raw = EncodeProtected(n.protected)
  /\ ValidateHeaderBuckets(n) /\ CheckProtectedAlg(n, alg)

LEMMA PrepareTagHeadersEffect ==
  ASSUME NEW m, IsMessage(m), NEW alg \in Alg \cup {None},
         NEW kid \in Kid \cup {None}
  PROVE  LET p == PrepareTagHeaders(m, alg, kid)
         IN /\ IsMessage(p.msg) /\ p.ok \in BOOLEAN
            /\ p.msg.payload = m.payload
            /\ p.ok => Ready(p.msg, alg)
<1> DEFINE h == PrepareHeaders(m, alg, kid)
           p == PrepareTagHeaders(m, alg, kid)
           n == Tagging(h)
<1>1. /\ h.msg \in Rewritten(m) /\ h.ok \in BOOLEAN
      /\ h.ok => /\ ValidateHeaderBuckets(h.msg)
                 /\ CheckProtectedAlg(h.msg, alg)
  BY RewrittenClosed, PrepareHeadersKeeps
<1>2. IsMessage(h.msg) /\ h.msg.payload = m.payload
      /\ RecipientsOk(h.msg) = RecipientsOk(m)
  BY <1>1, RewrittenIsMessage DEF Rewritten
<1>3. p = IF ~ RecipientsOk(m) THEN Err(m)
          ELSE IF h.ok THEN Ok(n) ELSE h
  BY DEF PrepareTagHeaders
<1>4. n = [h.msg EXCEPT !.protected_raw = EncodeProtected(h.msg.protected),
                        !.state = "Prepared", !.tag = None]
  BY DEF Tagging
<1> HIDE DEF h, p, n
<1>5. EncodeProtected(h.msg.protected) \in ProtectedRaw
  BY <1>2, EncodeProtectedType DEF IsMessage, Message
<1>6. /\ IsMessage(n) /\ n.payload = m.payload
      /\ n.protected = h.msg.protected /\ n.unprotected = h.msg.unprotected
      /\ n.context = h.msg.context /\ n.recipients = h.msg.recipients
      /\ n.protected_raw = EncodeProtected(n.protected)
      /\ n.state = "Prepared"
  BY <1>2, <1>4, <1>5 DEF IsMessage, Message, State
<1>7. RecipientsOk(n) = RecipientsOk(m)
  BY <1>2, <1>6 DEF RecipientsOk
<1>8. ASSUME h.ok
      PROVE  ValidateHeaderBuckets(n) /\ CheckProtectedAlg(n, alg)
  BY <1>1, <1>6, <1>8
  DEF ValidateHeaderBuckets, CheckProtectedAlg, DeclaredAlg
<1>9. CASE RecipientsOk(m) /\ h.ok
  BY <1>3, <1>6, <1>7, <1>8, <1>9 DEF Ready, Ok, p
<1>10. CASE ~ RecipientsOk(m)
  BY <1>3, <1>10 DEF Err, p
<1>11. CASE RecipientsOk(m) /\ ~ h.ok
  BY <1>1, <1>2, <1>3, <1>11 DEF p
<1> QED
  BY <1>9, <1>10, <1>11

LEMMA PrepareEmbeddedFields ==
  ASSUME NEW m, NEW alg, NEW kid
  PROVE  /\ PrepareEmbedded(m, alg, kid).msg
              = PrepareTagHeaders(m, alg, kid).msg
         /\ PrepareEmbedded(m, alg, kid).ok
              = (PrepareTagHeaders(m, alg, kid).ok /\ m.payload # None)
<1> DEFINE q == PrepareTagHeaders(m, alg, kid)
<1>1. q = [ok |-> q.ok, msg |-> q.msg]
  BY DEF PrepareTagHeaders, PrepareHeaders, EnsureProtectedAlg,
         EnsureUnprotectedKid, Ok, Err
<1> QED
  BY <1>1 DEF PrepareEmbedded

(* The bytes to be MACed, and a tag over them.                             *)
LEMMA StructureType ==
  ASSUME NEW m, IsMessage(m), NEW aad \in Aad, NEW payload \in Payload
  PROVE  /\ ToBeMaced(m, aad, payload) \in MacStructure
         /\ \A c \in Macer :
              Tag(c.key, ToBeMaced(m, aad, payload)) \in MacTag
BY MacConstants DEF ToBeMaced, MacStructure, IsMessage, Message, Tag, MacTag

LEMMA PrepareEmbeddedEffect ==
  ASSUME NEW m, IsMessage(m), NEW c \in Macer, NEW aad \in Aad
  PROVE  LET p == PrepareEmbedded(m, c.alg, c.kid)
         IN /\ IsMessage(p.msg)
            /\ p.ok =>
                 ToBeMaced(p.msg, aad, p.msg.payload) \in MacStructure
<1> DEFINE q == PrepareTagHeaders(m, c.alg, c.kid)
           p == PrepareEmbedded(m, c.alg, c.kid)
<1>1. c.alg \in Alg \cup {None} /\ c.kid \in Kid \cup {None}
  BY MacConstants
<1>2. IsMessage(q.msg) /\ q.msg.payload = m.payload
  BY <1>1, PrepareTagHeadersEffect
<1>3. p.msg = q.msg /\ p.ok = (q.ok /\ m.payload # None)
  BY PrepareEmbeddedFields
<1> HIDE DEF p, q
<1>4. p.ok => p.msg.payload \in Payload
  BY <1>2, <1>3 DEF IsMessage, Message
<1>5. p.ok => ToBeMaced(p.msg, aad, p.msg.payload) \in MacStructure
  BY <1>2, <1>3, <1>4, StructureType
<1> QED
  BY <1>2, <1>3, <1>5 DEF p

LEMMA PrepareDetachedEffect ==
  ASSUME NEW m, IsMessage(m), NEW c \in Macer, NEW aad \in Aad,
         NEW payload \in Payload
  PROVE  LET p == PrepareDetached(m, c.alg, c.kid)
         IN /\ IsMessage(p.msg)
            /\ p.ok => ToBeMaced(p.msg, aad, payload) \in MacStructure
<1> DEFINE q == PrepareTagHeaders(m, c.alg, c.kid)
           p == PrepareDetached(m, c.alg, c.kid)
           n == [q.msg EXCEPT !.payload = None]
<1>1. c.alg \in Alg \cup {None} /\ c.kid \in Kid \cup {None}
  BY MacConstants
<1>2. IsMessage(q.msg)
  BY <1>1, PrepareTagHeadersEffect
<1>3. p.msg = IF q.ok THEN n ELSE q.msg
  BY DEF PrepareDetached, Ok
<1>4. IsMessage(n)
  BY <1>2 DEF IsMessage, Message
<1> HIDE DEF n, p, q
<1>5. IsMessage(p.msg)
  BY <1>2, <1>3, <1>4
<1>6. ToBeMaced(p.msg, aad, payload) \in MacStructure
  BY <1>5, StructureType
<1> QED
  BY <1>5, <1>6 DEF p

LEMMA SetTagEffect ==
  ASSUME NEW m, IsMessage(m), NEW tag \in MacTag
  PROVE  IsMessage(SetTagOf(m, tag).msg)
<1> DEFINE y == SyncProtectedRaw(m)
           e == [m EXCEPT !.protected_raw = EncodeProtected(m.protected)]
           n == [y.msg EXCEPT !.tag = tag, !.state = "Complete"]
<1>1. EncodeProtected(m.protected) \in ProtectedRaw
  BY EncodeProtectedType DEF IsMessage, Message
<1>2. IsMessage(e)
  BY <1>1 DEF IsMessage, Message
<1>3. y.msg = m \/ y.msg = e
  BY DEF SyncProtectedRaw, Ok, Err
<1>4. SetTagOf(m, tag).msg \in {m, y.msg, n}
  BY DEF SetTagOf, Ok, Err
<1> HIDE DEF y, e
<1>5. IsMessage(y.msg)
  BY <1>2, <1>3
<1>6. IsMessage(n)
  BY <1>5 DEF IsMessage, Message, State
<1> QED
  BY <1>4, <1>5, <1>6

(* What compute and compute_detached leave when they return Ok.            *)
Tagged(n, c, aad, payload) ==
  /\ IsMessage(n) /\ n.state = "Complete" /\ RecipientsOk(n)
  /\ ValidateLayer(n) /\ CheckProtectedAlg(n, c.alg)
  /\ n.tag = Tag(c.key, ToBeMaced(n, aad, payload))

(* Storing a tag in a message that is ready for it.                        *)
WithTag(n, c, aad, payload, kept) ==
  [n EXCEPT !.payload = kept, !.state = "Complete",
            !.tag = Tag(c.key, ToBeMaced(n, aad, payload))]

LEMMA TagOfReady ==
  ASSUME NEW c \in Macer, NEW aad \in Aad, NEW payload \in Payload,
         NEW n, IsMessage(n), Ready(n, c.alg),
         NEW kept \in Payload \cup {None}
  PROVE  LET r == WithTag(n, c, aad, payload, kept)
         IN Tagged(r, c, aad, payload) /\ r.payload = kept
<1> DEFINE t == Tag(c.key, ToBeMaced(n, aad, payload))
           r == WithTag(n, c, aad, payload, kept)
<1>1. r = [n EXCEPT !.payload = kept, !.state = "Complete", !.tag = t]
  BY DEF WithTag
<1>2. t \in MacTag
  BY StructureType
<1>3. t = Tag(c.key, <<n.context, n.protected_raw, aad, payload>>)
  BY DEF ToBeMaced
<1> HIDE DEF t, r
<1>4. /\ IsMessage(r) /\ r.tag = t /\ r.state = "Complete"
      /\ r.payload = kept /\ r.context = n.context
      /\ r.protected = n.protected /\ r.unprotected = n.unprotected
      /\ r.protected_raw = n.protected_raw /\ r.recipients = n.recipients
  BY <1>1, <1>2 DEF IsMessage, Message, State
<1>5. RecipientsOk(r) /\ CheckProtectedAlg(r, c.alg)
      /\ ValidateHeaderBuckets(r)
  BY <1>4 DEF Ready, RecipientsOk, CheckProtectedAlg, DeclaredAlg,
              ValidateHeaderBuckets
<1>6. ValidateLayer(r)
  BY <1>4, <1>5
  DEF Ready, ValidateLayer, ValidateProtectedState, Encodable,
      ValidateHeaderBuckets
<1> QED
  BY <1>3, <1>4, <1>5, <1>6 DEF Tagged, ToBeMaced, r, t

LEMMA ComputeEmbeddedEffect ==
  ASSUME NEW m, IsMessage(m), NEW c \in Macer, NEW aad \in Aad,
         NEW available \in BOOLEAN
  PROVE  LET r == ComputeEmbedded(m, c, aad, available)
         IN /\ IsMessage(r.msg)
            /\ r.ok => /\ Tagged(r.msg, c, aad, m.payload)
                       /\ r.msg.payload = m.payload /\ m.payload # None
<1> DEFINE q == PrepareTagHeaders(m, c.alg, c.kid)
           p == PrepareEmbedded(m, c.alg, c.kid)
           t == Tag(c.key, ToBeMaced(p.msg, aad, m.payload))
           n == [p.msg EXCEPT !.state = "Complete", !.tag = t]
           r == ComputeEmbedded(m, c, aad, available)
<1>1. c.alg \in Alg \cup {None} /\ c.kid \in Kid \cup {None}
  BY MacConstants
<1>2. /\ IsMessage(q.msg) /\ q.msg.payload = m.payload
      /\ q.ok => Ready(q.msg, c.alg)
  BY <1>1, PrepareTagHeadersEffect
<1>3. p.msg = q.msg /\ p.ok = (q.ok /\ m.payload # None)
  BY PrepareEmbeddedFields
<1>4. r = IF ~ p.ok THEN p ELSE IF ~ available THEN Err(p.msg) ELSE Ok(n)
  BY DEF ComputeEmbedded
<1> HIDE DEF p, q, r
<1>5. CASE p.ok /\ available
  <2>1. m.payload \in Payload
    BY <1>3, <1>5 DEF IsMessage, Message
  <2>2. n = WithTag(p.msg, c, aad, m.payload, m.payload)
    BY <1>2, <1>3 DEF IsMessage, Message, WithTag
  <2> HIDE DEF n
  <2>3. Tagged(n, c, aad, m.payload) /\ n.payload = m.payload
    <3>1. IsMessage(p.msg) /\ Ready(p.msg, c.alg)
      BY <1>2, <1>3, <1>5
    <3> QED
      BY <2>1, <2>2, <3>1, TagOfReady
  <2>4. IsMessage(n) /\ r.msg = n
    BY <1>4, <1>5, <2>3 DEF Tagged, Ok
  <2> QED
    BY <1>3, <1>5, <2>3, <2>4 DEF r
<1>6. CASE ~ (p.ok /\ available)
  BY <1>2, <1>3, <1>4, <1>6 DEF Err, r
<1> QED
  BY <1>5, <1>6

LEMMA ComputeDetachedEffect ==
  ASSUME NEW m, IsMessage(m), NEW c \in Macer, NEW aad \in Aad,
         NEW payload \in Payload, NEW available \in BOOLEAN
  PROVE  LET r == ComputeDetached(m, c, payload, aad, available)
         IN /\ IsMessage(r.msg)
            /\ r.ok => /\ Tagged(r.msg, c, aad, payload)
                       /\ r.msg.payload = None
<1> DEFINE p == PrepareTagHeaders(m, c.alg, c.kid)
           t == Tag(c.key, ToBeMaced(p.msg, aad, payload))
           n == [p.msg EXCEPT !.state = "Complete", !.payload = None,
                              !.tag = t]
           r == ComputeDetached(m, c, payload, aad, available)
<1>1. c.alg \in Alg \cup {None} /\ c.kid \in Kid \cup {None}
  BY MacConstants
<1>2. IsMessage(p.msg) /\ (p.ok => Ready(p.msg, c.alg))
  BY <1>1, PrepareTagHeadersEffect
<1>3. r = IF ~ p.ok THEN p ELSE IF ~ available THEN Err(p.msg) ELSE Ok(n)
  BY DEF ComputeDetached
<1> HIDE DEF p, r
<1>4. CASE p.ok /\ available
  <2>1. n = WithTag(p.msg, c, aad, payload, None)
    BY <1>2 DEF IsMessage, Message, WithTag
  <2> HIDE DEF n
  <2>2. Tagged(n, c, aad, payload) /\ n.payload = None
    BY <1>2, <1>4, <2>1, TagOfReady
  <2>3. IsMessage(n) /\ r.msg = n
    BY <1>3, <1>4, <2>2 DEF Tagged, Ok
  <2> QED
    BY <2>2, <2>3 DEF r
<1>5. CASE ~ (p.ok /\ available)
  BY <1>2, <1>3, <1>5 DEF Err, r
<1> QED
  BY <1>4, <1>5

-----------------------------------------------------------------------------
(* The wire.                                                               *)

(* What is decoded from the wire is a message object.                      *)
WireMessage(w) ==
  /\ w.context \in Context /\ w.protected \in ProtectedRaw
  /\ w.unprotected \in Header /\ w.payload \in Payload \cup {None}
  /\ w.tag \in MacTag \cup {None} /\ WireForest(w.recipients)
  /\ w.context = "MAC0" => w.recipients = NoRecipients

LEMMA DecodedIsMessage ==
  ASSUME NEW w, WireMessage(w)
  PROVE  IsMessage(Decoded(w))
<1>1. DecodeProtected(w.protected) \in Header
  BY DecodeProtectedType DEF WireMessage
<1>2. /\ Forest(DecodedRecipients(w.recipients))
      /\ w.context = "MAC0" => DecodedRecipients(w.recipients) = NoRecipients
  BY DecodedForest, NoRecipientsAcrossTheWire DEF WireMessage
<1> QED
  BY <1>1, <1>2 DEF WireMessage, Decoded, IsMessage, Message, State

LEMMA WireOfMessage ==
  ASSUME NEW m, IsMessage(m)
  PROVE  WireMessage(WireOf(m))
<1>1. /\ WireForest(EncodedRecipients(m.recipients))
      /\ m.context = "MAC0" => EncodedRecipients(m.recipients) = NoRecipients
  BY EncodedForest, NoRecipientsAcrossTheWire DEF IsMessage
<1> QED
  BY <1>1 DEF WireMessage, WireOf, IsMessage, Message

LEMMA ForeignWireMessage ==
  ASSUME NEW w \in ForeignWire
  PROVE  WireMessage(w)
<1>1. PICK raw \in ForeignRaw, p \in Payload, c \in Macer, aad \in Aad,
           ws \in ForeignRecipients :
        w = ForeignMessage(raw, p, c, aad, ws)
  BY DEF ForeignWire
<1> DEFINE v == [context |-> IF ws = NoRecipients THEN "MAC0" ELSE "MAC",
                 protected |-> raw, unprotected |-> EmptyHeader,
                 payload |-> p, recipients |-> ws, tag |-> None]
           t == Tag(c.key, ToBeMaced(Decoded(v), aad, p))
<1>2. WireMessage(v)
  BY MacConstants, EmptyHeaderType DEF WireMessage, Context
<1>3. t \in MacTag
  BY <1>2, DecodedIsMessage, StructureType
<1>4. w = [v EXCEPT !.tag = t]
  BY <1>1 DEF ForeignMessage
<1> HIDE DEF t
<1>5. /\ w.context = v.context /\ w.protected = v.protected
      /\ w.unprotected = v.unprotected /\ w.payload = v.payload
      /\ w.recipients = v.recipients /\ w.tag = t
  BY <1>4
<1> HIDE DEF v
<1> QED
  BY <1>2, <1>3, <1>5 DEF WireMessage

-----------------------------------------------------------------------------
(* Every step of the program.                                              *)

(* The message object, its recipients and the requests outstanding keep    *)
(* their types under every sequence of calls (mac.rs, struct MacMessage).  *)
THEOREM TypeCorrect == Spec => []TypeOK
<1>1. ASSUME NEW c \in Context, NEW p \in Payload \cup {None}
      PROVE  IsMessage(New(c, p))
  BY EmptyHeaderType, EncodeProtectedType, NoRecipientsForest
  DEF New, IsMessage, Message, State
<1>2. Init => TypeOK
  BY <1>1 DEF Init, TypeOK
<1>3. TypeOK /\ [Next]_vars => TypeOK'
  <2> SUFFICES ASSUME TypeOK, [Next]_vars
               PROVE  /\ IsMessage(msg')
                      /\ requests' \subseteq [key : Key, tbm : MacStructure]
    BY DEF TypeOK
  <2>1. IsMessage(msg) /\ requests \subseteq [key : Key, tbm : MacStructure]
    BY DEF TypeOK
  <2>2. ASSUME NEW c \in Macer, NEW tbm \in MacStructure, Ask(c.key, tbm)
        PROVE  requests' \subseteq [key : Key, tbm : MacStructure]
    BY <2>1, <2>2, MacConstants DEF Ask
  <2>3. CASE NewMessage
    BY <1>1, <2>1, <2>3 DEF NewMessage
  <2>4. CASE EditProtected
    BY <2>1, <2>4, MacConstants DEF EditProtected, IsMessage, Message
  <2>5. CASE EditUnprotected
    BY <2>1, <2>5, MacConstants DEF EditUnprotected, IsMessage, Message
  <2>6. CASE EditPayload
    BY <2>1, <2>6 DEF EditPayload, IsMessage, Message
  <2>7. ASSUME NEW rs, Forest(rs), msg.context = "MAC" \/ rs = msg.recipients,
               msg' = [msg EXCEPT !.recipients = rs]
        PROVE  IsMessage(msg')
    BY <2>1, <2>7 DEF IsMessage, Message
  <2>8. CASE SetRecipients
    BY <2>1, <2>7, <2>8, MacConstants DEF SetRecipients
  <2>9. CASE EditRecipient
    <3>1. PICK path \in DOMAIN msg.recipients, h \in RecipientEdit :
            msg' = [msg EXCEPT !.recipients[path].protected = h]
      BY <2>9 DEF EditRecipient
    <3> DEFINE rs == [msg.recipients EXCEPT ![path].protected = h]
    <3>2. Forest(rs)
      BY <2>1, EditedForest, MacConstants DEF IsMessage
    <3>3. msg.context = "MAC"
      BY <2>1, NoRecipientsForest DEF IsMessage, Message, Context
    <3>4. msg' = [msg EXCEPT !.recipients = rs]
      BY <2>1, <3>1 DEF IsMessage, Message
    <3> HIDE DEF rs
    <3> QED
      BY <2>1, <2>7, <2>9, <3>2, <3>3, <3>4 DEF EditRecipient
  <2>10. CASE AddRecipient
    <3>1. PICK parent \in DOMAIN msg.recipients \cup {<< >>},
               r \in NewRecipient :
            LET rs == msg.recipients
                path == Append(parent, Cardinality(LayerOf(rs, parent)) + 1)
            IN msg' = [msg EXCEPT !.recipients =
                         [q \in DOMAIN rs \cup {path} |->
                            IF q = path THEN r ELSE rs[q]]]
      BY <2>10 DEF AddRecipient
    <3> DEFINE path == Append(parent,
                         Cardinality(LayerOf(msg.recipients, parent)) + 1)
               rs == [q \in DOMAIN msg.recipients \cup {path} |->
                        IF q = path THEN r ELSE msg.recipients[q]]
    <3>2. Forest(rs)
      BY <2>1, ExtendedForest, MacConstants DEF IsMessage
    <3>3. msg' = [msg EXCEPT !.recipients = rs]
      BY <3>1
    <3> HIDE DEF rs
    <3> QED
      BY <2>1, <2>7, <2>10, <3>2, <3>3 DEF AddRecipient
  <2>11. CASE PrepareTag
    <3>1. PICK c \in Macer, aad \in Aad :
            LET p == PrepareEmbedded(msg, c.alg, c.kid)
            IN /\ msg' = p.msg
               /\ IF p.ok
                  THEN Ask(c.key, ToBeMaced(p.msg, aad, p.msg.payload))
                  ELSE UNCHANGED requests
      BY <2>11 DEF PrepareTag
    <3> QED
      BY <2>1, <2>2, <3>1, PrepareEmbeddedEffect
  <2>12. CASE PrepareDetachedTag
    <3>1. PICK c \in Macer, aad \in Aad, payload \in Payload :
            LET p == PrepareDetached(msg, c.alg, c.kid)
            IN /\ msg' = p.msg
               /\ IF p.ok THEN Ask(c.key, ToBeMaced(p.msg, aad, payload))
                          ELSE UNCHANGED requests
      BY <2>12 DEF PrepareDetachedTag
    <3> QED
      BY <2>1, <2>2, <3>1, PrepareDetachedEffect
  <2>13. CASE SetTag
    <3>1. Answers \subseteq MacTag
      BY <2>1 DEF Answers, Tag, MacTag
    <3> QED
      BY <2>1, <2>13, <3>1, SetTagEffect DEF SetTag
  <2>14. CASE LoseRequest
    BY <2>1, <2>14 DEF LoseRequest
  <2>15. CASE Compute
    BY <2>1, <2>15, ComputeEmbeddedEffect DEF Compute
  <2>16. CASE ComputeDetachedPayload
    BY <2>1, <2>16, ComputeDetachedEffect DEF ComputeDetachedPayload
  <2>17. CASE FromSlice
    <3>1. \A w \in Wires : WireMessage(w)
      BY <2>1, WireOfMessage, ForeignWireMessage DEF Wires
    <3> QED
      BY <2>1, <2>17, <3>1, DecodedIsMessage DEF FromSlice
  <2>18. CASE UNCHANGED vars
    BY <2>1, <2>18 DEF vars
  <2> QED
    BY <2>3, <2>4, <2>5, <2>6, <2>8, <2>9, <2>10, <2>11, <2>12, <2>13,
       <2>14, <2>15, <2>16, <2>17, <2>18 DEF Next
<1> QED
  BY <1>2, <1>3, PTL DEF Spec

(* Whatever verify and verify_detached accept was tagged as the caller     *)
(* reads it and as a message of this kind, although a late answer may be   *)
(* stored in any message (mac.rs and mac0.rs, verify_payload, set_tag).    *)
THEOREM AcceptanceCorrect == Spec => []AcceptedIsWhatWasMaced
<1>1. ASSUME TypeOK, NEW c \in Macer, NEW aad \in Aad, NEW payload \in Payload,
             VerifyPayload(msg, c, payload, aad)
      PROVE  MacedAsSeen(msg, c, payload, aad)
  <2> DEFINE tbm == ToBeMaced(msg, aad, payload)
  <2>1. msg.tag = Tag(c.key, tbm) /\ IsMessage(msg)
    BY <1>1 DEF VerifyPayload, TypeOK
  <2>2. /\ tbm[1] = msg.context /\ tbm[2] = msg.protected_raw
        /\ tbm[3] = aad /\ tbm[4] = payload
    BY DEF ToBeMaced
  <2>3. msg.tag.by = c.key /\ msg.tag.over = tbm
    BY <2>1 DEF Tag
  <2>4. msg.tag # None
    BY <2>1, StructureType, NoneIsNoTag
  <2>5. DecodeProtected(msg.protected_raw) = msg.protected
    BY <1>1, ViewOfValidBytes DEF VerifyPayload, ValidateLayer
  <2>6. EnsureCritUnderstood(msg.protected, c.understood)
        /\ CheckProtectedAlg(msg, c.alg)
    BY <1>1 DEF VerifyPayload
  <2>7. None \in {msg.protected["alg"], c.alg} \/ msg.protected["alg"] = c.alg
    BY <2>6 DEF CheckProtectedAlg, DeclaredAlg
  <2> HIDE DEF tbm
  <2> QED
    BY <2>2, <2>3, <2>4, <2>5, <2>6, <2>7 DEF MacedAsSeen
<1>2. TypeOK => AcceptedIsWhatWasMaced
  <2> SUFFICES ASSUME TypeOK, NEW c \in Macer, NEW aad \in Aad
               PROVE  /\ Verify(msg, c, aad) =>
                           MacedAsSeen(msg, c, msg.payload, aad)
                      /\ \A p \in Payload : VerifyDetached(msg, c, p, aad) =>
                           MacedAsSeen(msg, c, p, aad)
    BY DEF AcceptedIsWhatWasMaced
  <2>1. Verify(msg, c, aad) => msg.payload \in Payload
    BY DEF Verify, TypeOK, IsMessage, Message
  <2> QED
    BY <1>1, <2>1 DEF Verify, VerifyDetached
<1> QED
  BY <1>2, TypeCorrect, PTL

-----------------------------------------------------------------------------
(* Recipients.                                                             *)

(* What encodes decodes, if a parser reads as deep as its recipients.      *)
LEMMA EncodedMessageDecodes ==
  ASSUME NEW m, IsMessage(m), CanEncode(m), Readable(m.recipients)
  PROVE  /\ CanDecode(WireOf(m))
         /\ Seen(Decoded(WireOf(m)).recipients) = Seen(m.recipients)
         /\ Decoded(WireOf(m)).protected = m.protected
<1> DEFINE w == WireOf(m)
           d == Decoded(w)
<1>1. /\ w.context = m.context /\ w.protected = m.protected_raw
      /\ w.recipients = EncodedRecipients(m.recipients)
      /\ d.unprotected = m.unprotected
      /\ d.protected = DecodeProtected(m.protected_raw)
      /\ d.recipients = DecodedRecipients(EncodedRecipients(m.recipients))
  BY DEF WireOf, Decoded
<1> HIDE DEF d, w
<1>2. d.protected = m.protected
  BY <1>1, ViewOfValidBytes DEF CanEncode, ValidateLayer
<1>3. ValidateHeaderBuckets(d) /\ Decodable(w.protected)
  BY <1>1, <1>2
  DEF CanEncode, ValidateLayer, ValidateHeaderBuckets, Decodable,
      DecodeProtected
<1>4. CASE m.context = "MAC"
  <2>1. ValidateRecipients(m.recipients) /\ Forest(m.recipients)
    BY <1>4 DEF CanEncode, RecipientsOk, IsMessage
  <2>2. CanDecodeRecipients(w.recipients)
    BY <1>1, <2>1, EncodedDecodes
  <2>3. Seen(d.recipients) = Seen(m.recipients)
    BY <1>1, <2>1, SeenAcrossTheWire DEF ValidateRecipients
  <2> QED
    BY <1>2, <1>3, <2>2, <2>3 DEF CanDecode, d, w
<1>5. CASE m.context = "MAC0"
  <2>1. d.recipients = m.recipients
    BY <1>1, <1>5, NoRecipientsAcrossTheWire DEF IsMessage
  <2> QED
    BY <1>1, <1>2, <1>3, <1>5, <2>1 DEF CanDecode, d, w
<1> QED
  BY <1>4, <1>5 DEF IsMessage, Message, Context

(* What decodes encodes to the bytes it came from.                         *)
LEMMA DecodedMessageEncodes ==
  ASSUME NEW w \in ForeignWire, CanDecode(w)
  PROVE  CanEncode(Decoded(w)) /\ WireOf(Decoded(w)) = w
<1> DEFINE d == Decoded(w)
           rs == DecodedRecipients(w.recipients)
<1>1. WireMessage(w)
  BY ForeignWireMessage
<1>2. /\ d.context = w.context /\ d.unprotected = w.unprotected
      /\ d.payload = w.payload /\ d.tag = w.tag /\ d.recipients = rs
      /\ d.protected = w.protected.hdr /\ d.protected_raw = w.protected
      /\ d.state = "Complete"
  BY DEF Decoded, DecodeProtected
<1> HIDE DEF rs, d
<1>3. EncodedRecipients(rs) = w.recipients
  BY <1>1, DecodedEncodes, NoneIsNoTag DEF WireMessage, rs
<1>4. w = [context |-> w.context, protected |-> w.protected,
           unprotected |-> w.unprotected, payload |-> w.payload,
           tag |-> w.tag, recipients |-> w.recipients]
  <2>1. PICK raw \in ForeignRaw, p \in Payload, c \in Macer, aad \in Aad,
             ws \in ForeignRecipients : w = ForeignMessage(raw, p, c, aad, ws)
    BY DEF ForeignWire
  <2> DEFINE t == ForeignMessage(raw, p, c, aad, ws).tag
  <2>2. w = [context |-> IF ws = NoRecipients THEN "MAC0" ELSE "MAC",
             protected |-> raw, unprotected |-> EmptyHeader, payload |-> p,
             recipients |-> ws, tag |-> t]
    BY <2>1 DEF ForeignMessage
  <2> HIDE DEF t
  <2> QED
    BY <2>2
<1>5. WireOf(d) = w
  BY <1>2, <1>3, <1>4 DEF WireOf
<1>6. RecipientsOk(d)
  BY <1>1, <1>2, DecodedValidates DEF CanDecode, RecipientsOk, WireMessage, rs
<1>7. ValidateHeaderBuckets(d)
  BY DEF CanDecode, d
<1>8. ValidateProtectedState(d.protected, d.protected_raw)
  BY <1>2, <1>7
  DEF ValidateProtectedState, Encodable, ValidateHeaderBuckets, Decodable,
      EncodeProtected, DecodeProtected
<1> QED
  BY <1>2, <1>5, <1>6, <1>7, <1>8 DEF CanEncode, ValidateLayer, d

(* Recipients arrive as they were sent, those of other implementations     *)
(* keep their bytes, and encoding and decoding refuse the same recipients  *)
(* although each validates them in its own way (recipient.rs).             *)
THEOREM TravelCorrect == Spec => []RecipientsTravel
<1>1. TypeOK => RecipientsTravel
  BY EncodedMessageDecodes, DecodedMessageEncodes
  DEF RecipientsTravel, TypeOK
<1> QED
  BY <1>1, TypeCorrect, PTL

-----------------------------------------------------------------------------
(* Computing and verifying.                                                *)

LEMMA TaggedVerifies ==
  ASSUME NEW n, NEW c \in Macer, NEW aad \in Aad, NEW payload \in Payload,
         Tagged(n, c, aad, payload)
  PROVE  /\ CanEncode(n)
         /\ CanRead(n, c) =>
              /\ CanDecode(WireOf(n))
              /\ Decoded(WireOf(n)).payload = n.payload
              /\ Decoded(WireOf(n)).state = "Complete"
              /\ VerifyPayload(Decoded(WireOf(n)), c, payload, aad)
<1>1. IsMessage(n) /\ CanEncode(n)
  BY DEF Tagged, CanEncode
<1>2. ASSUME CanRead(n, c)
      PROVE  /\ CanDecode(WireOf(n))
             /\ Decoded(WireOf(n)).payload = n.payload
             /\ Decoded(WireOf(n)).state = "Complete"
             /\ VerifyPayload(Decoded(WireOf(n)), c, payload, aad)
  <2> DEFINE d == Decoded(WireOf(n))
  <2>1. CanDecode(WireOf(n)) /\ d.protected = n.protected
    BY <1>1, <1>2, EncodedMessageDecodes DEF CanRead
  <2>2. /\ d.unprotected = n.unprotected /\ d.context = n.context
        /\ d.protected_raw = n.protected_raw /\ d.payload = n.payload
        /\ d.tag = n.tag /\ d.state = "Complete"
    BY DEF Decoded, WireOf
  <2> HIDE DEF d
  <2>3. ValidateLayer(d) /\ CheckProtectedAlg(d, c.alg)
    BY <2>1, <2>2
    DEF Tagged, ValidateLayer, ValidateHeaderBuckets, CheckProtectedAlg,
        DeclaredAlg
  <2>4. d.tag = Tag(c.key, ToBeMaced(d, aad, payload))
    BY <2>2 DEF Tagged, ToBeMaced
  <2>5. EnsureCritUnderstood(d.protected, c.understood)
    BY <1>2, <2>1 DEF CanRead
  <2> QED
    BY <2>1, <2>2, <2>3, <2>4, <2>5 DEF VerifyPayload, d
<1> QED
  BY <1>1, <1>2

(* What compute and compute_detached make encodes, and a receiver who      *)
(* reads so deep and understands its header verifies it (mac.rs, compute). *)
THEOREM ComputeThenVerifyCorrect == Spec => []ComputeThenVerify
<1>1. ASSUME TypeOK, NEW c \in Macer, NEW aad \in Aad
      PROVE  LET r == ComputeEmbedded(msg, c, aad, TRUE)
             IN r.ok => /\ CanEncode(r.msg)
                        /\ CanRead(r.msg, c) =>
                             VerifyAndDecode(WireOf(r.msg), c, aad)
  <2> DEFINE r == ComputeEmbedded(msg, c, aad, TRUE)
  <2>1. r.ok => /\ Tagged(r.msg, c, aad, msg.payload)
                /\ r.msg.payload = msg.payload /\ msg.payload # None
    BY <1>1, ComputeEmbeddedEffect DEF TypeOK
  <2> HIDE DEF r
  <2>2. r.ok => msg.payload \in Payload
    BY <1>1, <2>1 DEF TypeOK, IsMessage, Message
  <2>3. r.ok => /\ CanEncode(r.msg)
                /\ CanRead(r.msg, c) =>
                     VerifyAndDecode(WireOf(r.msg), c, aad)
    BY <2>1, <2>2, TaggedVerifies DEF VerifyAndDecode, Verify
  <2> QED
    BY <2>3 DEF r
<1>2. ASSUME TypeOK, NEW c \in Macer, NEW aad \in Aad, NEW p \in Payload
      PROVE  LET r == ComputeDetached(msg, c, p, aad, TRUE)
             IN r.ok => /\ CanEncode(r.msg)
                        /\ CanRead(r.msg, c) =>
                             VerifyDetachedAndDecode(WireOf(r.msg), c, p, aad)
  <2> DEFINE r == ComputeDetached(msg, c, p, aad, TRUE)
  <2>1. r.ok => Tagged(r.msg, c, aad, p) /\ r.msg.payload = None
    BY <1>2, ComputeDetachedEffect DEF TypeOK
  <2> HIDE DEF r
  <2>2. r.ok => /\ CanEncode(r.msg)
                /\ CanRead(r.msg, c) =>
                     VerifyDetachedAndDecode(WireOf(r.msg), c, p, aad)
    BY <2>1, TaggedVerifies DEF VerifyDetachedAndDecode, VerifyDetached
  <2> QED
    BY <2>2 DEF r
<1>3. TypeOK => ComputeThenVerify
  BY <1>1, <1>2 DEF ComputeThenVerify
<1> QED
  BY <1>3, TypeCorrect, PTL

-----------------------------------------------------------------------------
(* The layer a message is.                                                 *)

(* What a call does to the private fields of the message: it leaves them   *)
(* alone, prepares it, stores an answer, computes a tag, or replaces it.   *)
Untouched(m, n) ==
  /\ n.protected_raw = m.protected_raw /\ n.tag = m.tag
  /\ n.state = m.state

Prepared(n) ==
  /\ n.state = "Prepared" /\ n.tag = None
  /\ n.protected_raw = EncodeProtected(n.protected)

Stored(m, n) ==
  /\ n.state = "Complete" /\ n.protected = m.protected
  /\ IF m.state = "New" THEN n.protected_raw = EncodeProtected(m.protected)
     ELSE /\ n.protected_raw = m.protected_raw
          /\ DecodeProtected(m.protected_raw) = m.protected

Completed(n) ==
  /\ n.state = "Complete"
  /\ n.protected_raw = EncodeProtected(n.protected)
  /\ TagCovers(n.tag, n.protected_raw)

Loaded(m, n) ==
  /\ n.state = "Complete" /\ DecodeProtected(n.protected_raw) = n.protected
  /\ \/ TagCovers(n.tag, n.protected_raw)
     \/ n.tag = m.tag /\ n.protected_raw = m.protected_raw

(* A tag covers the protected bytes of the structure it was made for.      *)
LEMMA MacTagCovers ==
  ASSUME NEW m, IsMessage(m), NEW c \in Macer, NEW aad \in Aad,
         NEW payload \in Payload
  PROVE  TagCovers(Tag(c.key, ToBeMaced(m, aad, payload)), m.protected_raw)
<1> DEFINE tbm == ToBeMaced(m, aad, payload)
<1>1. Tag(c.key, tbm) # None
  BY StructureType, NoneIsNoTag
<1>2. Tag(c.key, tbm).over = tbm /\ tbm[2] = m.protected_raw
  BY DEF Tag, ToBeMaced
<1> HIDE DEF tbm
<1> QED
  BY <1>1, <1>2 DEF TagCovers, tbm

(* prepare_tag_headers prepares the message, or leaves its private fields  *)
(* as they were.                                                           *)
LEMMA PrepareTagHeadersPrepares ==
  ASSUME NEW m, IsMessage(m), NEW c \in Macer
  PROVE  LET p == PrepareTagHeaders(m, c.alg, c.kid)
         IN IF p.ok THEN Prepared(p.msg) ELSE Untouched(m, p.msg)
<1> DEFINE h == PrepareHeaders(m, c.alg, c.kid)
           p == PrepareTagHeaders(m, c.alg, c.kid)
           n == Tagging(h)
<1>1. c.alg \in Alg \cup {None} /\ c.kid \in Kid \cup {None}
  BY MacConstants
<1>2. h.msg \in Rewritten(m) /\ h.ok \in BOOLEAN
  BY <1>1, RewrittenClosed, PrepareHeadersKeeps
<1>3. h.msg \in Message(m.recipients) /\ Untouched(m, h.msg)
  BY <1>2 DEF Rewritten, Untouched
<1>4. p = IF ~ RecipientsOk(m) THEN [ok |-> FALSE, msg |-> m]
          ELSE IF h.ok THEN [ok |-> TRUE, msg |-> n] ELSE h
  BY DEF PrepareTagHeaders, Ok, Err
<1>5. n = [h.msg EXCEPT !.protected_raw = EncodeProtected(h.msg.protected),
                        !.state = "Prepared", !.tag = None]
  BY DEF Tagging
<1> HIDE DEF h, p, n
<1>6. Prepared(n)
  BY <1>3, <1>5 DEF Prepared, Message
<1>7. CASE RecipientsOk(m) /\ h.ok
  BY <1>4, <1>6, <1>7 DEF p
<1>8. CASE ~ RecipientsOk(m)
  BY <1>4, <1>8 DEF Untouched, p
<1>9. CASE RecipientsOk(m) /\ ~ h.ok
  BY <1>2, <1>3, <1>4, <1>9 DEF p
<1> QED
  BY <1>2, <1>7, <1>8, <1>9

(* prepare_tag and prepare_detached_tag do the same to the private fields. *)
LEMMA PreparationsPrepare ==
  ASSUME NEW m, IsMessage(m), NEW c \in Macer
  PROVE  /\ LET n == PrepareEmbedded(m, c.alg, c.kid).msg
            IN Prepared(n) \/ Untouched(m, n)
         /\ LET n == PrepareDetached(m, c.alg, c.kid).msg
            IN Prepared(n) \/ Untouched(m, n)
<1> DEFINE q == PrepareTagHeaders(m, c.alg, c.kid)
           n == [q.msg EXCEPT !.payload = None]
<1>1. IF q.ok THEN Prepared(q.msg) ELSE Untouched(m, q.msg)
  BY PrepareTagHeadersPrepares
<1>2. IsMessage(q.msg) /\ q.ok \in BOOLEAN
  BY PrepareTagHeadersEffect, MacConstants
<1>3. PrepareEmbedded(m, c.alg, c.kid).msg = q.msg
  BY PrepareEmbeddedFields
<1>4. PrepareDetached(m, c.alg, c.kid).msg = IF q.ok THEN n ELSE q.msg
  BY DEF PrepareDetached, Ok
<1> HIDE DEF q
<1>5. q.ok => Prepared(n)
  BY <1>1, <1>2 DEF Prepared, IsMessage, Message
<1> HIDE DEF n
<1> QED
  BY <1>1, <1>2, <1>3, <1>4, <1>5

(* set_tag stores the answer or leaves the message as it was.              *)
LEMMA SetTagStores ==
  ASSUME NEW m, IsMessage(m), NEW tag \in MacTag
  PROVE  LET n == SetTagOf(m, tag).msg IN Stored(m, n) \/ n = m
<1> DEFINE y == SyncProtectedRaw(m)
           n == [y.msg EXCEPT !.tag = tag, !.state = "Complete"]
<1>1. SetTagOf(m, tag).msg
        = IF ~ RecipientsOk(m) THEN m ELSE IF y.ok THEN n ELSE y.msg
  BY DEF SetTagOf, Ok, Err
<1>2. CASE m.state = "New"
  <2> DEFINE e == [m EXCEPT !.protected_raw = EncodeProtected(m.protected)]
  <2>1. y = IF ValidateHeaderBuckets(m) THEN [ok |-> TRUE, msg |-> e]
            ELSE [ok |-> FALSE, msg |-> m]
    BY <1>2 DEF SyncProtectedRaw, Ok, Err
  <2>2. CASE ValidateHeaderBuckets(m)
    <3> HIDE DEF y
    <3>1. y.ok /\ y.msg = e
      BY <2>1, <2>2
    <3>2. Stored(m, n)
      BY <1>2, <3>1 DEF Stored, IsMessage, Message
    <3> HIDE DEF n
    <3> QED
      BY <1>1, <3>1, <3>2
  <2>3. CASE ~ ValidateHeaderBuckets(m)
    BY <1>1, <2>1, <2>3
  <2> QED
    BY <2>2, <2>3
<1>3. CASE m.state # "New"
  <2>1. y = [ok |-> ValidateLayer(m), msg |-> m]
    BY <1>3 DEF SyncProtectedRaw
  <2>2. CASE ValidateLayer(m)
    <3>1. DecodeProtected(m.protected_raw) = m.protected
      BY <2>2, ViewOfValidBytes DEF ValidateLayer
    <3> HIDE DEF y
    <3>2. y.msg = m /\ y.ok
      BY <2>1, <2>2
    <3>3. Stored(m, n)
      BY <1>3, <3>1, <3>2 DEF Stored, IsMessage, Message
    <3> HIDE DEF n
    <3> QED
      BY <1>1, <3>2, <3>3
  <2>3. CASE ~ ValidateLayer(m)
    BY <1>1, <2>1, <2>3
  <2> QED
    BY <2>2, <2>3
<1> QED
  BY <1>2, <1>3

(* compute and compute_detached complete the message, stop at a prepared   *)
(* one, or leave its private fields alone.                                 *)
LEMMA ComputesComplete ==
  ASSUME NEW m, IsMessage(m), NEW c \in Macer, NEW aad \in Aad,
         NEW payload \in Payload, NEW available \in BOOLEAN
  PROVE  \A n \in {ComputeEmbedded(m, c, aad, available).msg,
                   ComputeDetached(m, c, payload, aad, available).msg} :
           Completed(n) \/ Prepared(n) \/ Untouched(m, n)
<1> DEFINE q == PrepareTagHeaders(m, c.alg, c.kid)
           t == Tag(c.key, ToBeMaced(q.msg, aad, m.payload))
           d == Tag(c.key, ToBeMaced(q.msg, aad, payload))
           n == [q.msg EXCEPT !.state = "Complete", !.tag = t]
           k == [q.msg EXCEPT !.state = "Complete", !.payload = None, !.tag = d]
<1>1. /\ IsMessage(q.msg) /\ q.ok \in BOOLEAN
      /\ IF q.ok THEN Prepared(q.msg) ELSE Untouched(m, q.msg)
  BY PrepareTagHeadersEffect, PrepareTagHeadersPrepares, MacConstants
<1>2. /\ PrepareEmbedded(m, c.alg, c.kid).msg = q.msg
      /\ PrepareEmbedded(m, c.alg, c.kid).ok = (q.ok /\ m.payload # None)
  BY PrepareEmbeddedFields
<1>3. ComputeEmbedded(m, c, aad, available).msg
        = IF q.ok /\ m.payload # None /\ available THEN n ELSE q.msg
  BY <1>2 DEF ComputeEmbedded, Ok, Err
<1>4. ComputeDetached(m, c, payload, aad, available).msg
        = IF q.ok /\ available THEN k ELSE q.msg
  BY DEF ComputeDetached, Ok, Err
<1> HIDE DEF q
<1>5. m.payload # None => TagCovers(t, q.msg.protected_raw)
  BY <1>1, MacTagCovers DEF IsMessage, Message
<1>6. TagCovers(d, q.msg.protected_raw)
  BY <1>1, MacTagCovers
<1> HIDE DEF t, d
<1>7. q.ok /\ m.payload # None => Completed(n)
  BY <1>1, <1>5 DEF Prepared, Completed, IsMessage, Message
<1>8. q.ok => Completed(k)
  BY <1>1, <1>6 DEF Prepared, Completed, IsMessage, Message
<1> HIDE DEF n, k
<1> QED
  BY <1>1, <1>3, <1>4, <1>7, <1>8

(* A message from the wire is loaded, this very one or one from elsewhere. *)
LEMMA FromSliceLoads ==
  ASSUME NEW m, NEW w, w \in ForeignWire \/ w = WireOf(m)
  PROVE  Loaded(m, Decoded(w))
<1>1. CASE w = WireOf(m)
  BY <1>1 DEF Loaded, Decoded, WireOf
<1>2. CASE w \in ForeignWire
  <2>1. PICK raw \in ForeignRaw, p \in Payload, c \in Macer, aad \in Aad,
             ws \in ForeignRecipients :
          w = ForeignMessage(raw, p, c, aad, ws)
    BY <1>2 DEF ForeignWire
  <2> DEFINE v == [context |-> IF ws = NoRecipients THEN "MAC0" ELSE "MAC",
                   protected |-> raw, unprotected |-> EmptyHeader,
                   payload |-> p, recipients |-> ws, tag |-> None]
             t == Tag(c.key, ToBeMaced(Decoded(v), aad, p))
  <2>2. WireMessage(v)
    BY MacConstants, EmptyHeaderType DEF WireMessage, Context
  <2>3. TagCovers(t, Decoded(v).protected_raw)
    BY <2>2, DecodedIsMessage, MacTagCovers
  <2>4. Decoded(v).protected_raw = raw
    BY DEF Decoded
  <2>5. w = [v EXCEPT !.tag = t]
    BY <2>1 DEF ForeignMessage
  <2> HIDE DEF t
  <2>6. w.protected = raw /\ w.tag = t
    BY <2>5
  <2> HIDE DEF v
  <2> QED
    BY <2>3, <2>4, <2>6 DEF Loaded, Decoded
<1> QED
  BY <1>1, <1>2

(* A MACed message is an authenticated layer: its protected bytes are      *)
(* frozen while a tag over them is pending or stored, whatever happens to  *)
(* its recipients, and a tag is stored only while the public header        *)
(* denotes them (mac.rs and mac0.rs, prepare_tag_headers and set_tag).     *)
THEOREM Refinement == Spec => ImplementsAuthLayer
<1> USE DEF BytesDenote, BytesFresh
<1>1. Init => Layer!Init
  BY DEF Init, New, Layer!Init
<1>2. TypeOK /\ [Next]_vars => [Layer!Next]_(Layer!layer)
  <2> SUFFICES ASSUME TypeOK, [Next]_vars
               PROVE  [Layer!Next]_(Layer!layer)
    OBVIOUS
  <2> USE DEF Layer!Next
  <2>1. IsMessage(msg) /\ requests \subseteq [key : Key, tbm : MacStructure]
    BY DEF TypeOK
  <2>2. Untouched(msg, msg') => [Layer!Next]_(Layer!layer)
    BY DEF Untouched, Layer!Edit
  <2>3. Prepared(msg') => [Layer!Next]_(Layer!layer)
    BY DEF Prepared, Layer!Prepare
  <2>4. Stored(msg, msg') => [Layer!Next]_(Layer!layer)
    BY DEF Stored, Layer!Store
  <2>5. Completed(msg') => [Layer!Next]_(Layer!layer)
    BY DEF Completed, Layer!Produce
  <2>6. Loaded(msg, msg') => [Layer!Next]_(Layer!layer)
    BY DEF Loaded, Layer!Load
  <2>7. CASE NewMessage
    BY <2>7 DEF NewMessage, New, Layer!Renew, Layer!Init
  <2>8. CASE EditProtected \/ EditUnprotected \/ EditPayload
    <3>1. Untouched(msg, msg')
      BY <2>1, <2>8
      DEF EditProtected, EditUnprotected, EditPayload, IsMessage, Message,
          Untouched
    <3> QED
      BY <2>2, <3>1
  <2>9. CASE SetRecipients \/ EditRecipient \/ AddRecipient
    <3>1. \E rs : msg' = [msg EXCEPT !.recipients = rs]
      BY <2>1, <2>9
      DEF SetRecipients, EditRecipient, AddRecipient, IsMessage, Message
    <3>2. Untouched(msg, msg')
      BY <2>1, <3>1 DEF IsMessage, Message, Untouched
    <3> QED
      BY <2>2, <3>2
  <2>10. CASE PrepareTag \/ PrepareDetachedTag
    <3>1. PICK c \in Macer :
            \/ msg' = PrepareEmbedded(msg, c.alg, c.kid).msg
            \/ msg' = PrepareDetached(msg, c.alg, c.kid).msg
      BY <2>10 DEF PrepareTag, PrepareDetachedTag
    <3> QED
      BY <2>1, <2>2, <2>3, <3>1, PreparationsPrepare
  <2>11. CASE SetTag
    <3>1. Answers \subseteq MacTag
      BY <2>1 DEF Answers, Tag, MacTag
    <3>2. Stored(msg, msg') \/ Untouched(msg, msg')
      BY <2>1, <2>11, <3>1, SetTagStores DEF SetTag, Untouched
    <3> QED
      BY <2>2, <2>4, <3>2
  <2>12. CASE LoseRequest
    <3>1. Untouched(msg, msg')
      BY <2>12 DEF LoseRequest, Untouched
    <3> QED
      BY <2>2, <3>1
  <2>13. CASE Compute
    <3>1. PICK c \in Macer, aad \in Aad, available \in BOOLEAN :
            msg' = ComputeEmbedded(msg, c, aad, available).msg
      BY <2>13 DEF Compute
    <3>2. CASE Payload # {}
      BY <2>1, <2>2, <2>3, <2>5, <3>1, <3>2, ComputesComplete
    <3>3. CASE Payload = {}
      <4>1. msg.payload = None
        BY <2>1, <3>3 DEF IsMessage, Message
      <4>2. msg' = PrepareEmbedded(msg, c.alg, c.kid).msg
        BY <3>1, <4>1, PrepareEmbeddedFields DEF ComputeEmbedded
      <4> QED
        BY <2>1, <2>2, <2>3, <4>2, PreparationsPrepare
    <3> QED
      BY <3>2, <3>3
  <2>14. CASE ComputeDetachedPayload
    <3>1. PICK c \in Macer, aad \in Aad, p \in Payload, available \in BOOLEAN :
            msg' = ComputeDetached(msg, c, p, aad, available).msg
      BY <2>14 DEF ComputeDetachedPayload
    <3> QED
      BY <2>1, <2>2, <2>3, <2>5, <3>1, ComputesComplete
  <2>15. CASE FromSlice
    <3>1. PICK w \in Wires : msg' = Decoded(w)
      BY <2>15 DEF FromSlice
    <3>2. w \in ForeignWire \/ w = WireOf(msg)
      BY <3>1 DEF Wires
    <3> QED
      BY <2>6, <3>1, <3>2, FromSliceLoads
  <2>16. CASE UNCHANGED vars
    <3>1. Untouched(msg, msg')
      BY <2>16 DEF vars, Untouched
    <3> QED
      BY <2>2, <3>1
  <2> QED
    BY <2>7, <2>8, <2>9, <2>10, <2>11, <2>12, <2>13, <2>14, <2>15, <2>16
    DEF Next
<1> QED
  BY <1>1, <1>2, TypeCorrect, PTL DEF Spec, ImplementsAuthLayer, Layer!Spec

(* While recipients are not valid no call changes the message and it does  *)
(* not encode (mac.rs, prepare_tag_headers, set_tag and encode, which      *)
(* validate the recipients before they do anything).                       *)
THEOREM BadRecipientsCorrect == Spec => []BadRecipientsBlock
<1>1. BadRecipientsBlock
  <2> SUFFICES ASSUME ~ RecipientsOk(msg)
               PROVE  BadRecipientsBlock
    BY DEF BadRecipientsBlock
  <2>1. ~ CanEncode(msg)
    BY DEF CanEncode
  <2>2. \A tag : SetTagOf(msg, tag) = Err(msg)
    BY DEF SetTagOf
  <2>3. \A alg, kid : PrepareTagHeaders(msg, alg, kid) = Err(msg)
    BY DEF PrepareTagHeaders
  <2>4. Err(msg).ok = FALSE /\ Err(msg).msg = msg
        /\ [Err(msg) EXCEPT !.ok = FALSE] = Err(msg)
    <3>1. Err(msg) \in [ok : {FALSE}, msg : {msg}]
      BY DEF Err
    <3> QED
      BY <3>1
  <2>5. \A alg, kid : PrepareEmbedded(msg, alg, kid) = Err(msg)
    BY <2>3, <2>4 DEF PrepareEmbedded
  <2>6. \A alg, kid : PrepareDetached(msg, alg, kid) = Err(msg)
    BY <2>3, <2>4 DEF PrepareDetached
  <2>7. \A c, aad : ComputeEmbedded(msg, c, aad, TRUE) = Err(msg)
    BY <2>4, <2>5 DEF ComputeEmbedded
  <2>8. \A c, aad, p : ComputeDetached(msg, c, p, aad, TRUE) = Err(msg)
    BY <2>3, <2>4 DEF ComputeDetached
  <2>9. ASSUME NEW c \in Macer, NEW aad \in Aad
        PROVE  \A r \in {PrepareEmbedded(msg, c.alg, c.kid),
                         PrepareDetached(msg, c.alg, c.kid),
                         ComputeEmbedded(msg, c, aad, TRUE)}
                          \cup {ComputeDetached(msg, c, p, aad, TRUE) : p \in Payload}
                          \cup {SetTagOf(msg, tag) : tag \in Answers} : r = Err(msg)
    <3> DEFINE Prepares == {PrepareEmbedded(msg, c.alg, c.kid),
                            PrepareDetached(msg, c.alg, c.kid),
                            ComputeEmbedded(msg, c, aad, TRUE)}
               Computes == {ComputeDetached(msg, c, p, aad, TRUE) : p \in Payload}
               Stores == {SetTagOf(msg, tag) : tag \in Answers}
    <3>1. \A r \in Computes : r = Err(msg)
      BY <2>8
    <3>2. \A r \in Stores : r = Err(msg)
      BY <2>2
    <3>3. \A r \in Prepares : r = Err(msg)
      <4>1. PrepareEmbedded(msg, c.alg, c.kid) = Err(msg)
        BY <2>5
      <4>2. PrepareDetached(msg, c.alg, c.kid) = Err(msg)
        BY <2>6
      <4>3. ComputeEmbedded(msg, c, aad, TRUE) = Err(msg)
        BY <2>7
      <4> QED
        BY <4>1, <4>2, <4>3
    <3> HIDE DEF Prepares, Computes, Stores
    <3>4. \A r \in Prepares \cup Computes \cup Stores : r = Err(msg)
      BY <3>1, <3>2, <3>3
    <3> QED
      BY <3>4 DEF Prepares, Computes, Stores
  <2> QED
    BY <2>1, <2>9 DEF BadRecipientsBlock
<1> QED
  BY <1>1, PTL
=============================================================================
