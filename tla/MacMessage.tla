----------------------------- MODULE MacMessage -----------------------------
(***************************************************************************)
(* The life of a COSE_Mac0 or COSE_Mac message object (src/src/mac0.rs,    *)
(* src/src/mac.rs).  Both live as a COSE_Sign1 message does, with a tag in *)
(* place of the signature; a COSE_Mac message also has recipients, which   *)
(* it validates before anything else.  The tag does not cover them, and    *)
(* the caller can write them like every public field.                      *)
(*                                                                         *)
(* The field context tells the two kinds apart.  Keys are shared, so one   *)
(* remote MAC service may serve messages of both kinds.                    *)
(***************************************************************************)
EXTENDS Recipients

CONSTANTS
  Payload,           \* payload byte strings
  Aad,               \* external additional authenticated data
  Key,               \* MAC keys
  Macer,             \* records [key, alg, kid, understood]
  ProtectedEdit,     \* headers the application writes to the protected field
  UnprotectedEdit,   \* headers it writes to the unprotected field
  RecipientsEdit,    \* recipients it gives a message
  RecipientEdit,     \* headers it writes to a recipient's protected field
  NewRecipient,      \* recipients it adds to a layer
  ForeignRecipients, \* recipients of messages from elsewhere
  ForeignRaw,        \* protected byte strings of those messages
  MaxRecipients,     \* bound: recipients of a message, in all layers
  MaxRequests        \* bound: remote MAC requests outstanding at once

ASSUME MacConstants ==
  /\ \A c \in Macer :
       /\ c.key \in Key /\ c.alg \in Alg \cup {None}
       /\ c.kid \in Kid \cup {None} /\ c.understood \subseteq Label
  /\ ProtectedEdit \cup UnprotectedEdit \cup RecipientEdit \subseteq Header
  /\ \A rs \in RecipientsEdit : Forest(rs)
  /\ NewRecipient \subseteq Recipient
  /\ \A ws \in ForeignRecipients : WireForest(ws)
  /\ ForeignRaw \subseteq ProtectedRaw
  /\ None \notin Payload
  /\ MaxRecipients \in Nat /\ MaxRequests \in Nat

VARIABLES
  msg,       \* the message object
  requests   \* MAC_structures handed to the remote service

vars == <<msg, requests>>

Context == {"MAC0", "MAC"}
MacStructure == Context \X ProtectedRaw \X Aad \X Payload
MacTag == [by : Key, over : MacStructure]
ASSUME NoneIsNoTag == None \notin MacTag \cup ProtectedRaw

Message(recipients) ==
  [context : Context, protected : Header, unprotected : Header,
   payload : Payload \cup {None}, recipients : {recipients},
   tag : MacTag \cup {None}, protected_raw : ProtectedRaw, state : State]
IsMessage(m) ==
  /\ m \in Message(m.recipients)
  /\ Forest(m.recipients)
  /\ m.context = "MAC0" => m.recipients = NoRecipients

\* Faulty variant: one context for both kinds of message.
ToBeMaced_NoContext(m, aad, payload) ==
  <<"MAC", m.protected_raw, aad, payload>>

ToBeMaced(m, aad, payload) == <<m.context, m.protected_raw, aad, payload>>
Tag(key, tbm) == [by |-> key, over |-> tbm]

RecipientsOk(m) == m.context = "MAC" => ValidateRecipients(m.recipients)

-----------------------------------------------------------------------------
(* Mac0Message::new and MacMessage::new                                    *)
New(context, payload) ==
  [context |-> context, protected |-> EmptyHeader,
   unprotected |-> EmptyHeader, payload |-> payload,
   recipients |-> NoRecipients, tag |-> None,
   protected_raw |-> EncodeProtected(EmptyHeader), state |-> "New"]

Tagging(h) ==
  [h.msg EXCEPT !.protected_raw = EncodeProtected(h.msg.protected),
                !.state = "Prepared", !.tag = None]

\* Faulty variant: leaves the recipients to encode.
PrepareTagHeaders_AnyRecipients(m, alg, kid) ==
  LET h == PrepareHeaders(m, alg, kid)
  IN IF h.ok THEN Ok(Tagging(h)) ELSE h

\* Faulty variant: validates the recipients at the end.
PrepareTagHeaders_RecipientsLast(m, alg, kid) ==
  LET h == PrepareHeaders(m, alg, kid)
  IN IF h.ok THEN [ok |-> RecipientsOk(m), msg |-> Tagging(h)] ELSE h

PrepareTagHeaders(m, alg, kid) ==
  LET h == PrepareHeaders(m, alg, kid)
  IN IF ~ RecipientsOk(m) THEN Err(m)
     ELSE IF h.ok THEN Ok(Tagging(h)) ELSE h

(* prepare_tag and prepare_detached_tag                                    *)
PrepareEmbedded(m, alg, kid) ==
  LET p == PrepareTagHeaders(m, alg, kid)
  IN [p EXCEPT !.ok = @ /\ m.payload # None]

PrepareDetached(m, alg, kid) ==
  LET p == PrepareTagHeaders(m, alg, kid)
  IN IF p.ok THEN Ok([p.msg EXCEPT !.payload = None]) ELSE p

SetTagOf(m, tag) ==
  LET s == SyncProtectedRaw(m)
  IN IF ~ RecipientsOk(m) THEN Err(m)
     ELSE IF s.ok THEN Ok([s.msg EXCEPT !.tag = tag, !.state = "Complete"])
     ELSE s

(* compute and compute_detached; "available" is whether mac_create returns *)
(* Ok.                                                                     *)
ComputeEmbedded(m, c, aad, available) ==
  LET p == PrepareEmbedded(m, c.alg, c.kid)
  IN IF ~ p.ok THEN p
     ELSE IF ~ available THEN Err(p.msg)
     ELSE Ok([p.msg EXCEPT !.state = "Complete",
                !.tag = Tag(c.key, ToBeMaced(p.msg, aad, m.payload))])

ComputeDetached(m, c, payload, aad, available) ==
  LET p == PrepareTagHeaders(m, c.alg, c.kid)
  IN IF ~ p.ok THEN p
     ELSE IF ~ available THEN Err(p.msg)
     ELSE Ok([p.msg EXCEPT !.state = "Complete", !.payload = None,
                !.tag = Tag(c.key, ToBeMaced(p.msg, aad, payload))])

-----------------------------------------------------------------------------
(* The wire array, without its tags.  Those tell the kinds apart.          *)
WireOf(m) ==
  [context |-> m.context, protected |-> m.protected_raw,
   unprotected |-> m.unprotected, payload |-> m.payload, tag |-> m.tag,
   recipients |-> EncodedRecipients(m.recipients)]

CanEncode(m) ==
  /\ m.state = "Complete"
  /\ RecipientsOk(m)
  /\ ValidateLayer(m)

Decoded(w) ==
  [context |-> w.context, protected |-> DecodeProtected(w.protected),
   unprotected |-> w.unprotected, payload |-> w.payload,
   recipients |-> DecodedRecipients(w.recipients), tag |-> w.tag,
   protected_raw |-> w.protected, state |-> "Complete"]

CanDecode(w) ==
  /\ w.context = "MAC" => CanDecodeRecipients(w.recipients)
  /\ Decodable(w.protected)
  /\ ValidateHeaderBuckets(Decoded(w))

-----------------------------------------------------------------------------
(* Verification, with ideal tags.                                          *)
VerifyPayload(m, c, payload, aad) ==
  /\ ValidateLayer(m)
  /\ EnsureCritUnderstood(m.protected, c.understood)
  /\ CheckProtectedAlg(m, c.alg)
  /\ m.tag = Tag(c.key, ToBeMaced(m, aad, payload))

Verify(m, c, aad) ==
  /\ m.state = "Complete"
  /\ m.payload # None
  /\ VerifyPayload(m, c, m.payload, aad)

VerifyDetached(m, c, payload, aad) ==
  /\ m.state = "Complete"
  /\ m.payload = None
  /\ VerifyPayload(m, c, payload, aad)

VerifyAndDecode(w, c, aad) == CanDecode(w) /\ Verify(Decoded(w), c, aad)
VerifyDetachedAndDecode(w, c, payload, aad) ==
  CanDecode(w) /\ VerifyDetached(Decoded(w), c, payload, aad)

-----------------------------------------------------------------------------
(* Actions.                                                                *)
Init ==
  /\ \E c \in Context, p \in Payload \cup {None} : msg = New(c, p)
  /\ requests = {}

NewMessage ==
  /\ \E c \in Context, p \in Payload \cup {None} : msg' = New(c, p)
  /\ UNCHANGED requests

(* Writes to the public fields.                                            *)
EditProtected ==
  /\ \E h \in ProtectedEdit : msg' = [msg EXCEPT !.protected = h]
  /\ UNCHANGED requests

EditUnprotected ==
  /\ \E h \in UnprotectedEdit : msg' = [msg EXCEPT !.unprotected = h]
  /\ UNCHANGED requests

EditPayload ==
  /\ \E p \in Payload \cup {None} : msg' = [msg EXCEPT !.payload = p]
  /\ UNCHANGED requests

SetRecipients ==
  /\ msg.context = "MAC"
  /\ \E rs \in RecipientsEdit : msg' = [msg EXCEPT !.recipients = rs]
  /\ UNCHANGED requests

(* A recipient's own public fields: its protected header, beside the bytes *)
(* a decoded recipient keeps, and the vector of those nested in it.        *)
EditRecipient ==
  /\ \E path \in DOMAIN msg.recipients, h \in RecipientEdit :
       msg' = [msg EXCEPT !.recipients[path].protected = h]
  /\ UNCHANGED requests

AddRecipient ==
  /\ msg.context = "MAC"
  /\ Cardinality(DOMAIN msg.recipients) < MaxRecipients
  /\ \E parent \in DOMAIN msg.recipients \cup {<< >>}, r \in NewRecipient :
       LET rs == msg.recipients
           path == Append(parent, Cardinality(LayerOf(rs, parent)) + 1)
       IN msg' = [msg EXCEPT !.recipients =
                    [q \in DOMAIN rs \cup {path} |->
                       IF q = path THEN r ELSE rs[q]]]
  /\ UNCHANGED requests

(* Hands tbm to the remote service.                                        *)
Ask(key, tbm) ==
  /\ requests' = requests \cup {[key |-> key, tbm |-> tbm]}
  /\ Cardinality(requests') <= MaxRequests

PrepareTag ==
  \E c \in Macer, aad \in Aad :
    LET p == PrepareEmbedded(msg, c.alg, c.kid)
    IN /\ msg' = p.msg
       /\ IF p.ok THEN Ask(c.key, ToBeMaced(p.msg, aad, p.msg.payload))
                  ELSE UNCHANGED requests

PrepareDetachedTag ==
  \E c \in Macer, aad \in Aad, payload \in Payload :
    LET p == PrepareDetached(msg, c.alg, c.kid)
    IN /\ msg' = p.msg
       /\ IF p.ok THEN Ask(c.key, ToBeMaced(p.msg, aad, payload))
                  ELSE UNCHANGED requests

(* An answer is stored, whichever message object it was meant for; the     *)
(* request stays, so that the answer can come again.                       *)
Answers == {Tag(r.key, r.tbm) : r \in requests}

SetTag ==
  /\ \E tag \in Answers : msg' = SetTagOf(msg, tag).msg
  /\ UNCHANGED requests

LoseRequest ==
  /\ \E r \in requests : requests' = requests \ {r}
  /\ UNCHANGED msg

Compute ==
  /\ \E c \in Macer, aad \in Aad, available \in BOOLEAN :
       msg' = ComputeEmbedded(msg, c, aad, available).msg
  /\ UNCHANGED requests

ComputeDetachedPayload ==
  /\ \E c \in Macer, aad \in Aad, p \in Payload, available \in BOOLEAN :
       msg' = ComputeDetached(msg, c, p, aad, available).msg
  /\ UNCHANGED requests

(* Messages made elsewhere over bytes this crate would not have chosen.    *)
ForeignMessage(raw, p, c, aad, ws) ==
  LET w == [context |-> IF ws = NoRecipients THEN "MAC0" ELSE "MAC",
            protected |-> raw, unprotected |-> EmptyHeader,
            payload |-> p, recipients |-> ws, tag |-> None]
  IN [w EXCEPT !.tag = Tag(c.key, ToBeMaced(Decoded(w), aad, p))]
ForeignWire ==
  {ForeignMessage(raw, p, c, aad, ws) :
     raw \in ForeignRaw, p \in Payload, c \in Macer, aad \in Aad,
     ws \in ForeignRecipients}

Wires == ForeignWire \cup (IF CanEncode(msg) THEN {WireOf(msg)} ELSE {})

FromSlice ==
  /\ \E w \in Wires : CanDecode(w) /\ msg' = Decoded(w)
  /\ UNCHANGED requests

Next ==
  \/ NewMessage
  \/ EditProtected
  \/ EditUnprotected
  \/ EditPayload
  \/ SetRecipients
  \/ EditRecipient
  \/ AddRecipient
  \/ PrepareTag
  \/ PrepareDetachedTag
  \/ SetTag
  \/ LoseRequest
  \/ Compute
  \/ ComputeDetachedPayload
  \/ FromSlice

Spec == Init /\ [][Next]_vars

-----------------------------------------------------------------------------
(* Type correctness: the fields of the message object, its recipients and  *)
(* the requests outstanding (mac.rs, struct MacMessage, and mac0.rs).      *)
TypeOK ==
  /\ IsMessage(msg)
  /\ requests \subseteq [key : Key, tbm : MacStructure]

(* The tag stored in m was made with c's key for a message of this kind,   *)
(* over bytes that decode to the header the caller sees.                   *)
MacedAsSeen(m, c, payload, aad) ==
  /\ m.tag # None
  /\ m.tag.by = c.key
  /\ m.tag.over[1] = m.context
  /\ DecodeProtected(m.tag.over[2]) = m.protected
  /\ m.tag.over[3] = aad /\ m.tag.over[4] = payload
  /\ EnsureCritUnderstood(m.protected, c.understood)
  /\ None \in {m.protected["alg"], c.alg} \/ m.protected["alg"] = c.alg

(* Whatever verify or verify_detached accepts was tagged exactly as the    *)
(* caller reads it, and as a message of this kind: a late answer that was  *)
(* meant for a COSE_Mac0 message never authenticates a COSE_Mac message.   *)
AcceptedIsWhatWasMaced ==
  \A c \in Macer, aad \in Aad :
    /\ Verify(msg, c, aad) => MacedAsSeen(msg, c, msg.payload, aad)
    /\ \A p \in Payload :
         VerifyDetached(msg, c, p, aad) => MacedAsSeen(msg, c, p, aad)

(* From every state a call to compute or compute_detached that returns Ok  *)
(* leaves a message that encodes, and that its receiver decodes and        *)
(* verifies, unless it does not understand a critical header or recipients *)
(* are nested more deeply than any parser reads.                           *)
CanRead(m, c) ==
  Readable(m.recipients) /\ EnsureCritUnderstood(m.protected, c.understood)
ComputeThenVerify ==
  \A c \in Macer, aad \in Aad :
    /\ LET r == ComputeEmbedded(msg, c, aad, TRUE)
       IN r.ok => /\ CanEncode(r.msg)
                  /\ CanRead(r.msg, c) => VerifyAndDecode(WireOf(r.msg), c, aad)
    /\ \A p \in Payload :
         LET r == ComputeDetached(msg, c, p, aad, TRUE)
         IN r.ok => /\ CanEncode(r.msg)
                    /\ CanRead(r.msg, c) =>
                         VerifyDetachedAndDecode(WireOf(r.msg), c, p, aad)

(* Recipients travel unharmed.  What encodes decodes to the recipients the *)
(* sender saw, what decodes encodes to the bytes it came from, canonical   *)
(* or not, and encoding and decoding refuse the same recipients although   *)
(* each validates them in its own way.                                     *)
RecipientsTravel ==
  /\ CanEncode(msg) /\ Readable(msg.recipients) =>
       /\ CanDecode(WireOf(msg))
       /\ Seen(Decoded(WireOf(msg)).recipients) = Seen(msg.recipients)
  /\ \A w \in {x \in ForeignWire : CanDecode(x) /\ msg = Decoded(x)} :
       CanEncode(msg) /\ WireOf(msg) = w

(* While the recipients of a COSE_Mac message are not valid nothing gets   *)
(* through: preparing, storing a tag and computing one fail and leave the  *)
(* message as it was, and it does not encode.                              *)
BadRecipientsBlock ==
  ~ RecipientsOk(msg) =>
    /\ ~ CanEncode(msg)
    /\ \A c \in Macer, aad \in Aad :
         \A r \in {PrepareEmbedded(msg, c.alg, c.kid),
                   PrepareDetached(msg, c.alg, c.kid),
                   ComputeEmbedded(msg, c, aad, TRUE)}
                    \cup {ComputeDetached(msg, c, p, aad, TRUE) : p \in Payload}
                    \cup {SetTagOf(msg, tag) : tag \in Answers} : r = Err(msg)

(* The message implements the promise of an authenticated layer: its bytes *)
(* are frozen while a tag over them is pending or stored, and a tag is     *)
(* stored only while the public header denotes them (mac.rs, set_tag).     *)
BytesDenote(raw, view) == DecodeProtected(raw) = view
BytesFresh(raw, view) == raw = EncodeProtected(view)
TagCovers(tag, raw) == tag # None /\ tag.over[2] = raw

Layer == INSTANCE AuthLayer WITH
  NoResult <- None, Start <- EmptyHeader, Denotes <- BytesDenote,
  Fresh <- BytesFresh, Covers <- TagCovers,
  view <- msg.protected, bytes <- msg.protected_raw,
  result <- msg.tag, phase <- msg.state

ImplementsAuthLayer == Layer!Spec
=============================================================================
