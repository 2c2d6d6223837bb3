---------------------------- MODULE SignMessage ----------------------------
(***************************************************************************)
(* The life of a COSE_Sign message object (src/src/sign.rs): a body and a  *)
(* public vector of signature slots, each slot a layer of its own.  Every  *)
(* signature covers the body's protected bytes and those of its own slot.  *)
(*                                                                         *)
(* Signatures are ideal, as in Sign1Message.  The slots are public: the    *)
(* application may push, drop and edit them, and store a signature in one  *)
(* slot alone, between any two calls on the message.                       *)
(***************************************************************************)
EXTENDS CoseHeader, FiniteSets

CONSTANTS
  Payload, Aad, Key,
  Signer,            \* records [key, alg, kid]
  Verifier,          \* records [key, alg, kid, understood]
  BodyEdit,          \* headers the application writes to the body buckets
  SlotEdit,          \* headers it writes to the buckets of a slot
  ForeignRaw,        \* protected byte strings of messages from elsewhere
  MaxSlots,          \* bound: signature slots of a message
  MaxRequests        \* bound: remote signing requests outstanding at once

ASSUME SignConstants ==
  /\ Signer \subseteq [key : Key, alg : Alg \cup {None}, kid : Kid \cup {None}]
  /\ Verifier \subseteq [key : Key, alg : Alg \cup {None},
                         kid : Kid \cup {None}, understood : SUBSET Label]
  /\ BodyEdit \cup SlotEdit \subseteq Header
  /\ ForeignRaw \subseteq ProtectedRaw
  /\ None \notin Payload
  /\ MaxSlots \in Nat \ {0} /\ MaxRequests \in Nat

VARIABLES
  msg,       \* the message object
  requests   \* Sig_structures handed to remote signers

vars == <<msg, requests>>

SigStructure ==
  {"Signature"} \X ProtectedRaw \X ProtectedRaw \X Aad \X Payload
Signature == [by : Key, over : SigStructure]
ASSUME NoneIsNoSignature == None \notin Signature
Slot == [protected : Header, unprotected : Header,
         signature : Signature \cup {None}, protected_raw : ProtectedRaw,
         state : State]

Message ==
  [protected : Header, unprotected : Header, payload : Payload \cup {None},
   signatures : Seq(Slot), protected_raw : ProtectedRaw, state : State]

(* Nonempty sequences of at most MaxSlots elements of S.                   *)
Row(S) == UNION {[1..n -> S] : n \in 1..MaxSlots}

ToBeSigned(bodyRaw, slotRaw, aad, payload) ==
  <<"Signature", bodyRaw, slotRaw, aad, payload>>
Sig(key, tbs) == [by |-> key, over |-> tbs]

-----------------------------------------------------------------------------
(* One signature slot.                                                     *)
NewSlot ==
  [protected |-> EmptyHeader, unprotected |-> EmptyHeader,
   signature |-> None, protected_raw |-> EncodeProtected(EmptyHeader),
   state |-> "New"]

WithAlgKid(alg, kid) ==
  [NewSlot EXCEPT
     !.protected = IF alg = None THEN @ ELSE With(@, "alg", alg),
     !.unprotected = IF kid = None THEN @ ELSE With(@, "kid", kid)]

SlotKid(slot) == IF slot.protected["kid"] # None
                 THEN slot.protected["kid"] ELSE slot.unprotected["kid"]

SetSlotSig(slot, sig) ==
  LET s == SyncProtectedRaw(slot)
  IN IF s.ok THEN Ok([s.msg EXCEPT !.signature = sig, !.state = "Complete"])
             ELSE s

PreparedSlot(slot) ==
  [slot EXCEPT !.protected_raw = EncodeProtected(slot.protected),
               !.state = "Prepared", !.signature = None]

-----------------------------------------------------------------------------
(* The message.                                                            *)
New(payload) ==
  [protected |-> EmptyHeader, unprotected |-> EmptyHeader,
   payload |-> payload, signatures |-> << >>,
   protected_raw |-> EncodeProtected(EmptyHeader), state |-> "New"]

(* prepare_signature_headers: nothing is committed unless every layer is   *)
(* valid.                                                                  *)
PrepareSignatureHeaders(m, slots) ==
  IF /\ slots # << >> /\ ValidateHeaderBuckets(m)
     /\ \A i \in DOMAIN slots : ValidateHeaderBuckets(slots[i])
  THEN Ok([m EXCEPT !.protected_raw = EncodeProtected(m.protected),
                    !.state = "Prepared",
                    !.signatures = [i \in DOMAIN slots |->
                                      PreparedSlot(slots[i])]])
  ELSE Err(m)

SignatureInputs(m, aad, payload) ==
  [i \in DOMAIN m.signatures |->
     ToBeSigned(m.protected_raw, m.signatures[i].protected_raw, aad, payload)]

(* prepare_signatures and prepare_detached_signatures                      *)
PrepareEmbedded(m, slots) ==
  LET p == PrepareSignatureHeaders(m, slots)
  IN [p EXCEPT !.ok = @ /\ m.payload # None]

PrepareDetached(m, slots) ==
  LET p == PrepareSignatureHeaders(m, slots)
  IN IF p.ok THEN Ok([p.msg EXCEPT !.payload = None]) ELSE p

\* Faulty variant: the body is marked complete before the slots are filled.
SetSigs_CompletesFirst(m, sigs) ==
  LET body == SyncProtectedRaw(m)
      slot == [i \in DOMAIN sigs |-> SetSlotSig(m.signatures[i], sigs[i])]
      Done(i) == \A j \in 1..i : slot[j].ok
  IN IF sigs = << >> \/ Len(sigs) # Len(m.signatures) THEN Err(m)
     ELSE IF ~ body.ok THEN body
     ELSE [ok |-> Done(Len(sigs)),
           msg |-> [body.msg EXCEPT
                      !.signatures = [i \in DOMAIN sigs |->
                         IF Done(i) THEN slot[i].msg ELSE m.signatures[i]],
                      !.state = "Complete"]]

\* Faulty variant: takes a row of another length and fills as many slots.
SetSigs_AnyNumber(m, sigs) ==
  LET body == SyncProtectedRaw(m)
      both == DOMAIN sigs \cap DOMAIN m.signatures
      slot == [i \in both |-> SetSlotSig(m.signatures[i], sigs[i])]
      Done(i) == \A j \in both : j <= i => slot[j].ok
  IN IF both = {} THEN Err(m)
     ELSE IF ~ body.ok THEN body
     ELSE [ok |-> Done(Len(sigs)),
           msg |-> [body.msg EXCEPT
                      !.signatures = [i \in DOMAIN @ |->
                         IF i \in both /\ Done(i) THEN slot[i].msg ELSE @[i]],
                      !.state = IF Done(Len(sigs)) THEN "Complete" ELSE @]]

(* set_signatures: the slots are filled in order and the first one that    *)
(* refuses its signature ends the call; those before it stay filled.       *)
SetSigs(m, sigs) ==
  LET body == SyncProtectedRaw(m)
      slot == [i \in DOMAIN sigs |-> SetSlotSig(m.signatures[i], sigs[i])]
      Done(i) == \A j \in 1..i : slot[j].ok
  IN IF sigs = << >> \/ Len(sigs) # Len(m.signatures) THEN Err(m)
     ELSE IF ~ body.ok THEN body
     ELSE [ok |-> Done(Len(sigs)),
           msg |-> [body.msg EXCEPT
                      !.signatures = [i \in DOMAIN sigs |->
                         IF Done(i) THEN slot[i].msg ELSE m.signatures[i]],
                      !.state = IF Done(Len(sigs)) THEN "Complete" ELSE @]]

\* Faulty variant: each signature is stored as soon as its signer returns.
SignWithPayload_Incremental(m, signers, aad, payload, available) ==
  LET p == PrepareSignatureHeaders(m,
             [i \in DOMAIN signers |->
                WithAlgKid(signers[i].alg, signers[i].kid)])
      bytes == IF payload = None THEN m.payload ELSE payload
      tbs == SignatureInputs(p.msg, aad, bytes)
      Reached(i) == \A j \in 1..i : signers[j] \in available
  IN IF ~ p.ok THEN p
     ELSE IF bytes = None THEN Err(p.msg)
     ELSE [ok |-> Reached(Len(signers)),
           msg |-> [p.msg EXCEPT !.state = "Complete",
              !.signatures = [i \in DOMAIN signers |->
                 IF Reached(i)
                 THEN [@[i] EXCEPT !.signature = Sig(signers[i].key, tbs[i]),
                                   !.state = "Complete"]
                 ELSE @[i]]]]

(* sign_with_payload: "available" are the signers whose sign returns Ok;   *)
(* one that fails leaves every slot prepared and empty.                    *)
SignWithPayload(m, signers, aad, payload, available) ==
  LET p == PrepareSignatureHeaders(m,
             [i \in DOMAIN signers |->
                WithAlgKid(signers[i].alg, signers[i].kid)])
      bytes == IF payload = None THEN m.payload ELSE payload
      tbs == SignatureInputs(p.msg, aad, bytes)
  IN IF ~ p.ok THEN p
     ELSE IF bytes = None \/ ~ (Elements(signers) \subseteq available)
          THEN Err(p.msg)
     ELSE Ok([p.msg EXCEPT !.state = "Complete",
                !.signatures = [i \in DOMAIN signers |->
                   [@[i] EXCEPT !.signature = Sig(signers[i].key, tbs[i]),
                                !.state = "Complete"]]])

SignDetached(m, signers, aad, payload, available) ==
  LET r == SignWithPayload(m, signers, aad, payload, available)
  IN IF r.ok THEN Ok([r.msg EXCEPT !.payload = None]) ELSE r

-----------------------------------------------------------------------------
(* The wire array.  Only the body's state is asked for, not the slots'.    *)
WireOf(m) ==
  [protected |-> m.protected_raw, unprotected |-> m.unprotected,
   payload |-> m.payload,
   signatures |-> [i \in DOMAIN m.signatures |->
     [protected |-> m.signatures[i].protected_raw,
      unprotected |-> m.signatures[i].unprotected,
      signature |-> m.signatures[i].signature]]]

CanEncode(m) ==
  /\ m.state = "Complete" /\ m.signatures # << >>
  /\ ValidateLayer(m)
  /\ \A i \in DOMAIN m.signatures : ValidateLayer(m.signatures[i])

DecodedSlot(w) ==
  [protected |-> DecodeProtected(w.protected), unprotected |-> w.unprotected,
   signature |-> w.signature, protected_raw |-> w.protected,
   state |-> "Complete"]

Decoded(w) ==
  [protected |-> DecodeProtected(w.protected), unprotected |-> w.unprotected,
   payload |-> w.payload,
   signatures |-> [i \in DOMAIN w.signatures |->
                     DecodedSlot(w.signatures[i])],
   protected_raw |-> w.protected, state |-> "Complete"]

CanDecode(w) ==
  /\ w.signatures # << >>
  /\ Decodable(w.protected) /\ ValidateHeaderBuckets(Decoded(w))
  /\ \A i \in DOMAIN w.signatures :
       /\ Decodable(w.signatures[i].protected)
       /\ ValidateHeaderBuckets(DecodedSlot(w.signatures[i]))

-----------------------------------------------------------------------------
(* A verifier is a candidate for a slot unless both state a key identifier *)
(* and the two differ; the ranking only decides who is asked first.        *)
Candidates(slot, verifiers) ==
  {v \in verifiers : KidMatchRank(SlotKid(slot), v.kid) # None}

\* Faulty variant: critical labels are checked on the slot alone.
SlotVerifiedBy_SlotCritOnly(m, slot, v, aad, payload) ==
  /\ EnsureCritUnderstood(slot.protected, v.understood)
  /\ CheckProtectedAlg(slot, v.alg)
  /\ slot.signature = Sig(v.key, ToBeSigned(m.protected_raw,
                                     slot.protected_raw, aad, payload))

SlotVerifiedBy(m, slot, v, aad, payload) ==
  /\ EnsureCritUnderstood(m.protected, v.understood)
  /\ EnsureCritUnderstood(slot.protected, v.understood)
  /\ CheckProtectedAlg(slot, v.alg)
  /\ slot.signature = Sig(v.key, ToBeSigned(m.protected_raw,
                                     slot.protected_raw, aad, payload))

VerifyPayload(m, verifiers, aad, payload) ==
  /\ m.state = "Complete"
  /\ verifiers # {} /\ m.signatures # << >>
  /\ ValidateLayer(m)
  /\ \A i \in DOMAIN m.signatures :
       /\ ValidateLayer(m.signatures[i])
       /\ \E v \in Candidates(m.signatures[i], verifiers) :
            SlotVerifiedBy(m, m.signatures[i], v, aad, payload)

Verify(m, verifiers, aad) ==
  m.payload # None /\ VerifyPayload(m, verifiers, aad, m.payload)
VerifyDetached(m, verifiers, payload, aad) ==
  m.payload = None /\ VerifyPayload(m, verifiers, aad, payload)

VerifyAndDecode(w, verifiers, aad) ==
  CanDecode(w) /\ Verify(Decoded(w), verifiers, aad)
VerifyDetachedAndDecode(w, verifiers, payload, aad) ==
  CanDecode(w) /\ VerifyDetached(Decoded(w), verifiers, payload, aad)

-----------------------------------------------------------------------------
(* Actions.                                                                *)
Init == (\E p \in Payload : msg = New(p)) /\ requests = {}

EditBody ==
  /\ \/ \E h \in BodyEdit : msg' = [msg EXCEPT !.protected = h]
     \/ \E h \in BodyEdit : msg' = [msg EXCEPT !.unprotected = h]
     \/ \E p \in Payload \cup {None} : msg' = [msg EXCEPT !.payload = p]
  /\ UNCHANGED requests

EditSlot ==
  /\ \E i \in DOMAIN msg.signatures, h \in SlotEdit :
       \/ msg' = [msg EXCEPT !.signatures[i].protected = h]
       \/ msg' = [msg EXCEPT !.signatures[i].unprotected = h]
  /\ UNCHANGED requests

PushSlot ==
  /\ Len(msg.signatures) < MaxSlots
  /\ \E s \in {NewSlot} \cup {WithAlgKid(x.alg, x.kid) : x \in Signer} :
       msg' = [msg EXCEPT !.signatures = Append(@, s)]
  /\ UNCHANGED requests

DropSlot ==
  /\ msg.signatures # << >>
  /\ msg' = [msg EXCEPT !.signatures = Tail(@)]
  /\ UNCHANGED requests

(* Every slot's structure is sent to the remote signer of its key.         *)
Ask(keys, tbs) ==
  /\ requests' = requests \cup
       {[key |-> keys[i], tbs |-> tbs[i]] : i \in DOMAIN tbs}
  /\ Cardinality(requests') <= MaxRequests

(* The caller builds new slots, or hands back those of the message.        *)
SlotRows ==
  {[i \in DOMAIN ss |-> WithAlgKid(ss[i].alg, ss[i].kid)] : ss \in Row(Signer)}
    \cup {msg.signatures}

PrepareSignatures ==
  /\ MaxRequests > 0
  /\ \E slots \in SlotRows, aad \in Aad :
       LET p == PrepareEmbedded(msg, slots)
       IN /\ msg' = p.msg
          /\ IF p.ok
             THEN \E keys \in [DOMAIN slots -> Key] :
                    Ask(keys, SignatureInputs(p.msg, aad, p.msg.payload))
             ELSE UNCHANGED requests

PrepareDetachedSignatures ==
  /\ MaxRequests > 0
  /\ \E slots \in SlotRows, aad \in Aad, payload \in Payload :
       LET p == PrepareDetached(msg, slots)
       IN /\ msg' = p.msg
          /\ IF p.ok
             THEN \E keys \in [DOMAIN slots -> Key] :
                    Ask(keys, SignatureInputs(p.msg, aad, payload))
             ELSE UNCHANGED requests

Answers == {Sig(r.key, r.tbs) : r \in requests} \cup {None}

SetSignatures ==
  /\ MaxRequests > 0
  /\ \E sigs \in Row(Answers) : msg' = SetSigs(msg, sigs).msg
  /\ UNCHANGED requests

(* Signature::set_signature on one public slot.                            *)
SetSlotSignature ==
  /\ MaxRequests > 0
  /\ \E i \in DOMAIN msg.signatures, sig \in Answers :
       msg' = [msg EXCEPT !.signatures[i] = SetSlotSig(@, sig).msg]
  /\ UNCHANGED requests

LoseRequest ==
  /\ \E r \in requests : requests' = requests \ {r}
  /\ UNCHANGED msg

Sign ==
  /\ \E signers \in Row(Signer), aad \in Aad, up \in SUBSET Signer :
       msg' = SignWithPayload(msg, signers, aad, None, up).msg
  /\ UNCHANGED requests

SignDetachedPayload ==
  /\ \E signers \in Row(Signer), aad \in Aad, p \in Payload,
        up \in SUBSET Signer :
       msg' = SignDetached(msg, signers, aad, p, up).msg
  /\ UNCHANGED requests

(* Messages of one signature made elsewhere, over bytes this crate would   *)
(* not have chosen.                                                        *)
ForeignWire ==
  {[protected |-> body, unprotected |-> EmptyHeader, payload |-> p,
    signatures |-> <<[protected |-> own, unprotected |-> EmptyHeader,
      signature |-> Sig(s.key, ToBeSigned(body, own, aad, p))]>>] :
      body \in ForeignRaw, own \in ForeignRaw, p \in Payload,
      s \in Signer, aad \in Aad}

Wires == ForeignWire \cup (IF CanEncode(msg) THEN {WireOf(msg)} ELSE {})

FromSlice ==
  /\ \E w \in Wires : CanDecode(w) /\ msg' = Decoded(w)
  /\ UNCHANGED requests

Next ==
  \/ EditBody \/ EditSlot \/ PushSlot \/ DropSlot
  \/ PrepareSignatures \/ PrepareDetachedSignatures
  \/ SetSignatures \/ SetSlotSignature \/ LoseRequest
  \/ Sign \/ SignDetachedPayload \/ FromSlice

Spec == Init /\ [][Next]_vars

-----------------------------------------------------------------------------
(* Type correctness of the message, its slots and the requests.            *)
TypeOK ==
  /\ msg \in Message /\ Len(msg.signatures) <= MaxSlots
  /\ requests \subseteq [key : Key, tbs : SigStructure]

(* What a verify or verify_detached that returns Ok vouches for: there is  *)
(* a signature, and every one was made by the key of a verifier that was   *)
(* passed and is a candidate for the slot, over the body header and the    *)
(* slot header as the caller sees them, this payload and this aad, with    *)
(* every critical label of both headers understood by that same verifier.  *)
EverySlotSigned(m, verifiers, aad, payload) ==
  /\ m.signatures # << >>
  /\ \A i \in DOMAIN m.signatures :
       LET slot == m.signatures[i]
           tbs == slot.signature.over
       IN /\ slot.signature # None
          /\ DecodeProtected(tbs[2]) = m.protected
          /\ DecodeProtected(tbs[3]) = slot.protected
          /\ tbs[4] = aad /\ tbs[5] = payload
          /\ \E v \in verifiers :
               /\ v.key = slot.signature.by
               /\ None \in {v.kid, SlotKid(slot)} \/ v.kid = SlotKid(slot)
               /\ EnsureCritUnderstood(m.protected, v.understood)
               /\ EnsureCritUnderstood(slot.protected, v.understood)

AcceptedMeansEverySlotSigned ==
  \A vs \in SUBSET Verifier, aad \in Aad :
    /\ Verify(msg, vs, aad) => EverySlotSigned(msg, vs, aad, msg.payload)
    /\ \A p \in Payload :
         VerifyDetached(msg, vs, p, aad) => EverySlotSigned(msg, vs, aad, p)

(* sign and sign_detached are all or nothing: when one of several signers  *)
(* fails, or the headers or payload are refused, either the message is     *)
(* untouched or it is back to prepared with no signature in any slot.      *)
AllOrNothing(r) ==
  r.ok \/ r.msg = msg
       \/ /\ r.msg.state = "Prepared"
          /\ \A i \in DOMAIN r.msg.signatures :
               r.msg.signatures[i].signature = None
FailedSignLeavesNoSignature ==
  \A signers \in Row(Signer), aad \in Aad, up \in SUBSET Signer :
    /\ AllOrNothing(SignWithPayload(msg, signers, aad, None, up))
    /\ \A p \in Payload : AllOrNothing(SignDetached(msg, signers, aad, p, up))

(* A message whose preparation awaits its answers, edited or not meanwhile *)
(* but with headers that are still those of the bytes.  Some slots may be  *)
(* filled by hand (Signature::set_signature), with answers of this round   *)
(* or of another.                                                          *)
RoundOpen(m) ==
  /\ m.state = "Prepared" /\ m.signatures # << >> /\ ValidateLayer(m)
  /\ \A i \in DOMAIN m.signatures :
       m.signatures[i].state # "New" /\ ValidateLayer(m.signatures[i])

EmptySlots(m) == \A i \in DOMAIN m.signatures : m.signatures[i].signature = None
Emptied(m) ==
  [m EXCEPT !.signatures =
     [i \in DOMAIN @ |-> [@[i] EXCEPT !.signature = None, !.state = "Prepared"]]]

(* The answers to this round, and verifiers who accept them.               *)
AnswersTo(m, keys, aad, payload) ==
  [i \in DOMAIN m.signatures |->
     Sig(keys[i], SignatureInputs(m, aad, payload)[i])]
Holders(keys) ==
  {[key |-> keys[i], alg |-> None, kid |-> None, understood |-> Label] :
     i \in DOMAIN keys}
Understood(m) ==
  /\ EnsureCritUnderstood(m.protected, Label)
  /\ \A i \in DOMAIN m.signatures :
       EnsureCritUnderstood(m.signatures[i].protected, Label)

RoundCompletes(m, keys, aad, p) ==
  LET bytes == IF m.payload = None THEN p ELSE m.payload
      answers == AnswersTo(m, keys, aad, bytes)
      done == SetSigs(m, answers)
      wire == WireOf(done.msg)
  IN /\ done.ok /\ done = SetSigs(Emptied(m), answers)
     /\ CanEncode(done.msg) /\ CanDecode(wire)
     /\ Understood(m) =>
          IF m.payload = None
          THEN VerifyDetachedAndDecode(wire, Holders(keys), p, aad)
          ELSE VerifyAndDecode(wire, Holders(keys), aad)
     /\ \A n \in 0 .. Len(answers) - 1 :
          ~ CanEncode(SetSigs(m, SubSeq(answers, 1, n)).msg)

(* One round of external signing does not leak into the next.  Whatever    *)
(* the message went through before, and whether its slots are new or       *)
(* handed back half filled, a preparation opens a round with empty slots.  *)
(* While a round is open, answers of earlier rounds may sit in some slots  *)
(* or in all: nothing encodes before every slot has its answer in one      *)
(* call, and the message these complete is the same as without the others  *)
(* and verifies (sign.rs, prepare_signatures, set_signatures).             *)
SigningRoundsStayApart ==
  /\ \A slots \in SlotRows :
       \A r \in {PrepareEmbedded(msg, slots), PrepareDetached(msg, slots)} :
         r.ok => RoundOpen(r.msg) /\ EmptySlots(r.msg)
  /\ RoundOpen(msg) =>
       \A keys \in [DOMAIN msg.signatures -> Key], aad \in Aad, p \in Payload :
         RoundCompletes(msg, keys, aad, p)

(* Whatever sign and sign_detached return encodes, decodes and verifies    *)
(* for verifiers with the signers' keys who understand the body's header;  *)
(* nobody understands one with a critical countersignature that is none.   *)
SignThenVerify ==
  \A signers \in Row(Signer), aad \in Aad :
    LET all == {[key |-> s.key, alg |-> s.alg, kid |-> s.kid,
                 understood |-> Label] : s \in Elements(signers)}
        Opens(r, way) ==
          r.ok => /\ CanEncode(r.msg) /\ CanDecode(WireOf(r.msg))
                  /\ EnsureCritUnderstood(r.msg.protected, Label) => way
        whole == SignWithPayload(msg, signers, aad, None, Signer)
    IN /\ Opens(whole, VerifyAndDecode(WireOf(whole.msg), all, aad))
       /\ \A p \in Payload :
            LET apart == SignDetached(msg, signers, aad, p, Signer)
            IN Opens(apart, VerifyDetachedAndDecode(WireOf(apart.msg), all, p, aad))

(* The headers as they were when the stored bytes were computed.           *)
Repaired(m) ==
  [m EXCEPT
     !.protected = DecodeProtected(m.protected_raw),
     !.unprotected = EmptyHeader,
     !.signatures = [i \in DOMAIN m.signatures |->
        [m.signatures[i] EXCEPT
           !.protected = DecodeProtected(m.signatures[i].protected_raw),
           !.unprotected = EmptyHeader]]]

(* set_signatures may stop half way when a header was edited meanwhile.    *)
(* The signatures it has stored by then are not released: what it leaves   *)
(* neither encodes nor verifies, unless it changed nothing.  Once the      *)
(* caller puts the headers back, repeating the call gives the message that *)
(* it would have given without the failure.                                *)
NotReleased(m) ==
  /\ ~ CanEncode(m)
  /\ \A aad \in Aad, p \in Payload : ~ VerifyPayload(m, Verifier, aad, p)
FailedSetSignaturesCanBeRetried ==
  \A sigs \in Row(Answers) :
    LET r == SetSigs(msg, sigs)
    IN ~ r.ok =>
         \/ r.msg = msg
         \/ /\ r.msg.state = msg.state /\ NotReleased(r.msg)
            /\ /\ msg.state # "New"
               /\ \A i \in DOMAIN sigs : msg.signatures[i].state # "New"
               => SetSigs(Repaired(r.msg), sigs) = SetSigs(Repaired(msg), sigs)

(* "SignMessage must be signed before encoding" (sign.rs:391) and "Encodes *)
(* a signed message" (sign.rs:373): every slot of a message that encodes   *)
(* has received a signature.                                               *)
EncodedSlotsAreSigned ==
  CanEncode(msg) =>
    \A i \in DOMAIN msg.signatures : msg.signatures[i].state = "Complete"
=============================================================================
