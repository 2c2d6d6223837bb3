----------------------------- MODULE SignProofs -----------------------------
(***************************************************************************)
(* Proofs about SignMessage, for every choice of its constants and any     *)
(* number of slots: type correctness, that verification covers every slot, *)
(* that signing is all or nothing, that what signs verifies, that a call   *)
(* that stopped half way releases nothing and can be repeated, and that    *)
(* rounds of external signing do not mix.                                  *)
(***************************************************************************)
EXTENDS SignMessage, HeaderProofs

-----------------------------------------------------------------------------
(* Sequences given by their members.                                       *)
LEMMA MembersMakeSeq ==
  ASSUME NEW S, NEW n \in Nat, NEW f \in [1..n -> S]
  PROVE  f \in Seq(S) /\ Len(f) = n /\ DOMAIN f = 1..n
OBVIOUS

LEMMA RowIsSeq ==
  ASSUME NEW S, NEW row \in Row(S)
  PROVE  row \in Seq(S) /\ Len(row) \in 1..MaxSlots
<1>1. PICK n \in 1..MaxSlots : row \in [1..n -> S]
  BY DEF Row
<1>2. n \in Nat
  BY <1>1, SignConstants
<1> QED
  BY <1>1, <1>2, MembersMakeSeq

(* Applying an operation of S to every member of a sequence.               *)
LEMMA MappedSeq ==
  ASSUME NEW S, NEW T, NEW s \in Seq(S), NEW f,
         f = [i \in DOMAIN s |-> f[i]],
         \A i \in DOMAIN s : f[i] \in T
  PROVE  f \in Seq(T) /\ Len(f) = Len(s) /\ DOMAIN f = DOMAIN s
<1>1. DOMAIN s = 1..Len(s) /\ Len(s) \in Nat
  OBVIOUS
<1>2. f \in [1..Len(s) -> T]
  BY <1>1
<1> QED
  BY <1>1, <1>2, MembersMakeSeq

-----------------------------------------------------------------------------
(* Slots.                                                                  *)

LEMMA SigType ==
  ASSUME NEW key \in Key, NEW tbs \in SigStructure
  PROVE  Sig(key, tbs) \in Signature /\ Sig(key, tbs) # None
BY NoneIsNoSignature DEF Sig, Signature

LEMMA ToBeSignedType ==
  ASSUME NEW body \in ProtectedRaw, NEW own \in ProtectedRaw, NEW aad \in Aad,
         NEW payload \in Payload
  PROVE  ToBeSigned(body, own, aad, payload) \in SigStructure
BY DEF ToBeSigned, SigStructure

LEMMA NewSlotType == NewSlot \in Slot
BY EmptyHeaderType, EncodeProtectedType DEF NewSlot, Slot, State

LEMMA WithAlgKidType ==
  ASSUME NEW s \in Signer
  PROVE  WithAlgKid(s.alg, s.kid) \in Slot
<1>1. s.alg \in Alg \cup {None} /\ s.kid \in Kid \cup {None}
  BY SignConstants
<1>2. PICK h \in Header, u \in Header :
        WithAlgKid(s.alg, s.kid)
          = [NewSlot EXCEPT !.protected = h, !.unprotected = u]
  <2>1. s.alg # None => With(EmptyHeader, "alg", s.alg) \in Header
    BY <1>1, EmptyHeaderType, HeaderUpdates, HeaderConstants
  <2>2. s.kid # None => With(EmptyHeader, "kid", s.kid) \in Header
    BY <1>1, EmptyHeaderType, HeaderUpdates, HeaderConstants
  <2>3. NewSlot.protected = EmptyHeader /\ NewSlot.unprotected = EmptyHeader
    BY DEF NewSlot
  <2> DEFINE h == IF s.alg = None THEN EmptyHeader
                  ELSE With(EmptyHeader, "alg", s.alg)
             u == IF s.kid = None THEN EmptyHeader
                  ELSE With(EmptyHeader, "kid", s.kid)
  <2>4. h \in Header /\ u \in Header
    BY <2>1, <2>2, EmptyHeaderType
  <2>5. WithAlgKid(s.alg, s.kid)
          = [NewSlot EXCEPT !.protected = h, !.unprotected = u]
    BY <2>3 DEF WithAlgKid
  <2> QED
    BY <2>4, <2>5
<1> QED
  BY <1>2, NewSlotType DEF Slot

LEMMA PreparedSlotType ==
  ASSUME NEW slot \in Slot
  PROVE  /\ PreparedSlot(slot) \in Slot
         /\ PreparedSlot(slot).signature = None
BY EncodeProtectedType DEF PreparedSlot, Slot, State

(* A stored signature keeps the types of its slot, as does a refusal.      *)
LEMMA SetSlotSigType ==
  ASSUME NEW slot \in Slot, NEW sig \in Signature \cup {None}
  PROVE  SetSlotSig(slot, sig).msg \in Slot
<1> DEFINE y == SyncProtectedRaw(slot)
<1>1. y.msg \in Slot
  <2>1. [slot EXCEPT !.protected_raw = EncodeProtected(slot.protected)]
          \in Slot
    BY EncodeProtectedType DEF Slot
  <2> QED
    BY <2>1 DEF SyncProtectedRaw, Ok, Err
<1>2. SetSlotSig(slot, sig).msg
        = IF y.ok THEN [y.msg EXCEPT !.signature = sig, !.state = "Complete"]
                  ELSE y.msg
  BY DEF SetSlotSig, Ok
<1> HIDE DEF y
<1>3. [y.msg EXCEPT !.signature = sig, !.state = "Complete"] \in Slot
  BY <1>1 DEF Slot, State
<1> QED
  BY <1>1, <1>2, <1>3

-----------------------------------------------------------------------------
(* The methods of the message.                                             *)

Fits(m) == m \in Message /\ Len(m.signatures) <= MaxSlots

LEMMA NewSlotsFit ==
  ASSUME NEW m, Fits(m), NEW row \in Seq(Slot), Len(row) <= MaxSlots
  PROVE  Fits([m EXCEPT !.signatures = row])
BY DEF Fits, Message

(* Writing one slot.                                                       *)
LEMMA ReplacedSlotFits ==
  ASSUME NEW m, Fits(m), NEW i \in DOMAIN m.signatures, NEW slot \in Slot
  PROVE  Fits([m EXCEPT !.signatures[i] = slot])
<1> DEFINE row == [m.signatures EXCEPT ![i] = slot]
<1>1. m.signatures \in Seq(Slot) /\ Len(m.signatures) <= MaxSlots
  BY DEF Fits, Message
<1>2. row \in Seq(Slot) /\ Len(row) = Len(m.signatures)
  BY <1>1
<1>3. [m EXCEPT !.signatures[i] = slot] = [m EXCEPT !.signatures = row]
  BY DEF Fits, Message
<1> HIDE DEF row
<1> QED
  BY <1>1, <1>2, <1>3, NewSlotsFit

LEMMA NewType ==
  ASSUME NEW payload \in Payload \cup {None}
  PROVE  Fits(New(payload))
<1>1. << >> \in Seq(Slot) /\ Len(<< >>) = 0
  OBVIOUS
<1> QED
  BY <1>1, EmptyHeaderType, EncodeProtectedType, SignConstants
  DEF New, Message, State, Fits

(* prepare_signature_headers commits all of its changes or none.           *)
LEMMA PrepareEffect ==
  ASSUME NEW m, Fits(m), NEW slots \in Seq(Slot), Len(slots) <= MaxSlots
  PROVE  LET p == PrepareSignatureHeaders(m, slots)
         IN /\ Fits(p.msg) /\ p.ok \in BOOLEAN
            /\ p.msg.payload = m.payload
            /\ ~ p.ok => p.msg = m
            /\ p.ok =>
                 /\ p.msg.state = "Prepared"
                 /\ DOMAIN p.msg.signatures = DOMAIN slots
                 /\ \A i \in DOMAIN slots :
                      p.msg.signatures[i].signature = None
<1> DEFINE row == [i \in DOMAIN slots |-> PreparedSlot(slots[i])]
           n == [m EXCEPT !.protected_raw = EncodeProtected(m.protected),
                          !.state = "Prepared", !.signatures = row]
           p == PrepareSignatureHeaders(m, slots)
<1>1. row \in Seq(Slot) /\ Len(row) = Len(slots) /\ DOMAIN row = DOMAIN slots
  <2>1. \A i \in DOMAIN slots : row[i] \in Slot
    BY PreparedSlotType
  <2>2. row = [i \in DOMAIN slots |-> row[i]]
    OBVIOUS
  <2> HIDE DEF row
  <2> QED
    BY <2>1, <2>2, MappedSeq
<1>2. \A i \in DOMAIN slots : row[i].signature = None
  BY PreparedSlotType
<1>3. p = Ok(n) \/ p = Err(m)
  BY DEF PrepareSignatureHeaders
<1> HIDE DEF row, p
<1>4. EncodeProtected(m.protected) \in ProtectedRaw
  BY EncodeProtectedType DEF Fits, Message
<1>5. Fits(n) /\ n.payload = m.payload /\ n.state = "Prepared"
      /\ n.signatures = row
  BY <1>1, <1>4 DEF Fits, Message, State
<1> HIDE DEF n
<1>6. CASE p = Ok(n)
  <2>1. p.ok = TRUE /\ p.msg = n
    BY <1>6 DEF Ok
  <2> QED
    BY <1>1, <1>2, <1>5, <2>1 DEF p
<1>7. CASE p = Err(m)
  <2>1. p.ok = FALSE /\ p.msg = m
    BY <1>7 DEF Err
  <2> QED
    BY <2>1 DEF p
<1> QED
  BY <1>3, <1>6, <1>7

(* prepare_signatures and prepare_detached_signatures keep the types.      *)
LEMMA PrepareEmbeddedEffect ==
  ASSUME NEW m, Fits(m), NEW slots \in Seq(Slot), Len(slots) <= MaxSlots
  PROVE  LET p == PrepareEmbedded(m, slots)
         IN /\ Fits(p.msg)
            /\ p.ok => /\ p.msg.payload \in Payload
                       /\ DOMAIN p.msg.signatures = DOMAIN slots
<1> DEFINE q == PrepareSignatureHeaders(m, slots)
<1>1. /\ Fits(q.msg) /\ q.ok \in BOOLEAN /\ q.msg.payload = m.payload
      /\ q.ok => DOMAIN q.msg.signatures = DOMAIN slots
  BY PrepareEffect
<1>2. q = [ok |-> q.ok, msg |-> q.msg]
  BY DEF PrepareSignatureHeaders, Ok, Err
<1>3. PrepareEmbedded(m, slots).msg = q.msg
      /\ PrepareEmbedded(m, slots).ok = (q.ok /\ m.payload # None)
  BY <1>2 DEF PrepareEmbedded
<1> HIDE DEF q
<1> QED
  BY <1>1, <1>3 DEF Fits, Message

LEMMA PrepareDetachedEffect ==
  ASSUME NEW m, Fits(m), NEW slots \in Seq(Slot), Len(slots) <= MaxSlots
  PROVE  LET p == PrepareDetached(m, slots)
         IN /\ Fits(p.msg)
            /\ p.ok => DOMAIN p.msg.signatures = DOMAIN slots
<1> DEFINE q == PrepareSignatureHeaders(m, slots)
           n == [q.msg EXCEPT !.payload = None]
<1>1. /\ Fits(q.msg) /\ q.ok \in BOOLEAN
      /\ q.ok => DOMAIN q.msg.signatures = DOMAIN slots
  BY PrepareEffect
<1>2. PrepareDetached(m, slots) = IF q.ok THEN Ok(n) ELSE q
  BY DEF PrepareDetached
<1> HIDE DEF q
<1>3. Fits(n) /\ n.signatures = q.msg.signatures
  BY <1>1 DEF Fits, Message
<1> HIDE DEF n
<1>4. Ok(n).ok = TRUE /\ Ok(n).msg = n
  BY DEF Ok
<1>5. CASE q.ok
  BY <1>1, <1>2, <1>3, <1>4, <1>5
<1>6. CASE ~ q.ok
  BY <1>1, <1>2, <1>6
<1> QED
  BY <1>5, <1>6

(* The structures to be signed of a well typed message.                    *)
LEMMA SignatureInputsType ==
  ASSUME NEW m \in Message, NEW aad \in Aad, NEW payload \in Payload
  PROVE  LET tbs == SignatureInputs(m, aad, payload)
         IN /\ DOMAIN tbs = DOMAIN m.signatures
            /\ \A i \in DOMAIN tbs : tbs[i] \in SigStructure
<1>1. \A i \in DOMAIN m.signatures :
        m.signatures[i].protected_raw \in ProtectedRaw
  <2>1. m.signatures \in Seq(Slot)
    BY DEF Message
  <2>2. \A i \in DOMAIN m.signatures : m.signatures[i] \in Slot
    BY <2>1
  <2> QED
    BY <2>2 DEF Slot
<1>2. m.protected_raw \in ProtectedRaw
  BY DEF Message
<1> QED
  BY <1>1, <1>2, ToBeSignedType DEF SignatureInputs

(* The rows of slots that a caller hands to a preparation.                 *)
LEMMA SlotRowsType ==
  ASSUME Fits(msg), NEW slots \in SlotRows
  PROVE  slots \in Seq(Slot) /\ Len(slots) <= MaxSlots
<1>1. CASE slots = msg.signatures
  BY <1>1 DEF Fits, Message
<1>2. ASSUME NEW ss \in Row(Signer),
             slots = [i \in DOMAIN ss |-> WithAlgKid(ss[i].alg, ss[i].kid)]
      PROVE  slots \in Seq(Slot) /\ Len(slots) <= MaxSlots
  <2>1. ss \in Seq(Signer) /\ Len(ss) \in 1..MaxSlots
    BY RowIsSeq
  <2>2. \A i \in DOMAIN ss : slots[i] \in Slot
    BY <1>2, <2>1, WithAlgKidType
  <2>3. slots = [i \in DOMAIN ss |-> slots[i]]
    BY <1>2
  <2>4. slots \in Seq(Slot) /\ Len(slots) = Len(ss)
    BY <2>1, <2>2, <2>3, MappedSeq
  <2> QED
    BY <2>1, <2>4, SignConstants
<1> QED
  BY <1>1, <1>2 DEF SlotRows

(* set_signatures keeps the types, wherever it stops.                      *)
LEMMA SetSigsType ==
  ASSUME NEW m, Fits(m), NEW sigs \in Row(Signature \cup {None})
  PROVE  Fits(SetSigs(m, sigs).msg)
<1> DEFINE body == SyncProtectedRaw(m)
           slot == [i \in DOMAIN sigs |-> SetSlotSig(m.signatures[i], sigs[i])]
           Done(i) == \A j \in 1..i : slot[j].ok
           row == [i \in DOMAIN sigs |->
                     IF Done(i) THEN slot[i].msg ELSE m.signatures[i]]
           final == IF Done(Len(sigs)) THEN "Complete" ELSE body.msg.state
           n == [body.msg EXCEPT !.signatures = row, !.state = final]
           r == SetSigs(m, sigs)
<1>1. sigs \in Seq(Signature \cup {None}) /\ DOMAIN sigs = 1..Len(sigs)
  BY RowIsSeq
<1>2. Fits(body.msg)
  <2>1. EncodeProtected(m.protected) \in ProtectedRaw
    BY EncodeProtectedType DEF Fits, Message
  <2>2. Fits([m EXCEPT !.protected_raw = EncodeProtected(m.protected)])
    BY <2>1 DEF Fits, Message
  <2> QED
    BY <2>2 DEF SyncProtectedRaw, Ok, Err
<1>3. \/ r.msg = m \/ r.msg = body.msg
      \/ r.msg = n /\ Len(sigs) = Len(m.signatures)
  BY DEF SetSigs, Err
<1>4. ASSUME Len(sigs) = Len(m.signatures)
      PROVE  row \in Seq(Slot) /\ Len(row) <= MaxSlots
  <2>1. DOMAIN sigs = DOMAIN m.signatures
    BY <1>1, <1>4 DEF Fits, Message
  <2>2. \A i \in DOMAIN sigs : m.signatures[i] \in Slot
    BY <2>1 DEF Fits, Message
  <2>3. \A i \in DOMAIN sigs : sigs[i] \in Signature \cup {None}
    BY <1>1
  <2>4. \A i \in DOMAIN sigs : slot[i].msg \in Slot
    BY <2>2, <2>3, SetSlotSigType
  <2>5. \A i \in DOMAIN sigs : row[i] \in Slot
    BY <2>2, <2>4
  <2>6. row = [i \in DOMAIN sigs |-> row[i]]
    OBVIOUS
  <2> HIDE DEF row
  <2>7. row \in Seq(Slot) /\ Len(row) = Len(sigs)
    BY <1>1, <2>5, <2>6, MappedSeq
  <2> QED
    BY <1>1, <1>4, <2>7, RowIsSeq DEF Fits
<1>5. final \in State
  BY <1>2 DEF Fits, Message, State
<1> HIDE DEF row, final, body
<1>6. Len(sigs) = Len(m.signatures) => Fits(n)
  BY <1>2, <1>4, <1>5 DEF Fits, Message
<1> QED
  BY <1>2, <1>3, <1>6

(* sign_with_payload either refuses and leaves the message as it was, or   *)
(* stops at a prepared message without signatures, or signs every slot.    *)
LEMMA SignEffect ==
  ASSUME NEW m, Fits(m), NEW signers \in Row(Signer), NEW aad \in Aad,
         NEW payload \in Payload \cup {None}, NEW available
  PROVE  LET r == SignWithPayload(m, signers, aad, payload, available)
         IN /\ Fits(r.msg) /\ r.ok \in BOOLEAN
            /\ \/ r.ok \/ r.msg = m
               \/ /\ r.msg.state = "Prepared"
                  /\ \A i \in DOMAIN r.msg.signatures :
                       r.msg.signatures[i].signature = None
<1> DEFINE slots == [i \in DOMAIN signers |->
                       WithAlgKid(signers[i].alg, signers[i].kid)]
           p == PrepareSignatureHeaders(m, slots)
           bytes == IF payload = None THEN m.payload ELSE payload
           tbs == SignatureInputs(p.msg, aad, bytes)
           row == [i \in DOMAIN signers |->
                     [p.msg.signatures[i] EXCEPT
                        !.signature = Sig(signers[i].key, tbs[i]),
                        !.state = "Complete"]]
           n == [p.msg EXCEPT !.state = "Complete", !.signatures = row]
           r == SignWithPayload(m, signers, aad, payload, available)
<1>1. /\ signers \in Seq(Signer) /\ Len(signers) <= MaxSlots
      /\ \A i \in DOMAIN signers : signers[i] \in Signer
  <2>1. signers \in Seq(Signer) /\ Len(signers) \in 1..MaxSlots
    BY RowIsSeq
  <2> QED
    BY <2>1, SignConstants
<1>2. /\ slots \in Seq(Slot) /\ Len(slots) <= MaxSlots
      /\ DOMAIN slots = DOMAIN signers
  <2>1. \A i \in DOMAIN signers : slots[i] \in Slot
    BY <1>1, WithAlgKidType
  <2>2. slots = [i \in DOMAIN signers |-> slots[i]]
    OBVIOUS
  <2> HIDE DEF slots
  <2> QED
    BY <1>1, <2>1, <2>2, MappedSeq
<1>3. r = IF ~ p.ok THEN p
          ELSE IF bytes = None \/ ~ (Elements(signers) \subseteq available)
               THEN Err(p.msg)
          ELSE Ok([p.msg EXCEPT !.state = "Complete",
                !.signatures = [i \in DOMAIN signers |->
                   [@[i] EXCEPT !.signature = Sig(signers[i].key, tbs[i]),
                                !.state = "Complete"]]])
  BY DEF SignWithPayload
<1> HIDE DEF slots
<1>4. /\ Fits(p.msg) /\ p.ok \in BOOLEAN
      /\ ~ p.ok => p.msg = m
      /\ p.ok => /\ p.msg.state = "Prepared"
                 /\ DOMAIN p.msg.signatures = DOMAIN signers
                 /\ \A i \in DOMAIN signers :
                      p.msg.signatures[i].signature = None
  BY <1>2, PrepareEffect
<1> HIDE DEF p, r
<1>5. CASE ~ p.ok
  BY <1>3, <1>4, <1>5 DEF r
<1>6. CASE p.ok /\ (bytes = None \/ ~ (Elements(signers) \subseteq available))
  <2>1. r.ok = FALSE /\ r.msg = p.msg
    BY <1>3, <1>6 DEF Err
  <2> QED
    BY <1>4, <1>6, <2>1 DEF r
<1>7. CASE /\ p.ok /\ bytes # None
           /\ Elements(signers) \subseteq available
  <2>1. r.ok = TRUE /\ r.msg = n
    <3>1. n = [p.msg EXCEPT !.state = "Complete",
                !.signatures = [i \in DOMAIN signers |->
                   [@[i] EXCEPT !.signature = Sig(signers[i].key, tbs[i]),
                                !.state = "Complete"]]]
      BY <1>4 DEF Fits, Message
    <3> QED
      BY <1>3, <1>7, <3>1 DEF Ok
  <2>2. bytes \in Payload
    BY <1>7 DEF Fits, Message
  <2>3. \A i \in DOMAIN signers : tbs[i] \in SigStructure
    BY <1>4, <1>7, <2>2, SignatureInputsType DEF Fits
  <2> HIDE DEF tbs, bytes
  <2>4. \A i \in DOMAIN signers : Sig(signers[i].key, tbs[i]) \in Signature
    BY <1>1, <2>3, SigType, SignConstants
  <2>5. \A i \in DOMAIN signers : p.msg.signatures[i] \in Slot
    BY <1>4, <1>7 DEF Fits, Message
  <2>6. \A i \in DOMAIN signers : row[i] \in Slot
    BY <2>4, <2>5 DEF Slot, State
  <2>7. row = [i \in DOMAIN signers |-> row[i]]
    OBVIOUS
  <2> HIDE DEF row
  <2>8. row \in Seq(Slot) /\ Len(row) = Len(signers)
    BY <1>1, <2>6, <2>7, MappedSeq
  <2>9. Fits(n)
    BY <1>1, <1>4, <2>8 DEF Fits, Message, State
  <2> HIDE DEF n
  <2> QED
    BY <2>1, <2>9 DEF r
<1> QED
  BY <1>4, <1>5, <1>6, <1>7

LEMMA SignDetachedType ==
  ASSUME NEW m, Fits(m), NEW signers \in Row(Signer), NEW aad \in Aad,
         NEW payload \in Payload, NEW available
  PROVE  Fits(SignDetached(m, signers, aad, payload, available).msg)
<1> DEFINE r == SignWithPayload(m, signers, aad, payload, available)
<1>1. Fits(r.msg) /\ r.ok \in BOOLEAN
  BY SignEffect
<1>2. SignDetached(m, signers, aad, payload, available).msg
        \in {r.msg, [r.msg EXCEPT !.payload = None]}
  BY DEF SignDetached, Ok
<1> HIDE DEF r
<1>3. Fits([r.msg EXCEPT !.payload = None])
  BY <1>1 DEF Fits, Message
<1> QED
  BY <1>1, <1>2, <1>3

-----------------------------------------------------------------------------
(* Messages from the wire.                                                 *)
LEMMA ForeignWireType ==
  ASSUME NEW w \in ForeignWire
  PROVE  Fits(Decoded(w))
<1>1. PICK body \in ForeignRaw, own \in ForeignRaw, p \in Payload,
           s \in Signer, aad \in Aad :
        w = [protected |-> body, unprotected |-> EmptyHeader, payload |-> p,
             signatures |-> <<[protected |-> own, unprotected |-> EmptyHeader,
               signature |-> Sig(s.key, ToBeSigned(body, own, aad, p))]>>]
  BY DEF ForeignWire
<1> DEFINE sig == Sig(s.key, ToBeSigned(body, own, aad, p))
           wire == [protected |-> own, unprotected |-> EmptyHeader,
                    signature |-> sig]
           slot == [protected |-> DecodeProtected(own),
                    unprotected |-> EmptyHeader, signature |-> sig,
                    protected_raw |-> own, state |-> "Complete"]
<1>2. body \in ProtectedRaw /\ own \in ProtectedRaw /\ s.key \in Key
  BY SignConstants
<1>3. sig \in Signature
  BY <1>2, ToBeSignedType, SigType
<1>4. DecodeProtected(body) \in Header /\ DecodeProtected(own) \in Header
  BY <1>2, DecodeProtectedType
<1> HIDE DEF sig
<1>5. slot \in Slot
  BY <1>2, <1>3, <1>4, EmptyHeaderType DEF Slot, State
<1>6. DecodedSlot(wire) = slot
  BY DEF DecodedSlot
<1>7. Decoded(w) = [protected |-> DecodeProtected(body),
                    unprotected |-> EmptyHeader, payload |-> p,
                    signatures |-> [i \in DOMAIN <<wire>> |->
                                      DecodedSlot(<<wire>>[i])],
                    protected_raw |-> body, state |-> "Complete"]
  BY <1>1 DEF Decoded, sig
<1> HIDE DEF wire, slot
<1>8. [i \in DOMAIN <<wire>> |-> DecodedSlot(<<wire>>[i])] = <<slot>>
  BY <1>6
<1>9. <<slot>> \in Seq(Slot) /\ Len(<<slot>>) = 1
  BY <1>5
<1> QED
  BY <1>2, <1>4, <1>7, <1>8, <1>9, EmptyHeaderType, SignConstants
  DEF Fits, Message, State

LEMMA OwnWireType ==
  ASSUME NEW m, Fits(m)
  PROVE  Fits(Decoded(WireOf(m)))
<1> DEFINE w == WireOf(m)
           row == [i \in DOMAIN m.signatures |->
                     DecodedSlot(w.signatures[i])]
<1>1. m.signatures \in Seq(Slot)
  BY DEF Fits, Message
<1>2. ASSUME NEW i \in DOMAIN m.signatures
      PROVE  row[i] \in Slot
  <2>1. m.signatures[i] \in Slot
    BY <1>1
  <2>2. DecodeProtected(m.signatures[i].protected_raw) \in Header
    BY <2>1, DecodeProtectedType DEF Slot
  <2>3. row[i] = [protected |->
                    DecodeProtected(m.signatures[i].protected_raw),
                  unprotected |-> m.signatures[i].unprotected,
                  signature |-> m.signatures[i].signature,
                  protected_raw |-> m.signatures[i].protected_raw,
                  state |-> "Complete"]
    BY DEF WireOf, DecodedSlot
  <2> HIDE DEF row
  <2> QED
    BY <2>1, <2>2, <2>3 DEF Slot, State
<1>3. row = [i \in DOMAIN m.signatures |-> row[i]]
  OBVIOUS
<1>4. Decoded(w) = [protected |-> DecodeProtected(m.protected_raw),
                    unprotected |-> m.unprotected, payload |-> m.payload,
                    signatures |-> row,
                    protected_raw |-> m.protected_raw, state |-> "Complete"]
  BY DEF Decoded, WireOf
<1> HIDE DEF w, row
<1>5. row \in Seq(Slot) /\ Len(row) = Len(m.signatures)
  BY <1>1, <1>2, <1>3, MappedSeq
<1>6. DecodeProtected(m.protected_raw) \in Header
  BY DecodeProtectedType DEF Fits, Message
<1> QED
  BY <1>4, <1>5, <1>6 DEF Fits, Message, State, w

-----------------------------------------------------------------------------
(* The message, its slots and the requests keep their types under every    *)
(* sequence of calls (sign.rs, struct SignMessage).                        *)
THEOREM TypeCorrect == Spec => []TypeOK
<1>1. Init => TypeOK
  BY NewType DEF Init, TypeOK, Fits
<1>2. TypeOK /\ [Next]_vars => TypeOK'
  <2> SUFFICES ASSUME TypeOK, [Next]_vars
               PROVE  TypeOK'
    OBVIOUS
  <2>1. Fits(msg) /\ requests \subseteq [key : Key, tbs : SigStructure]
    BY DEF TypeOK, Fits
  <2>2. SUFFICES /\ Fits(msg')
                 /\ requests' \subseteq [key : Key, tbs : SigStructure]
    BY DEF TypeOK, Fits
  <2>3. msg.signatures \in Seq(Slot) /\ Len(msg.signatures) <= MaxSlots
    BY <2>1 DEF Fits, Message
  <2>4. \A slots \in SlotRows : slots \in Seq(Slot) /\ Len(slots) <= MaxSlots
    BY <2>1, SlotRowsType
  <2>5. ASSUME NEW m \in Message, NEW aad \in Aad, NEW payload \in Payload,
               NEW slots, DOMAIN m.signatures = DOMAIN slots,
               NEW keys \in [DOMAIN slots -> Key],
               Ask(keys, SignatureInputs(m, aad, payload))
        PROVE  requests' \subseteq [key : Key, tbs : SigStructure]
    <3> DEFINE tbs == SignatureInputs(m, aad, payload)
    <3>1. /\ DOMAIN tbs = DOMAIN slots
          /\ \A i \in DOMAIN tbs : tbs[i] \in SigStructure
      BY <2>5, SignatureInputsType
    <3>2. requests' = requests \cup
            {[key |-> keys[i], tbs |-> tbs[i]] : i \in DOMAIN tbs}
      BY <2>5 DEF Ask
    <3> HIDE DEF tbs
    <3> QED
      BY <2>1, <3>1, <3>2
  <2>6. CASE EditBody
    BY <2>1, <2>6, SignConstants DEF EditBody, Fits, Message
  <2>7. CASE EditSlot
    <3>1. PICK i \in DOMAIN msg.signatures, slot \in Slot :
            msg' = [msg EXCEPT !.signatures[i] = slot]
      <4>1. PICK i \in DOMAIN msg.signatures, h \in SlotEdit :
              \/ msg' = [msg EXCEPT !.signatures[i].protected = h]
              \/ msg' = [msg EXCEPT !.signatures[i].unprotected = h]
        BY <2>7 DEF EditSlot
      <4>2. msg.signatures[i] \in Slot /\ h \in Header
        BY <2>3, SignConstants
      <4>3. /\ [msg.signatures[i] EXCEPT !.protected = h] \in Slot
            /\ [msg.signatures[i] EXCEPT !.unprotected = h] \in Slot
        BY <4>2 DEF Slot
      <4> QED
        BY <4>1, <4>3
    <3> QED
      BY <2>1, <2>7, <3>1, ReplacedSlotFits DEF EditSlot
  <2>8. CASE PushSlot
    <3>1. PICK s \in Slot : msg' = [msg EXCEPT !.signatures = Append(@, s)]
      BY <2>8, NewSlotType, WithAlgKidType DEF PushSlot
    <3>2. /\ Append(msg.signatures, s) \in Seq(Slot)
          /\ Len(Append(msg.signatures, s)) = Len(msg.signatures) + 1
          /\ Len(msg.signatures) \in Nat
      BY <2>3
    <3>3. Len(msg.signatures) < MaxSlots /\ MaxSlots \in Nat
      BY <2>8, SignConstants DEF PushSlot
    <3>4. Len(Append(msg.signatures, s)) <= MaxSlots
      BY <3>2, <3>3
    <3>5. msg' = [msg EXCEPT !.signatures = Append(msg.signatures, s)]
      BY <3>1
    <3> QED
      BY <2>1, <2>8, <3>2, <3>4, <3>5, NewSlotsFit DEF PushSlot
  <2>9. CASE DropSlot
    <3>1. /\ Tail(msg.signatures) \in Seq(Slot)
          /\ Len(Tail(msg.signatures)) <= MaxSlots
      <4>1. msg.signatures # << >>
        BY <2>9 DEF DropSlot
      <4>2. Len(Tail(msg.signatures)) = Len(msg.signatures) - 1
        BY <2>3, <4>1
      <4> QED
        BY <2>3, <4>1, <4>2, SignConstants
    <3> QED
      BY <2>1, <2>9, <3>1 DEF DropSlot, Fits, Message
  <2>10. CASE PrepareSignatures
    <3>1. PICK slots \in SlotRows, aad \in Aad :
            LET p == PrepareEmbedded(msg, slots)
            IN /\ msg' = p.msg
               /\ IF p.ok
                  THEN \E keys \in [DOMAIN slots -> Key] :
                         Ask(keys, SignatureInputs(p.msg, aad, p.msg.payload))
                  ELSE UNCHANGED requests
      BY <2>10 DEF PrepareSignatures
    <3> DEFINE p == PrepareEmbedded(msg, slots)
    <3>2. /\ Fits(p.msg)
          /\ p.ok => /\ p.msg.payload \in Payload
                     /\ DOMAIN p.msg.signatures = DOMAIN slots
      BY <2>1, <2>4, PrepareEmbeddedEffect
    <3> HIDE DEF p
    <3> QED
      BY <2>1, <2>5, <3>1, <3>2 DEF Fits, p
  <2>11. CASE PrepareDetachedSignatures
    <3>1. PICK slots \in SlotRows, aad \in Aad, payload \in Payload :
            LET p == PrepareDetached(msg, slots)
            IN /\ msg' = p.msg
               /\ IF p.ok
                  THEN \E keys \in [DOMAIN slots -> Key] :
                         Ask(keys, SignatureInputs(p.msg, aad, payload))
                  ELSE UNCHANGED requests
      BY <2>11 DEF PrepareDetachedSignatures
    <3> DEFINE p == PrepareDetached(msg, slots)
    <3>2. Fits(p.msg) /\ (p.ok => DOMAIN p.msg.signatures = DOMAIN slots)
      BY <2>1, <2>4, PrepareDetachedEffect
    <3> HIDE DEF p
    <3> QED
      BY <2>1, <2>5, <3>1, <3>2 DEF Fits, p
  <2>12. Answers \subseteq Signature \cup {None}
    BY <2>1 DEF Answers, Sig, Signature
  <2>13. CASE SetSignatures
    <3>1. PICK sigs \in Row(Answers) : msg' = SetSigs(msg, sigs).msg
      BY <2>13 DEF SetSignatures
    <3>2. sigs \in Row(Signature \cup {None})
      BY <2>12, <3>1 DEF Row
    <3> QED
      BY <2>1, <2>13, <3>1, <3>2, SetSigsType DEF SetSignatures
  <2>14. CASE SetSlotSignature
    <3>1. PICK i \in DOMAIN msg.signatures, sig \in Answers :
            msg' = [msg EXCEPT !.signatures[i] = SetSlotSig(@, sig).msg]
      BY <2>14 DEF SetSlotSignature
    <3>2. SetSlotSig(msg.signatures[i], sig).msg \in Slot
      BY <2>3, <2>12, SetSlotSigType
    <3>3. msg' = [msg EXCEPT !.signatures[i] =
                               SetSlotSig(msg.signatures[i], sig).msg]
      BY <3>1
    <3> QED
      BY <2>1, <2>14, <3>2, <3>3, ReplacedSlotFits DEF SetSlotSignature
  <2>15. CASE LoseRequest
    BY <2>1, <2>15 DEF LoseRequest
  <2>16. CASE Sign
    BY <2>1, <2>16, SignEffect DEF Sign
  <2>17. CASE SignDetachedPayload
    BY <2>1, <2>17, SignDetachedType DEF SignDetachedPayload
  <2>18. CASE FromSlice
    <3>1. PICK w \in Wires : msg' = Decoded(w)
      BY <2>18 DEF FromSlice
    <3>2. w \in ForeignWire \/ w = WireOf(msg)
      BY <3>1 DEF Wires
    <3> QED
      BY <2>1, <2>18, <3>1, <3>2, ForeignWireType, OwnWireType DEF FromSlice
  <2>19. CASE UNCHANGED vars
    BY <2>1, <2>19 DEF vars
  <2> QED
    BY <2>6, <2>7, <2>8, <2>9, <2>10, <2>11, <2>13, <2>14, <2>15, <2>16,
       <2>17, <2>18, <2>19 DEF Next
<1> QED
  BY <1>1, <1>2, PTL DEF Spec

(* A verification that succeeds covers every slot: each was signed by a    *)
(* verifier that was passed, over the headers the caller sees (sign.rs,    *)
(* verify_payload).                                                        *)
THEOREM AcceptanceCorrect == Spec => []AcceptedMeansEverySlotSigned
<1>1. ASSUME TypeOK, NEW vs \in SUBSET Verifier, NEW aad \in Aad,
             NEW payload \in Payload, VerifyPayload(msg, vs, aad, payload)
      PROVE  EverySlotSigned(msg, vs, aad, payload)
  <2>1. DecodeProtected(msg.protected_raw) = msg.protected
        /\ msg.protected_raw \in ProtectedRaw
    BY <1>1, ViewOfValidBytes DEF VerifyPayload, ValidateLayer, TypeOK, Message
  <2>2. ASSUME NEW i \in DOMAIN msg.signatures
        PROVE  LET slot == msg.signatures[i]
                   tbs == slot.signature.over
               IN /\ slot.signature # None
                  /\ DecodeProtected(tbs[2]) = msg.protected
                  /\ DecodeProtected(tbs[3]) = slot.protected
                  /\ tbs[4] = aad /\ tbs[5] = payload
                  /\ \E v \in vs :
                       /\ v.key = slot.signature.by
                       /\ None \in {v.kid, SlotKid(slot)}
                          \/ v.kid = SlotKid(slot)
                       /\ EnsureCritUnderstood(msg.protected, v.understood)
                       /\ EnsureCritUnderstood(slot.protected, v.understood)
    <3> DEFINE slot == msg.signatures[i]
               tbs == ToBeSigned(msg.protected_raw, slot.protected_raw, aad,
                                 payload)
    <3>1. msg.signatures \in Seq(Slot)
      BY <1>1 DEF TypeOK, Message
    <3>2. slot.protected_raw \in ProtectedRaw
      <4>1. slot \in Slot
        BY <3>1
      <4> QED
        BY <4>1 DEF Slot
    <3>3. ValidateLayer(slot)
      BY <1>1 DEF VerifyPayload
    <3>4. DecodeProtected(slot.protected_raw) = slot.protected
      BY <3>3, ViewOfValidBytes DEF ValidateLayer
    <3>5. PICK v \in Candidates(slot, vs) :
            SlotVerifiedBy(msg, slot, v, aad, payload)
      BY <1>1 DEF VerifyPayload
    <3> HIDE DEF slot
    <3>6. v \in vs /\ v \in Verifier
          /\ KidMatchRank(SlotKid(slot), v.kid) # None
      BY <3>5 DEF Candidates
    <3>7. None \in {v.kid, SlotKid(slot)} \/ v.kid = SlotKid(slot)
      BY <3>6 DEF KidMatchRank
    <3>8. slot.signature = Sig(v.key, tbs)
      BY <3>5 DEF SlotVerifiedBy
    <3>9. slot.signature # None
      BY <2>1, <3>2, <3>6, <3>8, ToBeSignedType, SigType, SignConstants
    <3>10. slot.signature.by = v.key /\ slot.signature.over = tbs
      BY <3>8 DEF Sig
    <3>11. /\ tbs[2] = msg.protected_raw /\ tbs[3] = slot.protected_raw
           /\ tbs[4] = aad /\ tbs[5] = payload
      BY DEF ToBeSigned
    <3>12. EnsureCritUnderstood(msg.protected, v.understood)
           /\ EnsureCritUnderstood(slot.protected, v.understood)
      BY <3>5 DEF SlotVerifiedBy
    <3> HIDE DEF tbs
    <3> QED
      BY <2>1, <3>4, <3>6, <3>7, <3>9, <3>10, <3>11, <3>12 DEF slot
  <2>3. msg.signatures # << >>
    BY <1>1 DEF VerifyPayload
  <2> QED
    BY <2>2, <2>3 DEF EverySlotSigned
<1>2. TypeOK => AcceptedMeansEverySlotSigned
  <2> SUFFICES ASSUME TypeOK, NEW vs \in SUBSET Verifier, NEW aad \in Aad
               PROVE  /\ Verify(msg, vs, aad) =>
                           EverySlotSigned(msg, vs, aad, msg.payload)
                      /\ \A p \in Payload : VerifyDetached(msg, vs, p, aad) =>
                           EverySlotSigned(msg, vs, aad, p)
    BY DEF AcceptedMeansEverySlotSigned
  <2>1. Verify(msg, vs, aad) => msg.payload \in Payload
    BY DEF Verify, TypeOK, Message
  <2> QED
    BY <1>1, <2>1 DEF Verify, VerifyDetached
<1> QED
  BY <1>2, TypeCorrect, PTL

(* A sign or sign_detached that fails leaves the message untouched or      *)
(* prepared without any signature (sign.rs, sign_with_payload).            *)
THEOREM FailureCorrect == Spec => []FailedSignLeavesNoSignature
<1>1. ASSUME TypeOK, NEW signers \in Row(Signer), NEW aad \in Aad,
             NEW up, NEW payload \in Payload \cup {None}
      PROVE  AllOrNothing(SignWithPayload(msg, signers, aad, payload, up))
  <2>1. Fits(msg)
    BY <1>1 DEF TypeOK, Fits
  <2> QED
    BY <2>1, SignEffect DEF AllOrNothing
<1>2. ASSUME TypeOK, NEW signers \in Row(Signer), NEW aad \in Aad,
             NEW up, NEW p \in Payload
      PROVE  AllOrNothing(SignDetached(msg, signers, aad, p, up))
  <2> DEFINE r == SignWithPayload(msg, signers, aad, p, up)
             d == SignDetached(msg, signers, aad, p, up)
  <2>1. AllOrNothing(r)
    BY <1>1, <1>2
  <2>2. d.ok \/ d = r
    BY DEF SignDetached, Ok
  <2> HIDE DEF d, r
  <2>3. AllOrNothing(d)
    BY <2>1, <2>2 DEF AllOrNothing
  <2> QED
    BY <2>3 DEF d
<1>3. TypeOK => FailedSignLeavesNoSignature
  BY <1>1, <1>2 DEF FailedSignLeavesNoSignature
<1> QED
  BY <1>3, TypeCorrect, PTL

-----------------------------------------------------------------------------
(* What sign leaves opens again.                                           *)

(* A message all of whose slots were signed by signers, each over the      *)
(* bytes of the body and its own.                                          *)
SignedBy(n, signers, aad, payload) ==
  /\ Fits(n) /\ n.state = "Complete"
  /\ n.protected_raw = EncodeProtected(n.protected)
  /\ ValidateHeaderBuckets(n)
  /\ DOMAIN n.signatures = DOMAIN signers
  /\ \A i \in DOMAIN signers :
       LET slot == n.signatures[i]
           own == WithAlgKid(signers[i].alg, signers[i].kid)
       IN /\ slot.protected = own.protected /\ slot.unprotected = own.unprotected
          /\ slot.protected_raw = EncodeProtected(slot.protected)
          /\ slot.state = "Complete"
          /\ ValidateHeaderBuckets(slot)
          /\ slot.signature = Sig(signers[i].key,
               ToBeSigned(n.protected_raw, slot.protected_raw, aad, payload))

(* sign_with_payload that returns Ok leaves such a message.                *)
LEMMA SignLeavesSigned ==
  ASSUME NEW m, Fits(m), NEW signers \in Row(Signer), NEW aad \in Aad,
         NEW payload \in Payload \cup {None}, NEW available,
         SignWithPayload(m, signers, aad, payload, available).ok
  PROVE  LET n == SignWithPayload(m, signers, aad, payload, available).msg
             bytes == IF payload = None THEN m.payload ELSE payload
         IN /\ SignedBy(n, signers, aad, bytes)
            /\ n.payload = m.payload /\ bytes \in Payload
<1> DEFINE slots == [i \in DOMAIN signers |->
                       WithAlgKid(signers[i].alg, signers[i].kid)]
           p == PrepareSignatureHeaders(m, slots)
           q == [m EXCEPT !.protected_raw = EncodeProtected(m.protected),
                          !.state = "Prepared",
                          !.signatures = [i \in DOMAIN slots |->
                                            PreparedSlot(slots[i])]]
           bytes == IF payload = None THEN m.payload ELSE payload
           tbs == SignatureInputs(p.msg, aad, bytes)
           n == [p.msg EXCEPT !.state = "Complete",
                  !.signatures = [i \in DOMAIN signers |->
                     [@[i] EXCEPT !.signature = Sig(signers[i].key, tbs[i]),
                                  !.state = "Complete"]]]
           r == SignWithPayload(m, signers, aad, payload, available)
<1>1. r = IF ~ p.ok THEN p
          ELSE IF bytes = None \/ ~ (Elements(signers) \subseteq available)
               THEN Err(p.msg) ELSE Ok(n)
  BY DEF SignWithPayload
<1>2. Err(p.msg).ok = FALSE /\ Ok(n).msg = n
  BY DEF Err, Ok
<1>3. r.ok /\ Fits(r.msg)
  BY SignEffect
<1> HIDE DEF r
<1>4. p.ok /\ bytes # None /\ r.msg = n
  <2> HIDE DEF p, n, bytes
  <2> QED
    BY <1>1, <1>2, <1>3
<1>5. p = IF /\ slots # << >> /\ ValidateHeaderBuckets(m)
             /\ \A i \in DOMAIN slots : ValidateHeaderBuckets(slots[i])
          THEN Ok(q) ELSE Err(m)
  BY DEF PrepareSignatureHeaders
<1>6. Err(m).ok = FALSE /\ Ok(q).msg = q
  BY DEF Err, Ok
<1>7. /\ p.msg = q /\ ValidateHeaderBuckets(m)
      /\ \A i \in DOMAIN slots : ValidateHeaderBuckets(slots[i])
  <2> HIDE DEF p, q, slots
  <2> QED
    BY <1>4, <1>5, <1>6
<1> HIDE DEF p
<1>8. /\ q.protected = m.protected /\ q.unprotected = m.unprotected
      /\ q.payload = m.payload
      /\ q.protected_raw = EncodeProtected(m.protected)
      /\ q.signatures = [i \in DOMAIN slots |-> PreparedSlot(slots[i])]
  BY DEF Fits, Message
<1>9. q = [q EXCEPT !.state = "Prepared"] /\ q \in
        [protected : {m.protected}, unprotected : {m.unprotected},
         payload : {m.payload}, signatures : {q.signatures},
         protected_raw : {EncodeProtected(m.protected)}, state : {"Prepared"}]
  BY DEF Fits, Message
<1> HIDE DEF q
<1>10. /\ n.protected = m.protected /\ n.unprotected = m.unprotected
       /\ n.payload = m.payload /\ n.state = "Complete"
       /\ n.protected_raw = EncodeProtected(m.protected)
       /\ n.signatures = [i \in DOMAIN signers |->
            [q.signatures[i] EXCEPT !.signature = Sig(signers[i].key, tbs[i]),
                                    !.state = "Complete"]]
  BY <1>7, <1>9
<1>11. tbs = [i \in DOMAIN q.signatures |->
               ToBeSigned(EncodeProtected(m.protected),
                          q.signatures[i].protected_raw, aad, bytes)]
  BY <1>7, <1>8 DEF SignatureInputs
<1> HIDE DEF n, tbs
<1>12. ASSUME NEW i \in DOMAIN signers
       PROVE  LET slot == n.signatures[i]
                  own == WithAlgKid(signers[i].alg, signers[i].kid)
              IN /\ slot.protected = own.protected
                 /\ slot.unprotected = own.unprotected
                 /\ slot.protected_raw = EncodeProtected(slot.protected)
                 /\ slot.state = "Complete"
                 /\ ValidateHeaderBuckets(slot)
                 /\ slot.signature = Sig(signers[i].key,
                      ToBeSigned(n.protected_raw, slot.protected_raw, aad, bytes))
  <2> DEFINE own == WithAlgKid(signers[i].alg, signers[i].kid)
             s == n.signatures[i]
  <2>1. signers \in Seq(Signer)
    BY RowIsSeq
  <2>2. own \in Slot
    BY <2>1, WithAlgKidType
  <2>3. slots[i] = own /\ i \in DOMAIN slots
    OBVIOUS
  <2>4. q.signatures[i] = PreparedSlot(own) /\ i \in DOMAIN q.signatures
    BY <1>8, <2>3
  <2>5. s = [PreparedSlot(own) EXCEPT !.signature = Sig(signers[i].key, tbs[i]),
                                      !.state = "Complete"]
    <3>1. s = [q.signatures[i] EXCEPT !.signature = Sig(signers[i].key, tbs[i]),
                                      !.state = "Complete"]
      BY <1>10
    <3> HIDE DEF s, own
    <3> QED
      BY <2>4, <3>1
  <2>6. ValidateHeaderBuckets(own)
    BY <1>7, <2>3
  <2>7. PreparedSlot(own).protected_raw = EncodeProtected(own.protected)
    BY <2>2 DEF PreparedSlot, Slot
  <2>8. tbs[i] = ToBeSigned(EncodeProtected(m.protected),
                            EncodeProtected(own.protected), aad, bytes)
    BY <1>11, <2>4, <2>7
  <2> HIDE DEF own, slots
  <2>9. /\ s.protected = own.protected /\ s.unprotected = own.unprotected
        /\ s.protected_raw = EncodeProtected(own.protected)
        /\ s.state = "Complete" /\ s.signature = Sig(signers[i].key, tbs[i])
    BY <2>2, <2>5 DEF PreparedSlot, Slot
  <2> HIDE DEF s
  <2>10. ValidateHeaderBuckets(s)
    BY <2>6, <2>9 DEF ValidateHeaderBuckets
  <2> QED
    BY <1>10, <2>8, <2>9, <2>10 DEF s, own
<1>13. ValidateHeaderBuckets(n)
  BY <1>7, <1>10 DEF ValidateHeaderBuckets
<1>14. DOMAIN n.signatures = DOMAIN signers
  BY <1>10
<1>15. bytes \in Payload
  BY <1>4 DEF Fits, Message
<1> QED
  BY <1>3, <1>4, <1>10, <1>12, <1>13, <1>14, <1>15 DEF SignedBy, r

(* The two headers a slot gets from the algorithm and key identifier of    *)
(* its signer (Signature::with_alg_kid).                                   *)
LEMMA OwnHeaders ==
  ASSUME NEW s \in Signer
  PROVE  LET own == WithAlgKid(s.alg, s.kid)
         IN /\ own.protected["alg"] = s.alg /\ own.protected["kid"] = None
            /\ own.unprotected["kid"] = s.kid
            /\ "crit" \notin Present(own.protected)
<1> DEFINE h == IF s.alg = None THEN EmptyHeader
                ELSE With(EmptyHeader, "alg", s.alg)
           u == IF s.kid = None THEN EmptyHeader
                ELSE With(EmptyHeader, "kid", s.kid)
           own == WithAlgKid(s.alg, s.kid)
<1>1. /\ EmptyHeader \in Header /\ \A l \in Label : EmptyHeader[l] = None
      /\ "alg" \in Label /\ "kid" \in Label
  BY EmptyHeaderType, HeaderConstants DEF EmptyHeader
<1>2. /\ h \in [Label -> HeaderValue \cup {None} \cup {s.alg}]
      /\ h["alg"] = s.alg
      /\ \A l \in Label \ {"alg"} : h[l] = None
  BY <1>1 DEF With, Header
<1>3. u["kid"] = s.kid
  BY <1>1 DEF With, Header
<1>4. own.protected = h /\ own.unprotected = u
  BY DEF WithAlgKid, NewSlot
<1> HIDE DEF h, u, own
<1>5. h["kid"] = None /\ "crit" \notin Present(h)
  BY <1>1, <1>2 DEF Present
<1> QED
  BY <1>2, <1>3, <1>4, <1>5 DEF own

(* A complete message whose layers are all valid and complete encodes and  *)
(* comes back from the wire as it is.                                      *)
LEMMA CompleteEncodes ==
  ASSUME NEW n, Fits(n), n.state = "Complete", n.signatures # << >>,
         ValidateLayer(n),
         \A i \in DOMAIN n.signatures :
           /\ n.signatures[i].state = "Complete"
           /\ ValidateLayer(n.signatures[i])
  PROVE  CanEncode(n) /\ CanDecode(WireOf(n)) /\ Decoded(WireOf(n)) = n
<1> DEFINE w == WireOf(n)
           row == n.signatures
<1>1. n \in Message /\ row \in Seq(Slot) /\ row # << >>
  BY DEF Fits, Message
<1>2. /\ ValidateHeaderBuckets(n) /\ ValidateCommon(n.protected)
      /\ n.protected_raw.hdr = n.protected
  BY ViewOfValidBytes DEF ValidateLayer, ValidateHeaderBuckets, DecodeProtected
<1>3. ASSUME NEW i \in DOMAIN row
      PROVE  /\ DecodedSlot(w.signatures[i]) = row[i]
             /\ Decodable(w.signatures[i].protected)
             /\ ValidateHeaderBuckets(row[i])
  <2> DEFINE s == row[i]
  <2>1. s \in Slot /\ s.state = "Complete" /\ ValidateLayer(s)
    BY <1>1
  <2>2. w.signatures[i] = [protected |-> s.protected_raw,
                           unprotected |-> s.unprotected,
                           signature |-> s.signature]
    BY DEF WireOf
  <2> HIDE DEF w, s
  <2>3. /\ ValidateHeaderBuckets(s) /\ ValidateCommon(s.protected)
        /\ s.protected_raw.hdr = s.protected
    BY <2>1, ViewOfValidBytes
    DEF ValidateLayer, ValidateHeaderBuckets, DecodeProtected
  <2>4. DecodedSlot(w.signatures[i])
          = [protected |-> s.protected, unprotected |-> s.unprotected,
             signature |-> s.signature,
             protected_raw |-> s.protected_raw, state |-> "Complete"]
    BY <2>2, <2>3 DEF DecodedSlot, DecodeProtected
  <2>5. DecodedSlot(w.signatures[i]) = s
    BY <2>1, <2>4 DEF Slot
  <2>6. Decodable(w.signatures[i].protected)
    BY <2>2, <2>3 DEF Decodable
  <2> QED
    BY <2>3, <2>5, <2>6 DEF s
<1>4. DOMAIN w.signatures = DOMAIN row /\ w.signatures # << >>
  BY <1>1 DEF WireOf
<1>5. Decoded(w) = n /\ Decodable(w.protected)
  <2>1. /\ w.protected = n.protected_raw /\ w.unprotected = n.unprotected
        /\ w.payload = n.payload
    BY DEF WireOf
  <2>2. [i \in DOMAIN w.signatures |-> DecodedSlot(w.signatures[i])]
          = [i \in DOMAIN row |-> row[i]]
    BY <1>3, <1>4
  <2>3. row = [i \in DOMAIN row |-> row[i]]
    BY <1>1
  <2> HIDE DEF w
  <2>4. Decoded(w) = [protected |-> n.protected, unprotected |-> n.unprotected,
                      payload |-> n.payload, signatures |-> row,
                      protected_raw |-> n.protected_raw, state |-> "Complete"]
    BY <1>2, <2>1, <2>2, <2>3 DEF Decoded, DecodeProtected
  <2>5. Decoded(w) = n
    BY <1>1, <2>4 DEF Message
  <2> QED
    BY <1>2, <2>1, <2>5 DEF Decodable
<1> HIDE DEF w
<1>6. CanDecode(w)
  BY <1>2, <1>3, <1>4, <1>5 DEF CanDecode
<1>7. CanEncode(n)
  BY DEF CanEncode
<1> QED
  BY <1>5, <1>6, <1>7 DEF w

(* A layer with valid buckets and the bytes of its header is valid.        *)
LEMMA EncodedLayerIsValid ==
  ASSUME NEW m, ValidateHeaderBuckets(m),
         m.protected_raw = EncodeProtected(m.protected)
  PROVE  ValidateLayer(m)
BY DEF ValidateLayer, ValidateHeaderBuckets, ValidateProtectedState, Encodable

(* What sign leaves is such a message.                                     *)
LEMMA SignedEncodes ==
  ASSUME NEW n, NEW signers \in Row(Signer), NEW aad, NEW payload,
         SignedBy(n, signers, aad, payload)
  PROVE  /\ CanEncode(n) /\ CanDecode(WireOf(n)) /\ Decoded(WireOf(n)) = n
         /\ n.signatures # << >> /\ ValidateLayer(n)
         /\ \A i \in DOMAIN n.signatures : ValidateLayer(n.signatures[i])
<1>1. n.signatures \in Seq(Slot) /\ Fits(n) /\ n.state = "Complete"
  BY DEF SignedBy, Fits, Message
<1>2. n.signatures # << >> /\ DOMAIN n.signatures = DOMAIN signers
  BY <1>1, RowIsSeq DEF SignedBy
<1>3. ValidateLayer(n)
  BY EncodedLayerIsValid DEF SignedBy
<1>4. \A i \in DOMAIN n.signatures :
        /\ n.signatures[i].state = "Complete"
        /\ ValidateLayer(n.signatures[i])
  BY <1>2, EncodedLayerIsValid DEF SignedBy
<1> QED
  BY <1>1, <1>2, <1>3, <1>4, CompleteEncodes

(* What the caller passes to verify such a message: verifiers with the     *)
(* signers' keys that understand every label.                              *)
VerifiersOf(signers) ==
  {[key |-> s.key, alg |-> s.alg, kid |-> s.kid,
    understood |-> Label] : s \in Elements(signers)}

(* They accept every slot when the body's critical labels are understood:  *)
(* the slot's own signer is always among its candidates.                   *)
LEMMA SignedVerifies ==
  ASSUME NEW n, NEW signers \in Row(Signer), NEW aad, NEW payload,
         SignedBy(n, signers, aad, payload),
         EnsureCritUnderstood(n.protected, Label)
  PROVE  VerifyPayload(n, VerifiersOf(signers), aad, payload)
<1> DEFINE all == VerifiersOf(signers)
<1>1. /\ n.signatures # << >> /\ ValidateLayer(n) /\ n.state = "Complete"
      /\ \A i \in DOMAIN n.signatures : ValidateLayer(n.signatures[i])
  BY SignedEncodes DEF CanEncode
<1>2. signers \in Seq(Signer) /\ DOMAIN n.signatures = DOMAIN signers
      /\ 1 \in DOMAIN signers
  BY RowIsSeq DEF SignedBy
<1>3. all # {}
  BY <1>2 DEF VerifiersOf, Elements
<1>4. ASSUME NEW i \in DOMAIN n.signatures
      PROVE  \E v \in Candidates(n.signatures[i], all) :
               SlotVerifiedBy(n, n.signatures[i], v, aad, payload)
  <2> DEFINE s == signers[i]
             v == [key |-> s.key, alg |-> s.alg, kid |-> s.kid,
                   understood |-> Label]
             slot == n.signatures[i]
             own == WithAlgKid(s.alg, s.kid)
  <2>1. s \in Signer /\ v \in all
    BY <1>2 DEF VerifiersOf, Elements
  <2>2. /\ slot.protected = own.protected /\ slot.unprotected = own.unprotected
        /\ ValidateHeaderBuckets(slot)
        /\ slot.signature = Sig(s.key,
             ToBeSigned(n.protected_raw, slot.protected_raw, aad, payload))
    BY <1>2 DEF SignedBy
  <2>3. /\ v.key = s.key /\ v.alg = s.alg /\ v.kid = s.kid
        /\ v.understood = Label
    OBVIOUS
  <2>4. /\ own.protected["alg"] = s.alg /\ own.protected["kid"] = None
        /\ own.unprotected["kid"] = s.kid
        /\ "crit" \notin Present(own.protected)
    BY <2>1, OwnHeaders
  <2> HIDE DEF s, v, slot, own, all
  <2>5. SlotKid(slot) = s.kid
    BY <2>2, <2>4 DEF SlotKid
  <2>6. KidMatchRank(s.kid, s.kid) # None
    BY HeaderConstants DEF KidMatchRank
  <2>7. v \in Candidates(slot, all)
    BY <2>1, <2>3, <2>5, <2>6 DEF Candidates
  <2>8. EnsureCritUnderstood(slot.protected, v.understood)
    BY <2>2, <2>4 DEF EnsureCritUnderstood, ValidateHeaderBuckets
  <2>9. CheckProtectedAlg(slot, v.alg)
    BY <2>2, <2>3, <2>4 DEF CheckProtectedAlg, DeclaredAlg
  <2>10. SlotVerifiedBy(n, slot, v, aad, payload)
    BY <2>2, <2>3, <2>8, <2>9 DEF SlotVerifiedBy
  <2> QED
    BY <2>7, <2>10 DEF slot
<1> QED
  BY <1>1, <1>3, <1>4 DEF VerifyPayload

(* Signing says nothing of the payload field, which sign_detached clears.  *)
LEMMA SignedWithoutPayload ==
  ASSUME NEW n, NEW signers \in Row(Signer), NEW aad, NEW payload,
         SignedBy(n, signers, aad, payload)
  PROVE  LET d == [n EXCEPT !.payload = None]
         IN SignedBy(d, signers, aad, payload) /\ d.payload = None
<1> DEFINE d == [n EXCEPT !.payload = None]
<1>1. /\ d.protected = n.protected /\ d.unprotected = n.unprotected
      /\ d.signatures = n.signatures /\ d.protected_raw = n.protected_raw
      /\ d.state = n.state /\ d.payload = None
      /\ Fits(d)
  BY DEF SignedBy, Fits, Message
<1> HIDE DEF d
<1>2. ValidateHeaderBuckets(n) => ValidateHeaderBuckets(d)
  BY <1>1 DEF ValidateHeaderBuckets
<1>3. SignedBy(d, signers, aad, payload)
  BY <1>1, <1>2 DEF SignedBy
<1> QED
  BY <1>1, <1>3 DEF d

(* What sign and sign_detached return encodes, comes back from the wire    *)
(* and verifies for the signers' keys, unless the body's header has a      *)
(* critical label nobody can understand (sign.rs, sign, sign_detached,     *)
(* verify_and_decode).                                                     *)
THEOREM SignThenVerifyCorrect == Spec => []SignThenVerify
<1>1. ASSUME TypeOK, NEW signers \in Row(Signer), NEW aad \in Aad,
             SignWithPayload(msg, signers, aad, None, Signer).ok
      PROVE  LET n == SignWithPayload(msg, signers, aad, None, Signer).msg
             IN /\ CanEncode(n) /\ CanDecode(WireOf(n))
                /\ EnsureCritUnderstood(n.protected, Label) =>
                     VerifyAndDecode(WireOf(n), VerifiersOf(signers), aad)
  <2> DEFINE n == SignWithPayload(msg, signers, aad, None, Signer).msg
  <2>1. Fits(msg)
    BY <1>1 DEF TypeOK, Fits
  <2>2. SignedBy(n, signers, aad, msg.payload) /\ n.payload = msg.payload
        /\ msg.payload \in Payload
    BY <1>1, <2>1, SignLeavesSigned
  <2> HIDE DEF n
  <2>3. CanEncode(n) /\ CanDecode(WireOf(n)) /\ Decoded(WireOf(n)) = n
    BY <2>2, SignedEncodes
  <2>4. EnsureCritUnderstood(n.protected, Label) =>
          VerifyPayload(n, VerifiersOf(signers), aad, n.payload)
    BY <2>2, SignedVerifies
  <2>5. n.payload # None
    BY <2>2, SignConstants
  <2> QED
    BY <2>3, <2>4, <2>5 DEF VerifyAndDecode, Verify, n
<1>2. ASSUME TypeOK, NEW signers \in Row(Signer), NEW aad \in Aad,
             NEW payload \in Payload,
             SignDetached(msg, signers, aad, payload, Signer).ok
      PROVE  LET n == SignDetached(msg, signers, aad, payload, Signer).msg
             IN /\ CanEncode(n) /\ CanDecode(WireOf(n))
                /\ EnsureCritUnderstood(n.protected, Label) =>
                     VerifyDetachedAndDecode(WireOf(n), VerifiersOf(signers),
                                             payload, aad)
  <2> DEFINE r == SignWithPayload(msg, signers, aad, payload, Signer)
             n == [r.msg EXCEPT !.payload = None]
             d == SignDetached(msg, signers, aad, payload, Signer)
  <2>1. Fits(msg)
    BY <1>2 DEF TypeOK, Fits
  <2>2. r.ok /\ d.msg = n
    <3>1. d = IF r.ok THEN [ok |-> TRUE, msg |-> n] ELSE r
      BY DEF SignDetached, Ok
    <3>2. d.ok
      BY <1>2
    <3> HIDE DEF d, r, n
    <3> QED
      BY <3>1, <3>2
  <2>3. payload # None
    BY SignConstants
  <2>4. SignedBy(r.msg, signers, aad, payload)
    BY <2>1, <2>2, <2>3, SignLeavesSigned
  <2> HIDE DEF r
  <2>5. SignedBy(n, signers, aad, payload) /\ n.payload = None
    BY <2>4, SignedWithoutPayload
  <2> HIDE DEF n, d
  <2>6. CanEncode(n) /\ CanDecode(WireOf(n)) /\ Decoded(WireOf(n)) = n
    BY <2>5, SignedEncodes
  <2>7. EnsureCritUnderstood(n.protected, Label) =>
          VerifyPayload(n, VerifiersOf(signers), aad, payload)
    BY <2>5, SignedVerifies
  <2>8. EnsureCritUnderstood(n.protected, Label) =>
          VerifyDetachedAndDecode(WireOf(n), VerifiersOf(signers), payload, aad)
    BY <2>5, <2>6, <2>7 DEF VerifyDetachedAndDecode, VerifyDetached
  <2> QED
    BY <2>2, <2>6, <2>8 DEF d
<1>3. TypeOK => SignThenVerify
  BY <1>1, <1>2 DEF SignThenVerify, VerifiersOf
<1> QED
  BY <1>3, TypeCorrect, PTL

-----------------------------------------------------------------------------
(* set_signatures that fails half way.                                     *)

(* The slots up to the i-th still have the headers their bytes were        *)
(* computed from; a slot with its signature stored.                        *)
Valid(m, i) == \A j \in 1..i : ValidateLayer(m.signatures[j])
Filled(slot, sig) == [slot EXCEPT !.signature = sig, !.state = "Complete"]

(* Putting the headers back makes a layer valid that already was.          *)
LEMMA RepairKeepsValid ==
  ASSUME NEW m, NEW n, ValidateLayer(m), m.protected_raw \in ProtectedRaw,
         n.protected = DecodeProtected(m.protected_raw),
         n.unprotected = EmptyHeader, n.protected_raw = m.protected_raw
  PROVE  ValidateLayer(n)
<1>1. ValidateCommon(m.protected_raw.hdr)
  BY DEF ValidateLayer, ValidateHeaderBuckets, ValidateProtectedState,
         Decodable, EncodeProtected
<1>2. EmptyHeader \in Header /\ ValidateCommon(EmptyHeader)
      /\ Present(EmptyHeader) = {}
  BY EmptyHeaderType DEF Present, EmptyHeader
<1>3. ValidateCommon(n.protected) /\ n.protected = n.protected_raw.hdr
  BY <1>1 DEF DecodeProtected
<1>4. ~ ({"iv", "piv"} \subseteq Present(n.protected))
  BY <1>3 DEF ValidateCommon
<1>5. ValidateHeaderBuckets(n)
  BY <1>2, <1>3, <1>4 DEF ValidateHeaderBuckets
<1> QED
  BY <1>3, <1>5 DEF ValidateLayer, ValidateProtectedState, Encodable, Decodable,
                    DecodeProtected

(* A prepared slot takes a signature exactly when it is valid.             *)
LEMMA SetSlotSigPrepared ==
  ASSUME NEW slot \in Slot, slot.state # "New", NEW sig
  PROVE  /\ SetSlotSig(slot, sig).ok <=> ValidateLayer(slot)
         /\ SetSlotSig(slot, sig).msg
              = IF ValidateLayer(slot) THEN Filled(slot, sig) ELSE slot
<1> DEFINE y == SyncProtectedRaw(slot)
           full == Filled(slot, sig)
<1>1. y = [ok |-> ValidateLayer(slot), msg |-> slot]
  BY DEF SyncProtectedRaw
<1>2. CASE ValidateLayer(slot)
  <2>1. y.ok /\ y.msg = slot
    BY <1>1, <1>2
  <2>2. SetSlotSig(slot, sig) = [ok |-> TRUE, msg |-> full]
    BY <2>1 DEF SetSlotSig, Ok, Filled
  <2> QED
    BY <1>2, <2>2
<1>3. CASE ~ ValidateLayer(slot)
  <2>1. ~ y.ok /\ y.msg = slot
    BY <1>1, <1>3
  <2>2. SetSlotSig(slot, sig) = y
    BY <2>1 DEF SetSlotSig
  <2>3. SetSlotSig(slot, sig).ok = FALSE
    BY <1>1, <1>3, <2>2
  <2> QED
    BY <1>3, <2>1, <2>2, <2>3
<1> QED
  BY <1>2, <1>3

(* set_signatures on a message whose layers were all prepared.             *)
LEMMA SetSigsPrepared ==
  ASSUME NEW m, Fits(m), m.state # "New", NEW sigs \in Seq(Signature \cup {None}),
         sigs # << >>, Len(sigs) = Len(m.signatures),
         \A i \in DOMAIN sigs : m.signatures[i].state # "New"
  PROVE  SetSigs(m, sigs) =
           IF ~ ValidateLayer(m) THEN [ok |-> FALSE, msg |-> m]
           ELSE [ok |-> Valid(m, Len(sigs)),
                 msg |-> [m EXCEPT
                   !.signatures = [i \in DOMAIN sigs |->
                      IF Valid(m, i) THEN Filled(m.signatures[i], sigs[i])
                                     ELSE m.signatures[i]],
                   !.state = IF Valid(m, Len(sigs)) THEN "Complete" ELSE @]]
<1> DEFINE body == SyncProtectedRaw(m)
           slot == [i \in DOMAIN sigs |-> SetSlotSig(m.signatures[i], sigs[i])]
           Done(i) == \A j \in 1..i : slot[j].ok
           row == [i \in DOMAIN sigs |->
                     IF Done(i) THEN slot[i].msg ELSE m.signatures[i]]
           valid == [i \in DOMAIN sigs |->
                       IF Valid(m, i) THEN Filled(m.signatures[i], sigs[i])
                                      ELSE m.signatures[i]]
<1>1. body = [ok |-> ValidateLayer(m), msg |-> m]
  BY DEF SyncProtectedRaw
<1>2. m.signatures \in Seq(Slot) /\ DOMAIN sigs = 1..Len(sigs)
      /\ DOMAIN m.signatures = DOMAIN sigs /\ Len(sigs) \in Nat
  BY DEF Fits, Message
<1>3. ASSUME NEW i \in DOMAIN sigs
      PROVE  /\ slot[i].ok <=> ValidateLayer(m.signatures[i])
             /\ slot[i].msg = IF ValidateLayer(m.signatures[i])
                              THEN Filled(m.signatures[i], sigs[i])
                              ELSE m.signatures[i]
  <2>1. m.signatures[i] \in Slot /\ m.signatures[i].state # "New"
    BY <1>2
  <2>2. slot[i] = SetSlotSig(m.signatures[i], sigs[i])
    OBVIOUS
  <2> HIDE DEF slot
  <2> QED
    BY <2>1, <2>2, SetSlotSigPrepared
<1> HIDE DEF slot
<1>4. ASSUME NEW i \in DOMAIN sigs
      PROVE  /\ \A j \in 1..i : j \in DOMAIN sigs
             /\ i \in 1..i
  BY <1>2
<1>5. ASSUME NEW i \in DOMAIN sigs
      PROVE  Done(i) = Valid(m, i)
  BY <1>3, <1>4 DEF Valid
<1>6. Len(sigs) \in DOMAIN sigs
  BY <1>2
<1>7. row = valid
  <2>1. ASSUME NEW i \in DOMAIN sigs
        PROVE  row[i] = valid[i]
    <3>1. Valid(m, i) => ValidateLayer(m.signatures[i])
      BY <1>4 DEF Valid
    <3> QED
      BY <1>3, <1>5, <3>1
  <2> QED
    BY <2>1
<1>8. SetSigs(m, sigs) =
        IF ~ body.ok THEN body
        ELSE [ok |-> Done(Len(sigs)),
              msg |-> [body.msg EXCEPT !.signatures = row,
                         !.state = IF Done(Len(sigs)) THEN "Complete" ELSE @]]
  BY DEF SetSigs, slot
<1> HIDE DEF body, row, valid, Done
<1>9. Done(Len(sigs)) = Valid(m, Len(sigs))
  BY <1>5, <1>6
<1>10. CASE ~ ValidateLayer(m)
  <2>1. ~ body.ok
    BY <1>1, <1>10
  <2>2. body = [ok |-> FALSE, msg |-> m]
    <3>1. ValidateLayer(m) = FALSE
      BY <1>10 DEF ValidateLayer
    <3> QED
      BY <1>1, <3>1
  <2> QED
    BY <1>8, <1>10, <2>1, <2>2
<1>11. CASE ValidateLayer(m)
  <2>1. body.ok /\ body.msg = m
    BY <1>1, <1>11
  <2>2. SetSigs(m, sigs) =
          [ok |-> Valid(m, Len(sigs)),
           msg |-> [m EXCEPT !.signatures = valid,
                      !.state = IF Valid(m, Len(sigs)) THEN "Complete" ELSE @]]
    BY <1>7, <1>8, <1>9, <2>1
  <2> QED
    BY <1>11, <2>2 DEF valid
<1> QED
  BY <1>10, <1>11

(* The headers put back: types, and what it means for each layer.          *)
Restored(slot) ==
  [slot EXCEPT !.protected = DecodeProtected(slot.protected_raw),
               !.unprotected = EmptyHeader]

LEMMA RepairedType ==
  ASSUME NEW m, Fits(m)
  PROVE  LET q == Repaired(m)
         IN /\ Fits(q) /\ q.state = m.state
            /\ DOMAIN q.signatures = DOMAIN m.signatures
            /\ Len(q.signatures) = Len(m.signatures)
            /\ \A i \in DOMAIN m.signatures :
                 /\ q.signatures[i].state = m.signatures[i].state
                 /\ q.signatures[i] = Restored(m.signatures[i])
            /\ ValidateLayer(m) => ValidateLayer(q)
            /\ \A i \in DOMAIN m.signatures :
                 ValidateLayer(m.signatures[i]) => ValidateLayer(q.signatures[i])
<1> DEFINE q == Repaired(m)
           row == [i \in DOMAIN m.signatures |-> Restored(m.signatures[i])]
<1>1. m.signatures \in Seq(Slot) /\ m.protected_raw \in ProtectedRaw
      /\ m \in Message
  BY DEF Fits, Message
<1>2. q = [m EXCEPT !.protected = DecodeProtected(m.protected_raw),
                    !.unprotected = EmptyHeader, !.signatures = row]
  BY DEF Repaired, Restored
<1>3. EmptyHeader \in Header /\ DecodeProtected(m.protected_raw) \in Header
  BY <1>1, EmptyHeaderType, DecodeProtectedType
<1>4. ASSUME NEW i \in DOMAIN m.signatures
      PROVE  /\ row[i] \in Slot /\ row[i].state = m.signatures[i].state
             /\ ValidateLayer(m.signatures[i]) => ValidateLayer(row[i])
  <2> DEFINE s == m.signatures[i]
             t == row[i]
  <2>1. s \in Slot
    BY <1>1
  <2>2. s.protected_raw \in ProtectedRaw
    BY <2>1 DEF Slot
  <2>3. DecodeProtected(s.protected_raw) \in Header
    BY <2>2, DecodeProtectedType
  <2>4. t = [s EXCEPT !.protected = DecodeProtected(s.protected_raw),
                      !.unprotected = EmptyHeader]
    BY DEF Restored
  <2> HIDE DEF s, t
  <2>5. /\ t \in Slot /\ t.state = s.state
        /\ t.protected = DecodeProtected(s.protected_raw)
        /\ t.unprotected = EmptyHeader /\ t.protected_raw = s.protected_raw
    BY <1>3, <2>1, <2>3, <2>4 DEF Slot
  <2>6. ValidateLayer(s) => ValidateLayer(t)
    BY <2>2, <2>5, RepairKeepsValid
  <2> QED
    BY <2>5, <2>6 DEF s, t
<1>5. row \in Seq(Slot) /\ Len(row) = Len(m.signatures)
      /\ DOMAIN row = DOMAIN m.signatures
  <2>1. row = [i \in DOMAIN m.signatures |-> row[i]]
    OBVIOUS
  <2> HIDE DEF row
  <2> QED
    BY <1>1, <1>4, <2>1, MappedSeq
<1>6. \A i \in DOMAIN m.signatures : row[i] = Restored(m.signatures[i])
  OBVIOUS
<1> HIDE DEF row, q
<1>7. /\ q.protected = DecodeProtected(m.protected_raw)
      /\ q.unprotected = EmptyHeader /\ q.protected_raw = m.protected_raw
      /\ q.signatures = row /\ q.state = m.state
      /\ q \in Message
  BY <1>1, <1>2, <1>3, <1>5 DEF Message
<1>8. ValidateLayer(m) => ValidateLayer(q)
  BY <1>1, <1>7, RepairKeepsValid
<1>9. Fits(q)
  BY <1>5, <1>7 DEF Fits
<1> QED
  BY <1>4, <1>5, <1>6, <1>7, <1>8, <1>9 DEF q

(* The message of a set_signatures that stopped half way.                  *)
HalfFilled(m, sigs) ==
  [m EXCEPT !.signatures = [i \in DOMAIN sigs |->
     IF Valid(m, i) THEN Filled(m.signatures[i], sigs[i])
                    ELSE m.signatures[i]]]

(* With its headers put back it differs from the one it came from only in  *)
(* slots that take the same signature again.                               *)
LEMMA HalfFilledRetries ==
  ASSUME NEW m, Fits(m), m.state # "New", ValidateLayer(m),
         NEW sigs \in Seq(Signature \cup {None}), sigs # << >>,
         Len(sigs) = Len(m.signatures),
         \A i \in DOMAIN sigs : m.signatures[i].state # "New"
  PROVE  SetSigs(Repaired(HalfFilled(m, sigs)), sigs)
           = SetSigs(Repaired(m), sigs)
<1> DEFINE half == HalfFilled(m, sigs)
           q == Repaired(m)
           h == Repaired(half)
<1>1. m.signatures \in Seq(Slot) /\ DOMAIN sigs = 1..Len(sigs)
      /\ DOMAIN m.signatures = DOMAIN sigs /\ Len(sigs) \in Nat
      /\ m \in Message /\ Len(sigs) <= MaxSlots
  BY DEF Fits, Message
<1>2. /\ half.protected = m.protected /\ half.unprotected = m.unprotected
      /\ half.protected_raw = m.protected_raw /\ half.state = m.state
      /\ half.payload = m.payload
      /\ half.signatures = [i \in DOMAIN sigs |->
           IF Valid(m, i) THEN Filled(m.signatures[i], sigs[i])
                          ELSE m.signatures[i]]
  BY <1>1 DEF HalfFilled, Message
<1> HIDE DEF half
<1>3. ASSUME NEW i \in DOMAIN sigs
      PROVE  /\ half.signatures[i] = IF Valid(m, i)
                                     THEN Filled(m.signatures[i], sigs[i])
                                     ELSE m.signatures[i]
             /\ half.signatures[i] \in Slot
             /\ half.signatures[i].state # "New"
  <2>1. m.signatures[i] \in Slot /\ sigs[i] \in Signature \cup {None}
        /\ m.signatures[i].state # "New"
    BY <1>1
  <2>2. Filled(m.signatures[i], sigs[i]) \in Slot
        /\ Filled(m.signatures[i], sigs[i]).state = "Complete"
    BY <2>1 DEF Filled, Slot, State
  <2> QED
    BY <1>2, <2>1, <2>2
<1>4. half.signatures \in Seq(Slot) /\ Len(half.signatures) = Len(sigs)
      /\ DOMAIN half.signatures = DOMAIN sigs
  <2>1. half.signatures = [i \in DOMAIN m.signatures |-> half.signatures[i]]
    BY <1>1, <1>2
  <2> QED
    BY <1>1, <1>3, <2>1, MappedSeq
<1>5. Fits(half)
  <2>1. half = [m EXCEPT !.signatures = half.signatures]
    BY <1>2 DEF half, HalfFilled
  <2> QED
    BY <1>1, <1>4, <2>1, NewSlotsFit
<1>6. ValidateLayer(half)
  BY <1>2 DEF ValidateLayer, ValidateHeaderBuckets
<1>7. /\ Fits(q) /\ q.state = m.state
      /\ DOMAIN q.signatures = DOMAIN m.signatures
      /\ Len(q.signatures) = Len(m.signatures)
      /\ \A i \in DOMAIN m.signatures :
           /\ q.signatures[i].state = m.signatures[i].state
           /\ q.signatures[i] = Restored(m.signatures[i])
  BY RepairedType
<1>8. /\ Fits(h) /\ h.state = half.state
      /\ DOMAIN h.signatures = DOMAIN half.signatures
      /\ Len(h.signatures) = Len(half.signatures)
      /\ \A i \in DOMAIN half.signatures :
           /\ h.signatures[i].state = half.signatures[i].state
           /\ h.signatures[i] = Restored(half.signatures[i])
  BY <1>5, RepairedType
<1>9. /\ ValidateLayer(q) /\ ValidateLayer(h)
       /\ \A i \in DOMAIN m.signatures :
            ValidateLayer(m.signatures[i]) => ValidateLayer(q.signatures[i])
  BY <1>5, <1>6, RepairedType
<1>10. h = [q EXCEPT !.signatures = h.signatures]
  BY <1>1, <1>2 DEF Repaired, HalfFilled, half, Message
<1> HIDE DEF q, h
<1>11. /\ q.state # "New" /\ h.state # "New"
       /\ DOMAIN q.signatures = DOMAIN sigs /\ Len(q.signatures) = Len(sigs)
       /\ DOMAIN h.signatures = DOMAIN sigs /\ Len(h.signatures) = Len(sigs)
       /\ \A i \in DOMAIN sigs : /\ q.signatures[i].state # "New"
                                /\ h.signatures[i].state # "New"
  BY <1>1, <1>2, <1>3, <1>4, <1>7, <1>8
<1>12. ASSUME NEW i \in DOMAIN sigs
       PROVE  /\ h.signatures[i] = IF Valid(m, i)
                                   THEN Filled(q.signatures[i], sigs[i])
                                   ELSE q.signatures[i]
              /\ ValidateLayer(h.signatures[i])
                   <=> ValidateLayer(q.signatures[i])
              /\ Filled(h.signatures[i], sigs[i])
                   = Filled(q.signatures[i], sigs[i])
  <2>1. m.signatures[i] \in Slot
    BY <1>1
  <2>2. q.signatures[i] \in Slot /\ h.signatures[i] \in Slot
    <3>1. q.signatures \in Seq(Slot) /\ h.signatures \in Seq(Slot)
      BY <1>7, <1>8 DEF Fits, Message
    <3>2. i \in DOMAIN q.signatures /\ i \in DOMAIN h.signatures
      BY <1>11
    <3> QED
      BY <3>1, <3>2
  <2>3. /\ q.signatures[i] = Restored(m.signatures[i])
        /\ h.signatures[i] = Restored(half.signatures[i])
    BY <1>1, <1>4, <1>7, <1>8
  <2>4. CASE ~ Valid(m, i)
    <3>1. half.signatures[i] = m.signatures[i]
      BY <1>3, <2>4
    <3>2. h.signatures[i] = q.signatures[i]
      BY <2>3, <3>1
    <3> QED
      BY <2>4, <3>2
  <2>5. CASE Valid(m, i)
    <3>1. half.signatures[i] = Filled(m.signatures[i], sigs[i])
      BY <1>3, <2>5
    <3>2. h.signatures[i] = Filled(q.signatures[i], sigs[i])
      <4> DEFINE t == m.signatures[i]
      <4>1. h.signatures[i] = Restored(Filled(t, sigs[i]))
            /\ q.signatures[i] = Restored(t) /\ t \in Slot
        BY <2>1, <2>3, <3>1
      <4> HIDE DEF t
      <4>2. Restored(Filled(t, sigs[i])) = Filled(Restored(t), sigs[i])
        <5>1. t.protected_raw = Filled(t, sigs[i]).protected_raw
          BY <4>1 DEF Filled, Slot
        <5> DEFINE p == DecodeProtected(t.protected_raw)
        <5>2. Restored(t) = [t EXCEPT !.protected = p,
                                      !.unprotected = EmptyHeader]
              /\ Restored(Filled(t, sigs[i]))
                   = [Filled(t, sigs[i]) EXCEPT !.protected = p,
                                                !.unprotected = EmptyHeader]
          BY <5>1 DEF Restored
        <5> HIDE DEF p
        <5> QED
          BY <4>1, <5>2 DEF Filled, Slot
      <4> QED
        BY <4>1, <4>2
    <3>3. /\ h.signatures[i].protected = q.signatures[i].protected
          /\ h.signatures[i].unprotected = q.signatures[i].unprotected
          /\ h.signatures[i].protected_raw = q.signatures[i].protected_raw
      BY <2>2, <3>2 DEF Filled, Slot
    <3>4. ValidateLayer(h.signatures[i]) <=> ValidateLayer(q.signatures[i])
      BY <3>3 DEF ValidateLayer, ValidateHeaderBuckets
    <3>5. Filled(h.signatures[i], sigs[i]) = Filled(q.signatures[i], sigs[i])
      BY <2>2, <3>2 DEF Filled, Slot
    <3> QED
      BY <2>5, <3>2, <3>4, <3>5
  <2> QED
    BY <2>4, <2>5
<1>13. ASSUME NEW i \in DOMAIN sigs
       PROVE  /\ Valid(h, i) = Valid(q, i)
              /\ Valid(m, i) => Valid(q, i)
  <2>1. \A j \in 1..i : j \in DOMAIN sigs /\ j \in DOMAIN m.signatures
    BY <1>1
  <2>2. Valid(h, i) <=> Valid(q, i)
    BY <1>12, <2>1 DEF Valid
  <2>3. Valid(m, i) => Valid(q, i)
    BY <1>9, <2>1 DEF Valid
  <2> QED
    BY <2>2, <2>3 DEF Valid
<1>14. Len(sigs) \in DOMAIN sigs
  BY <1>1
<1> DEFINE Row1(x) == [i \in DOMAIN sigs |->
                         IF Valid(x, i) THEN Filled(x.signatures[i], sigs[i])
                                        ELSE x.signatures[i]]
<1>15. Row1(h) = Row1(q)
  BY <1>12, <1>13
<1>16. SetSigs(q, sigs) =
         [ok |-> Valid(q, Len(sigs)),
          msg |-> [q EXCEPT !.signatures = Row1(q),
                     !.state = IF Valid(q, Len(sigs)) THEN "Complete" ELSE @]]
  BY <1>7, <1>9, <1>11, SetSigsPrepared
<1>17. SetSigs(h, sigs) =
         [ok |-> Valid(h, Len(sigs)),
          msg |-> [h EXCEPT !.signatures = Row1(h),
                     !.state = IF Valid(h, Len(sigs)) THEN "Complete" ELSE @]]
  BY <1>8, <1>9, <1>11, SetSigsPrepared
<1> HIDE DEF Row1
<1>18. Valid(h, Len(sigs)) = Valid(q, Len(sigs))
  BY <1>13, <1>14
<1>19. [h EXCEPT !.signatures = Row1(h),
                 !.state = IF Valid(h, Len(sigs)) THEN "Complete" ELSE @]
       = [q EXCEPT !.signatures = Row1(q),
                   !.state = IF Valid(q, Len(sigs)) THEN "Complete" ELSE @]
  <2>1. q \in Message /\ h \in Message
    BY <1>7, <1>8 DEF Fits
  <2> QED
    BY <1>10, <1>15, <1>18, <2>1 DEF Message
<1> QED
  BY <1>16, <1>17, <1>18, <1>19 DEF q, h, half

(* A slot that refuses its signature is not valid, prepared or new.        *)
LEMMA RefusedSlot ==
  ASSUME NEW slot, NEW sig, ~ SetSlotSig(slot, sig).ok
  PROVE  ~ ValidateLayer(slot)
<1> DEFINE y == SyncProtectedRaw(slot)
           full == [y.msg EXCEPT !.signature = sig, !.state = "Complete"]
<1>1. SetSlotSig(slot, sig) = IF y.ok THEN [ok |-> TRUE, msg |-> full] ELSE y
  BY DEF SetSlotSig, Ok
<1>2. y.ok = TRUE => SetSlotSig(slot, sig).ok
  BY <1>1
<1>3. ValidateLayer(slot) => y.ok = TRUE
  BY DEF SyncProtectedRaw, ValidateLayer, ValidateHeaderBuckets, Ok
<1> HIDE DEF y
<1> QED
  BY <1>2, <1>3

(* A set_signatures that fails leaves the message as it was, or with the   *)
(* slot that refused its signature as it was, the body not complete by it. *)
LEMMA FailedSetSigs ==
  ASSUME NEW m, Fits(m), NEW sigs \in Seq(Signature \cup {None}),
         ~ SetSigs(m, sigs).ok
  PROVE  LET r == SetSigs(m, sigs)
         IN \/ r.msg = m
            \/ /\ r.msg.state = m.state
               /\ sigs # << >> /\ Len(sigs) = Len(m.signatures)
               /\ m.state # "New" => ValidateLayer(m)
               /\ \E j \in DOMAIN r.msg.signatures :
                    ~ ValidateLayer(r.msg.signatures[j])
<1> DEFINE body == SyncProtectedRaw(m)
           slot == [i \in DOMAIN sigs |-> SetSlotSig(m.signatures[i], sigs[i])]
           Done(i) == \A j \in 1..i : slot[j].ok
           row == [i \in DOMAIN sigs |->
                     IF Done(i) THEN slot[i].msg ELSE m.signatures[i]]
           last == Done(Len(sigs))
           n == [body.msg EXCEPT !.signatures = row,
                                 !.state = IF last THEN "Complete" ELSE @]
           r == SetSigs(m, sigs)
<1>1. r = IF sigs = << >> \/ Len(sigs) # Len(m.signatures)
          THEN [ok |-> FALSE, msg |-> m]
          ELSE IF ~ body.ok THEN body
          ELSE [ok |-> last, msg |-> n]
  BY DEF SetSigs, Err
<1>2. /\ DOMAIN sigs = 1..Len(sigs) /\ Len(sigs) \in Nat
      /\ m \in Message
  BY DEF Fits
<1>3. ~ body.ok => body.msg = m
  BY DEF SyncProtectedRaw, Ok, Err
<1>4. body.ok /\ m.state # "New" => ValidateLayer(m)
  BY DEF SyncProtectedRaw
<1>5. \/ body.msg = m
      \/ body.msg = [m EXCEPT !.protected_raw = EncodeProtected(m.protected)]
  BY DEF SyncProtectedRaw, Ok, Err
<1>6. ASSUME ~ last
      PROVE  /\ n.state = m.state /\ n.signatures = row
             /\ \E j \in DOMAIN row : ~ ValidateLayer(row[j])
  <2>1. PICK j \in 1..Len(sigs) : ~ slot[j].ok
    BY <1>6
  <2>2. j \in 1..j /\ j \in DOMAIN sigs
    BY <1>2
  <2>3. ~ Done(j)
    BY <2>1, <2>2
  <2>4. slot[j] = SetSlotSig(m.signatures[j], sigs[j])
    BY <2>2
  <2>5. ~ ValidateLayer(m.signatures[j])
    BY <2>1, <2>4, RefusedSlot
  <2>6. j \in DOMAIN row /\ row[j] = m.signatures[j]
    BY <2>2, <2>3
  <2> HIDE DEF row, last, body
  <2>7. n.state = m.state /\ n.signatures = row
    BY <1>2, <1>5, <1>6 DEF Message
  <2> QED
    BY <2>5, <2>6, <2>7
<1> HIDE DEF r, row, last, body, n
<1>7. ~ r.ok
  BY DEF r
<1>8. CASE sigs = << >> \/ Len(sigs) # Len(m.signatures)
  BY <1>1, <1>8 DEF r
<1>9. CASE sigs # << >> /\ Len(sigs) = Len(m.signatures) /\ ~ body.ok
  BY <1>1, <1>3, <1>9 DEF r
<1>10. CASE sigs # << >> /\ Len(sigs) = Len(m.signatures) /\ body.ok
  <2>1. ~ last /\ r.msg = n
    BY <1>1, <1>7, <1>10
  <2> QED
    BY <1>4, <1>6, <1>10, <2>1 DEF r
<1> QED
  BY <1>8, <1>9, <1>10

(* A set_signatures that stops half way releases nothing, and can be       *)
(* repeated once the headers are put back, as if it had never failed       *)
(* (sign.rs, set_signatures).                                              *)
THEOREM RetryCorrect == Spec => []FailedSetSignaturesCanBeRetried
<1>1. ASSUME TypeOK, NEW sigs \in Row(Answers), ~ SetSigs(msg, sigs).ok,
             SetSigs(msg, sigs).msg # msg
      PROVE  LET r == SetSigs(msg, sigs)
             IN /\ r.msg.state = msg.state /\ NotReleased(r.msg)
                /\ /\ msg.state # "New"
                   /\ \A i \in DOMAIN sigs : msg.signatures[i].state # "New"
                   => SetSigs(Repaired(r.msg), sigs)
                        = SetSigs(Repaired(msg), sigs)
  <2> DEFINE r == SetSigs(msg, sigs)
  <2>1. Fits(msg)
    BY <1>1 DEF TypeOK, Fits
  <2>2. Answers \subseteq Signature \cup {None}
    BY <1>1, SigType DEF TypeOK, Answers
  <2>3. sigs \in Seq(Signature \cup {None})
    BY <2>2, RowIsSeq
  <2>4. /\ r.msg.state = msg.state
        /\ sigs # << >> /\ Len(sigs) = Len(msg.signatures)
        /\ msg.state # "New" => ValidateLayer(msg)
        /\ \E j \in DOMAIN r.msg.signatures :
             ~ ValidateLayer(r.msg.signatures[j])
    BY <1>1, <2>1, <2>3, FailedSetSigs
  <2>5. NotReleased(r.msg)
    BY <2>4 DEF NotReleased, CanEncode, VerifyPayload
  <2>6. ASSUME msg.state # "New",
               \A i \in DOMAIN sigs : msg.signatures[i].state # "New"
        PROVE  SetSigs(Repaired(r.msg), sigs) = SetSigs(Repaired(msg), sigs)
    <3> DEFINE row == [i \in DOMAIN sigs |->
                 IF Valid(msg, i) THEN Filled(msg.signatures[i], sigs[i])
                                  ELSE msg.signatures[i]]
               last == Valid(msg, Len(sigs))
    <3>1. r = [ok |-> last,
               msg |-> [msg EXCEPT !.signatures = row,
                          !.state = IF last THEN "Complete" ELSE @]]
      BY <2>1, <2>3, <2>4, <2>6, SetSigsPrepared
    <3>2. ~ r.ok
      BY <1>1
    <3> HIDE DEF r, last
    <3>3. r.msg = HalfFilled(msg, sigs)
      <4> HIDE DEF row
      <4>1. ~ last
        BY <3>1, <3>2
      <4> QED
        BY <2>1, <3>1, <4>1 DEF row, HalfFilled, Fits, Message
    <3> QED
      BY <2>1, <2>3, <2>4, <2>6, <3>3, HalfFilledRetries
  <2> QED
    BY <2>4, <2>5, <2>6
<1>2. TypeOK => FailedSetSignaturesCanBeRetried
  BY <1>1 DEF FailedSetSignaturesCanBeRetried
<1> QED
  BY <1>2, TypeCorrect, PTL

-----------------------------------------------------------------------------
(* Rounds of external signing.                                             *)

(* A preparation that succeeds opens a round whose slots are empty.        *)
LEMMA PrepareOpens ==
  ASSUME NEW m, Fits(m), NEW slots \in Seq(Slot),
         PrepareSignatureHeaders(m, slots).ok
  PROVE  LET n == PrepareSignatureHeaders(m, slots).msg
         IN RoundOpen(n) /\ EmptySlots(n)
<1> DEFINE p == PrepareSignatureHeaders(m, slots)
           row == [i \in DOMAIN slots |-> PreparedSlot(slots[i])]
           n == [m EXCEPT !.protected_raw = EncodeProtected(m.protected),
                          !.state = "Prepared", !.signatures = row]
           allowed == /\ slots # << >> /\ ValidateHeaderBuckets(m)
                      /\ \A i \in DOMAIN slots :
                           ValidateHeaderBuckets(slots[i])
<1>1. p = IF allowed THEN [ok |-> TRUE, msg |-> n]
                     ELSE [ok |-> FALSE, msg |-> m]
  BY DEF PrepareSignatureHeaders, Ok, Err
<1>2. p.ok
  OBVIOUS
<1> HIDE DEF p
<1>3. allowed /\ p.msg = n
  <2> HIDE DEF allowed, n
  <2> QED
    BY <1>1, <1>2
<1>4. /\ n.protected = m.protected /\ n.unprotected = m.unprotected
      /\ n.protected_raw = EncodeProtected(m.protected)
      /\ n.state = "Prepared" /\ n.signatures = row
  BY DEF Fits, Message
<1> HIDE DEF n
<1>5. ValidateLayer(n)
  <2>1. ValidateHeaderBuckets(n)
    BY <1>3, <1>4 DEF ValidateHeaderBuckets
  <2> QED
    BY <1>4, <2>1, EncodedLayerIsValid
<1>6. ASSUME NEW i \in DOMAIN row
      PROVE  /\ row[i].state # "New" /\ row[i].signature = None
             /\ ValidateLayer(row[i])
  <2> DEFINE s == row[i]
  <2>1. s = PreparedSlot(slots[i]) /\ slots[i] \in Slot
        /\ ValidateHeaderBuckets(slots[i])
    BY <1>3
  <2> HIDE DEF s
  <2>2. /\ s.protected = slots[i].protected
        /\ s.unprotected = slots[i].unprotected
        /\ s.protected_raw = EncodeProtected(s.protected)
        /\ s.state = "Prepared" /\ s.signature = None
    BY <2>1 DEF PreparedSlot, Slot
  <2>3. ValidateHeaderBuckets(s)
    BY <2>1, <2>2 DEF ValidateHeaderBuckets
  <2> QED
    BY <2>2, <2>3, EncodedLayerIsValid DEF s
<1>7. row # << >>
  BY <1>3
<1> HIDE DEF row
<1> QED
  BY <1>3, <1>4, <1>5, <1>6, <1>7 DEF RoundOpen, EmptySlots, p

(* Both ways to prepare do.                                                *)
LEMMA PreparationsOpen ==
  ASSUME NEW m, Fits(m), NEW slots \in Seq(Slot), Len(slots) <= MaxSlots
  PROVE  \A r \in {PrepareEmbedded(m, slots), PrepareDetached(m, slots)} :
           r.ok => RoundOpen(r.msg) /\ EmptySlots(r.msg)
<1> DEFINE p == PrepareSignatureHeaders(m, slots)
           e == PrepareEmbedded(m, slots)
           d == PrepareDetached(m, slots)
           n == [p.msg EXCEPT !.payload = None]
<1>1. /\ p = [ok |-> p.ok, msg |-> p.msg] /\ Fits(p.msg)
      /\ p.ok => RoundOpen(p.msg) /\ EmptySlots(p.msg)
  BY PrepareOpens, PrepareEffect DEF PrepareSignatureHeaders, Ok, Err
<1>2. e.msg = p.msg /\ (e.ok => p.ok)
  BY <1>1 DEF PrepareEmbedded
<1>3. d = IF p.ok THEN [ok |-> TRUE, msg |-> n] ELSE p
  BY DEF PrepareDetached, Ok
<1> HIDE DEF p
<1>4. /\ n.protected = p.msg.protected /\ n.unprotected = p.msg.unprotected
      /\ n.protected_raw = p.msg.protected_raw /\ n.state = p.msg.state
      /\ n.signatures = p.msg.signatures
  BY <1>1 DEF Fits, Message
<1> HIDE DEF e, d, n
<1>5. ValidateLayer(p.msg) => ValidateLayer(n)
  BY <1>4 DEF ValidateLayer, ValidateHeaderBuckets
<1>6. RoundOpen(p.msg) /\ EmptySlots(p.msg) => RoundOpen(n) /\ EmptySlots(n)
  BY <1>4, <1>5 DEF RoundOpen, EmptySlots
<1>7. d.ok => d.msg = n /\ p.ok
  BY <1>3
<1> QED
  BY <1>1, <1>2, <1>6, <1>7 DEF e, d

(* The message that answers for every slot of an open round complete: it   *)
(* has forgotten what the slots held before.                               *)
FilledRound(m, sigs) ==
  [m EXCEPT !.signatures = [i \in DOMAIN sigs |->
                              Filled(m.signatures[i], sigs[i])],
            !.state = "Complete"]

LEMMA OpenRoundFills ==
  ASSUME NEW m, Fits(m), RoundOpen(m), NEW sigs \in Seq(Signature),
         Len(sigs) = Len(m.signatures)
  PROVE  SetSigs(m, sigs) = [ok |-> TRUE, msg |-> FilledRound(m, sigs)]
<1>1. /\ m.signatures \in Seq(Slot) /\ sigs \in Seq(Signature \cup {None})
      /\ DOMAIN sigs = DOMAIN m.signatures /\ DOMAIN sigs = 1..Len(sigs)
      /\ Len(sigs) \in Nat /\ sigs # << >>
  BY DEF Fits, Message, RoundOpen
<1>2. ASSUME NEW i \in DOMAIN sigs \cup {Len(sigs)}
      PROVE  Valid(m, i) = TRUE
  <2>1. \A j \in 1..i : j \in DOMAIN m.signatures
    BY <1>1
  <2> QED
    BY <2>1 DEF Valid, RoundOpen
<1>3. SetSigs(m, sigs) =
        [ok |-> Valid(m, Len(sigs)),
         msg |-> [m EXCEPT
           !.signatures = [i \in DOMAIN sigs |->
              IF Valid(m, i) THEN Filled(m.signatures[i], sigs[i])
                             ELSE m.signatures[i]],
           !.state = IF Valid(m, Len(sigs)) THEN "Complete" ELSE @]]
  BY <1>1, SetSigsPrepared DEF RoundOpen
<1>4. [i \in DOMAIN sigs |->
         IF Valid(m, i) THEN Filled(m.signatures[i], sigs[i])
                        ELSE m.signatures[i]]
      = [i \in DOMAIN sigs |-> Filled(m.signatures[i], sigs[i])]
  BY <1>2
<1>5. Valid(m, Len(sigs)) = TRUE
  BY <1>2
<1> QED
  BY <1>3, <1>4, <1>5 DEF FilledRound

LEMMA FilledRoundIsSigned ==
  ASSUME NEW m, Fits(m), RoundOpen(m), NEW sigs \in Seq(Signature),
         Len(sigs) = Len(m.signatures)
  PROVE  LET n == FilledRound(m, sigs)
         IN /\ Fits(n) /\ n.state = "Complete" /\ n.signatures # << >>
            /\ n.payload = m.payload /\ n.protected = m.protected
            /\ n.protected_raw = m.protected_raw
            /\ ValidateLayer(n) /\ DOMAIN n.signatures = DOMAIN m.signatures
            /\ \A i \in DOMAIN n.signatures :
                 /\ n.signatures[i].state = "Complete"
                 /\ ValidateLayer(n.signatures[i])
                 /\ n.signatures[i].protected = m.signatures[i].protected
                 /\ n.signatures[i].protected_raw
                      = m.signatures[i].protected_raw
                 /\ n.signatures[i].signature = sigs[i]
<1> DEFINE row == [i \in DOMAIN sigs |-> Filled(m.signatures[i], sigs[i])]
           n == [m EXCEPT !.signatures = row, !.state = "Complete"]
<1>1. /\ m.signatures \in Seq(Slot) /\ DOMAIN sigs = DOMAIN m.signatures
      /\ m \in Message /\ Len(m.signatures) <= MaxSlots
  BY DEF Fits, Message
<1>2. ASSUME NEW i \in DOMAIN sigs
      PROVE  /\ row[i] \in Slot /\ row[i].state = "Complete"
             /\ ValidateLayer(row[i])
             /\ row[i].protected = m.signatures[i].protected
             /\ row[i].protected_raw = m.signatures[i].protected_raw
             /\ row[i].signature = sigs[i]
  <2> DEFINE s == m.signatures[i]
             f == row[i]
  <2>1. s \in Slot /\ ValidateLayer(s) /\ sigs[i] \in Signature
        /\ f = Filled(s, sigs[i])
    BY <1>1 DEF RoundOpen
  <2> HIDE DEF s, f
  <2>2. /\ f \in Slot /\ f.state = "Complete" /\ f.signature = sigs[i]
        /\ f.protected = s.protected /\ f.unprotected = s.unprotected
        /\ f.protected_raw = s.protected_raw
    BY <2>1 DEF Filled, Slot, State
  <2>3. ValidateLayer(f)
    BY <2>1, <2>2 DEF ValidateLayer, ValidateHeaderBuckets
  <2> QED
    BY <2>2, <2>3 DEF s, f
<1>3. row \in Seq(Slot) /\ Len(row) = Len(m.signatures)
      /\ DOMAIN row = DOMAIN m.signatures
  <2>1. row = [i \in DOMAIN m.signatures |-> row[i]]
    BY <1>1
  <2>2. \A i \in DOMAIN m.signatures : row[i] \in Slot
    BY <1>1, <1>2
  <2>3. m.signatures \in Seq(Slot)
    BY <1>1
  <2> HIDE DEF row
  <2> QED
    BY <2>1, <2>2, <2>3, MappedSeq
<1>4. row # << >>
  BY <1>3 DEF RoundOpen
<1>5. n = FilledRound(m, sigs)
  BY DEF FilledRound
<1> HIDE DEF row
<1>6. /\ n.protected = m.protected /\ n.unprotected = m.unprotected
      /\ n.payload = m.payload /\ n.protected_raw = m.protected_raw
      /\ n.state = "Complete" /\ n.signatures = row /\ Fits(n)
  BY <1>1, <1>3 DEF Fits, Message, State
<1> HIDE DEF n
<1>7. ValidateLayer(n)
  BY <1>6 DEF ValidateLayer, ValidateHeaderBuckets, RoundOpen
<1> QED
  BY <1>1, <1>2, <1>3, <1>4, <1>5, <1>6, <1>7

(* What the slots held before makes no difference.                         *)
LEMMA EmptiedRoundFillsAlike ==
  ASSUME NEW m, Fits(m), RoundOpen(m), NEW sigs \in Seq(Signature),
         Len(sigs) = Len(m.signatures)
  PROVE  SetSigs(Emptied(m), sigs) = SetSigs(m, sigs)
<1> DEFINE e == Emptied(m)
           row == [i \in DOMAIN m.signatures |->
                     [m.signatures[i] EXCEPT !.signature = None,
                                             !.state = "Prepared"]]
<1>1. /\ m.signatures \in Seq(Slot) /\ DOMAIN sigs = DOMAIN m.signatures
      /\ m \in Message /\ Len(m.signatures) <= MaxSlots
  BY DEF Fits, Message
<1>2. e = [m EXCEPT !.signatures = row]
  BY DEF Emptied
<1>3. ASSUME NEW i \in DOMAIN m.signatures
      PROVE  /\ row[i] \in Slot /\ row[i].state # "New"
             /\ ValidateLayer(row[i])
             /\ Filled(row[i], sigs[i]) = Filled(m.signatures[i], sigs[i])
  <2> DEFINE s == m.signatures[i]
             f == row[i]
  <2>1. f = [s EXCEPT !.signature = None, !.state = "Prepared"]
    OBVIOUS
  <2>2. s \in Slot /\ ValidateLayer(s)
    BY <1>1 DEF RoundOpen
  <2> HIDE DEF s, f
  <2>3. /\ f \in Slot /\ f.state = "Prepared"
        /\ f.protected = s.protected /\ f.unprotected = s.unprotected
        /\ f.protected_raw = s.protected_raw
    BY <2>1, <2>2 DEF Slot, State
  <2>4. ValidateLayer(f)
    BY <2>1, <2>2, <2>3 DEF ValidateLayer, ValidateHeaderBuckets
  <2>5. Filled(f, sigs[i]) = Filled(s, sigs[i])
    BY <2>1, <2>2 DEF Filled, Slot
  <2> QED
    BY <2>3, <2>4, <2>5 DEF s, f
<1>4. row \in Seq(Slot) /\ Len(row) = Len(m.signatures)
      /\ DOMAIN row = DOMAIN m.signatures
  <2>1. row = [i \in DOMAIN m.signatures |-> row[i]]
    OBVIOUS
  <2>2. \A i \in DOMAIN m.signatures : row[i] \in Slot
    BY <1>3
  <2>3. m.signatures \in Seq(Slot)
    BY <1>1
  <2> HIDE DEF row
  <2> QED
    BY <2>1, <2>2, <2>3, MappedSeq
<1> HIDE DEF row, e
<1>5. row # << >>
  BY <1>1, <1>4 DEF RoundOpen
<1>6. /\ e.protected = m.protected /\ e.unprotected = m.unprotected
      /\ e.protected_raw = m.protected_raw /\ e.state = m.state
      /\ e.signatures = row /\ Fits(e)
  BY <1>1, <1>2, <1>4 DEF Fits, Message
<1>7. ValidateLayer(e)
  BY <1>6 DEF ValidateLayer, ValidateHeaderBuckets, RoundOpen
<1>8. RoundOpen(e)
  BY <1>3, <1>4, <1>5, <1>6, <1>7 DEF RoundOpen
<1>9. SetSigs(e, sigs) = [ok |-> TRUE, msg |-> FilledRound(e, sigs)]
  BY <1>4, <1>6, <1>8, OpenRoundFills
<1>10. SetSigs(m, sigs) = [ok |-> TRUE, msg |-> FilledRound(m, sigs)]
  BY OpenRoundFills
<1>11. [i \in DOMAIN sigs |-> Filled(e.signatures[i], sigs[i])]
       = [i \in DOMAIN sigs |-> Filled(m.signatures[i], sigs[i])]
  BY <1>1, <1>3, <1>6
<1>12. FilledRound(e, sigs) = FilledRound(m, sigs)
  BY <1>1, <1>2, <1>11 DEF FilledRound, Message
<1> QED
  BY <1>9, <1>10, <1>12 DEF e

(* The answers to a round are signatures, one for every slot.              *)
LEMMA AnswersType ==
  ASSUME NEW m, Fits(m), NEW keys \in [DOMAIN m.signatures -> Key],
         NEW aad \in Aad, NEW payload \in Payload
  PROVE  LET answers == AnswersTo(m, keys, aad, payload)
         IN /\ answers \in Seq(Signature)
            /\ Len(answers) = Len(m.signatures)
            /\ DOMAIN answers = DOMAIN m.signatures
            /\ \A i \in DOMAIN m.signatures :
                 answers[i] = Sig(keys[i],
                   ToBeSigned(m.protected_raw, m.signatures[i].protected_raw,
                              aad, payload))
<1> DEFINE tbs == SignatureInputs(m, aad, payload)
           answers == AnswersTo(m, keys, aad, payload)
<1>1. m \in Message /\ m.signatures \in Seq(Slot)
  BY DEF Fits, Message
<1>2. \A i \in DOMAIN m.signatures :
        /\ tbs[i] \in SigStructure
        /\ tbs[i] = ToBeSigned(m.protected_raw, m.signatures[i].protected_raw,
                               aad, payload)
  BY <1>1, SignatureInputsType DEF SignatureInputs
<1>3. answers = [i \in DOMAIN m.signatures |-> Sig(keys[i], tbs[i])]
  BY DEF AnswersTo
<1> HIDE DEF tbs, answers
<1>4. ASSUME NEW i \in DOMAIN m.signatures
      PROVE  answers[i] \in Signature
  <2>1. keys[i] \in Key /\ tbs[i] \in SigStructure
    BY <1>2
  <2>2. Sig(keys[i], tbs[i]) \in Signature
    BY <2>1, SigType
  <2> QED
    BY <1>3, <2>2
<1>5. answers = [i \in DOMAIN m.signatures |-> answers[i]]
  BY <1>3
<1>6. DOMAIN m.signatures = 1 .. Len(m.signatures)
      /\ Len(m.signatures) \in Nat
  BY <1>1
<1>7. answers \in [1 .. Len(m.signatures) -> Signature]
  BY <1>4, <1>5, <1>6
<1>8. answers \in Seq(Signature) /\ Len(answers) = Len(m.signatures)
      /\ DOMAIN answers = DOMAIN m.signatures
  BY <1>6, <1>7, MembersMakeSeq
<1> QED
  BY <1>2, <1>3, <1>8 DEF answers

(* Verifiers with the keys of the round accept the message it completes.   *)
LEMMA HoldersVerify ==
  ASSUME NEW n, NEW keys, NEW aad, NEW payload,
         n.state = "Complete", n.signatures # << >>, ValidateLayer(n),
         Fits(n), DOMAIN keys = DOMAIN n.signatures, Understood(n),
         \A i \in DOMAIN n.signatures :
           /\ ValidateLayer(n.signatures[i])
           /\ n.signatures[i].signature = Sig(keys[i],
                ToBeSigned(n.protected_raw, n.signatures[i].protected_raw,
                           aad, payload))
  PROVE  VerifyPayload(n, Holders(keys), aad, payload)
<1>1. Holders(keys) # {}
  <2>1. n.signatures \in Seq(Slot)
    BY DEF Fits, Message
  <2>2. 1 \in DOMAIN keys
    BY <2>1
  <2> QED
    BY <2>2 DEF Holders
<1>2. ASSUME NEW i \in DOMAIN n.signatures
      PROVE  \E v \in Candidates(n.signatures[i], Holders(keys)) :
               SlotVerifiedBy(n, n.signatures[i], v, aad, payload)
  <2> DEFINE slot == n.signatures[i]
             v == [key |-> keys[i], alg |-> None, kid |-> None,
                   understood |-> Label]
             all == Holders(keys)
  <2>1. v \in all
    BY DEF Holders
  <2>2. /\ v.key = keys[i] /\ v.alg = None /\ v.kid = None
        /\ v.understood = Label
    OBVIOUS
  <2>3. /\ EnsureCritUnderstood(n.protected, Label)
        /\ EnsureCritUnderstood(slot.protected, Label)
    BY DEF Understood
  <2>4. slot.signature = Sig(keys[i],
          ToBeSigned(n.protected_raw, slot.protected_raw, aad, payload))
    OBVIOUS
  <2> HIDE DEF v, slot, all
  <2>5. KidMatchRank(SlotKid(slot), v.kid) # None
    BY <2>2, HeaderConstants DEF KidMatchRank
  <2>6. v \in Candidates(slot, all)
    BY <2>1, <2>5 DEF Candidates
  <2>7. SlotVerifiedBy(n, slot, v, aad, payload)
    BY <2>2, <2>3, <2>4 DEF SlotVerifiedBy, CheckProtectedAlg
  <2> QED
    BY <2>6, <2>7 DEF slot, all
<1> QED
  BY <1>1, <1>2 DEF VerifyPayload

(* Fewer answers than slots complete nothing.                              *)
LEMMA ShortRowsFillNothing ==
  ASSUME NEW m, Fits(m), RoundOpen(m), NEW answers \in Seq(Signature),
         Len(answers) = Len(m.signatures), NEW n \in 0 .. Len(answers) - 1
  PROVE  ~ CanEncode(SetSigs(m, SubSeq(answers, 1, n)).msg)
<1> DEFINE part == SubSeq(answers, 1, n)
<1>1. Len(answers) \in Nat /\ n \in Nat /\ n < Len(answers)
      /\ \A i \in 1 .. n : answers[i] \in Signature
  BY ElementOfSeq
<1>2. Len(part) = IF 1 <= n THEN n - 1 + 1 ELSE 0
  BY <1>1, SubSeqProperties
<1>3. Len(part) # Len(m.signatures)
  BY <1>1, <1>2
<1> HIDE DEF part
<1>4. SetSigs(m, part).msg = m
  BY <1>3 DEF SetSigs, Err
<1> QED
  BY <1>4 DEF CanEncode, RoundOpen, part

(* Rounds of external signing stay apart: preparations open rounds with    *)
(* empty slots, and the answers to an open round complete a message that   *)
(* encodes and verifies and in which nothing of another round is left      *)
(* (sign.rs, prepare_signatures, prepare_detached_signatures,              *)
(* set_signatures).                                                        *)
THEOREM SigningRoundsCorrect == Spec => []SigningRoundsStayApart
<1>1. ASSUME TypeOK, RoundOpen(msg),
             NEW keys \in [DOMAIN msg.signatures -> Key], NEW aad \in Aad,
             NEW p \in Payload
      PROVE  RoundCompletes(msg, keys, aad, p)
  <2> DEFINE bytes == IF msg.payload = None THEN p ELSE msg.payload
             answers == AnswersTo(msg, keys, aad, bytes)
             done == SetSigs(msg, answers)
             n == FilledRound(msg, answers)
             wire == WireOf(n)
  <2>1. Fits(msg)
    BY <1>1 DEF TypeOK, Fits
  <2>2. bytes \in Payload
    BY <1>1 DEF TypeOK, Message
  <2> HIDE DEF bytes
  <2>3. /\ answers \in Seq(Signature) /\ Len(answers) = Len(msg.signatures)
        /\ \A i \in DOMAIN msg.signatures :
             answers[i] = Sig(keys[i],
               ToBeSigned(msg.protected_raw, msg.signatures[i].protected_raw,
                          aad, bytes))
    BY <2>1, <2>2, AnswersType
  <2> HIDE DEF answers
  <2>4. done = [ok |-> TRUE, msg |-> n]
    BY <1>1, <2>1, <2>3, OpenRoundFills
  <2>5. done = SetSigs(Emptied(msg), answers)
    BY <1>1, <2>1, <2>3, EmptiedRoundFillsAlike
  <2>6. /\ Fits(n) /\ n.state = "Complete" /\ n.signatures # << >>
        /\ n.payload = msg.payload /\ n.protected = msg.protected
        /\ n.protected_raw = msg.protected_raw
        /\ ValidateLayer(n) /\ DOMAIN n.signatures = DOMAIN msg.signatures
        /\ \A i \in DOMAIN n.signatures :
             /\ n.signatures[i].state = "Complete"
             /\ ValidateLayer(n.signatures[i])
             /\ n.signatures[i].protected = msg.signatures[i].protected
             /\ n.signatures[i].protected_raw
                  = msg.signatures[i].protected_raw
             /\ n.signatures[i].signature = answers[i]
    BY <1>1, <2>1, <2>3, FilledRoundIsSigned
  <2> HIDE DEF n, done
  <2>7. CanEncode(n) /\ CanDecode(wire) /\ Decoded(wire) = n
    BY <2>6, CompleteEncodes
  <2>8. Understood(msg) => VerifyPayload(n, Holders(keys), aad, bytes)
    <3>1. Understood(msg) => Understood(n)
      BY <2>6 DEF Understood
    <3>2. \A i \in DOMAIN n.signatures :
            /\ ValidateLayer(n.signatures[i])
            /\ n.signatures[i].signature = Sig(keys[i],
                 ToBeSigned(n.protected_raw, n.signatures[i].protected_raw,
                            aad, bytes))
      BY <2>3, <2>6
    <3>3. DOMAIN keys = DOMAIN n.signatures
      BY <2>6
    <3> QED
      BY <2>6, <3>1, <3>2, <3>3, HoldersVerify
  <2> HIDE DEF wire
  <2>9. Understood(msg) =>
          IF msg.payload = None
          THEN VerifyDetachedAndDecode(wire, Holders(keys), p, aad)
          ELSE VerifyAndDecode(wire, Holders(keys), aad)
    BY <2>6, <2>7, <2>8
    DEF bytes, VerifyDetachedAndDecode, VerifyDetached, VerifyAndDecode, Verify
  <2>10. \A k \in 0 .. Len(answers) - 1 :
           ~ CanEncode(SetSigs(msg, SubSeq(answers, 1, k)).msg)
    BY <1>1, <2>1, <2>3, ShortRowsFillNothing
  <2>11. /\ done.ok /\ CanEncode(done.msg) /\ CanDecode(WireOf(done.msg))
         /\ WireOf(done.msg) = wire
    BY <2>4, <2>7 DEF wire
  <2> QED
    BY <2>5, <2>9, <2>10, <2>11 DEF RoundCompletes, done, answers, bytes
<1>2. ASSUME TypeOK, NEW slots \in SlotRows
      PROVE  \A r \in {PrepareEmbedded(msg, slots),
                       PrepareDetached(msg, slots)} :
               r.ok => RoundOpen(r.msg) /\ EmptySlots(r.msg)
  <2>1. Fits(msg)
    BY <1>2 DEF TypeOK, Fits
  <2>2. slots \in Seq(Slot) /\ Len(slots) <= MaxSlots
    BY <2>1, SlotRowsType
  <2> QED
    BY <2>1, <2>2, PreparationsOpen
<1>3. TypeOK => SigningRoundsStayApart
  BY <1>1, <1>2 DEF SigningRoundsStayApart
<1> QED
  BY <1>3, TypeCorrect, PTL
=============================================================================
