-------------------------- MODULE CountersignProofs --------------------------
(***************************************************************************)
(* Proofs about CounterSignature, for every choice of its constants: type  *)
(* correctness, that what verification accepts was countersigned, and that *)
(* countersignatures travel whole in the header of their host.             *)
(***************************************************************************)
EXTENDS CounterSignature, HeaderProofs

-----------------------------------------------------------------------------
(* The methods.                                                            *)

LEMMA CounterSignaturesAreClosed == ClosedUnderEdits(CounterSignatures)
BY DEF ClosedUnderEdits, CounterSignatures

LEMMA ToBeSignedType ==
  ASSUME NEW target \in Target, NEW raw \in ProtectedRaw, NEW aad \in Aad
  PROVE  ToBeSigned(target, raw, aad) \in SigStructure
BY CounterSignatureConstants DEF ToBeSigned, SigStructure

LEMMA SigType ==
  ASSUME NEW key \in Key, NEW tbs \in SigStructure
  PROVE  Sig(key, tbs) \in Signature /\ Sig(key, tbs) # None
BY NoneIsNoCounterSignature DEF Sig, Signature

(* CounterSignature::new builds a well typed object.                       *)
LEMMA NewType == New \in CounterSignatures
BY EmptyHeaderType, EncodeProtectedType DEF New, CounterSignatures, State

(* prepare_signature keeps the types, whether it fails or not.             *)
LEMMA PrepareSignatureType ==
  ASSUME NEW c \in CounterSignatures, NEW s \in Signer
  PROVE  /\ PrepareSignature(c, s.alg, s.kid).msg \in CounterSignatures
         /\ PrepareSignature(c, s.alg, s.kid).ok \in BOOLEAN
<1> DEFINE h == PrepareHeaders(c, s.alg, s.kid)
           p == PrepareSignature(c, s.alg, s.kid)
           n == [h.msg EXCEPT !.signature = None, !.state = "Prepared",
                        !.protected_raw = EncodeProtected(h.msg.protected)]
<1>1. s.alg \in Alg \cup {None} /\ s.kid \in Kid \cup {None}
  BY CounterSignatureConstants
<1>2. h.msg \in CounterSignatures /\ h.ok \in BOOLEAN
  BY <1>1, CounterSignaturesAreClosed, PrepareHeadersKeeps
<1>3. p = IF h.ok THEN [ok |-> TRUE, msg |-> n] ELSE h
  BY DEF PrepareSignature, Ok
<1> HIDE DEF h, p
<1>4. n \in CounterSignatures
  BY <1>2, EncodeProtectedType DEF CounterSignatures, State
<1> HIDE DEF n
<1>5. p.msg \in CounterSignatures /\ p.ok \in BOOLEAN
  <2>1. CASE h.ok
    BY <1>3, <1>4, <2>1
  <2>2. CASE ~ h.ok
    BY <1>2, <1>3, <2>2
  <2> QED
    BY <2>1, <2>2
<1> QED
  BY <1>5 DEF p

(* set_signature keeps the types, whatever answer it is given.             *)
LEMMA SetSignatureType ==
  ASSUME NEW c \in CounterSignatures, NEW sig \in Signature \cup {None}
  PROVE  SetSignature(c, sig).msg \in CounterSignatures
<1> DEFINE y == SyncProtectedRaw(c)
<1>1. y.msg \in CounterSignatures
  <2>1. EncodeProtected(c.protected) \in ProtectedRaw
    BY EncodeProtectedType DEF CounterSignatures
  <2>2. [c EXCEPT !.protected_raw = EncodeProtected(c.protected)]
          \in CounterSignatures
    BY <2>1 DEF CounterSignatures
  <2> QED
    BY <2>2 DEF SyncProtectedRaw, Ok, Err
<1>2. SetSignature(c, sig).msg
        = IF y.ok THEN [y.msg EXCEPT !.signature = sig, !.state = "Complete"]
                  ELSE y.msg
  BY DEF SetSignature, Ok
<1> HIDE DEF y
<1>3. [y.msg EXCEPT !.signature = sig, !.state = "Complete"]
        \in CounterSignatures
  BY <1>1 DEF CounterSignatures, State
<1> QED
  BY <1>1, <1>2, <1>3

(* sign keeps the types, also when the signer fails.                       *)
LEMMA SignType ==
  ASSUME NEW c \in CounterSignatures, NEW s \in Signer, NEW target \in Target,
         NEW aad \in Aad, NEW available \in BOOLEAN
  PROVE  Sign(c, s, target, aad, available).msg \in CounterSignatures
<1> DEFINE p == PrepareSignature(c, s.alg, s.kid)
           sig == Sig(s.key, ToBeSigned(target, p.msg.protected_raw, aad))
           n == [p.msg EXCEPT !.signature = sig, !.state = "Complete"]
<1>1. p.msg \in CounterSignatures
  BY PrepareSignatureType
<1>2. Sign(c, s, target, aad, available).msg \in {p.msg, n}
  BY DEF Sign, Ok, Err
<1> HIDE DEF p
<1>3. sig \in Signature
  BY <1>1, ToBeSignedType, SigType, CounterSignatureConstants
  DEF CounterSignatures
<1> HIDE DEF sig
<1>4. n \in CounterSignatures
  BY <1>1, <1>3 DEF CounterSignatures, State
<1> QED
  BY <1>1, <1>2, <1>4

-----------------------------------------------------------------------------
(* Values and fields.                                                      *)

(* Countersignatures from elsewhere have the form of a value.              *)
LEMMA ForeignValueForm ==
  ASSUME NEW w \in ForeignValue
  PROVE  w \in ValueForm
<1>1. PICK raw \in ForeignRaw, s \in Signer, target \in Target, aad \in Aad :
        w = [protected |-> raw, unprotected |-> EmptyHeader,
             signature |-> Sig(s.key, ToBeSigned(target, raw, aad))]
  BY DEF ForeignValue
<1>2. raw \in ProtectedRaw /\ s.key \in Key
  BY CounterSignatureConstants
<1>3. Sig(s.key, ToBeSigned(target, raw, aad)) \in Signature
  BY <1>2, ToBeSignedType, SigType
<1> QED
  BY <1>1, <1>2, <1>3, EmptyHeaderType DEF ValueForm

(* A value that has the form is no Malformed one, decodes to a well typed  *)
(* object, and is that object's value.                                     *)
LEMMA DecodedValue ==
  ASSUME NEW w \in ValueForm
  PROVE  /\ w # Malformed
         /\ Decoded(w) \in CounterSignatures
         /\ ToValue(Decoded(w)) = w
<1>1. DecodeProtected(w.protected) \in Header
  BY DecodeProtectedType DEF ValueForm
<1> QED
  BY <1>1, OtherValuesHaveNoForm
  DEF ValueForm, Decoded, ToValue, CounterSignatures, State

(* What from_value returns is the decoded value.                           *)
LEMMA FromValueEffect ==
  ASSUME NEW w, FromValue(w).ok
  PROVE  w # Malformed /\ FromValue(w).msg = Decoded(w)
BY DEF FromValue, Ok, Err

(* An object that has a value is read back as it was.                      *)
LEMMA ValueRoundTrip ==
  ASSUME NEW c \in CounterSignatures, HasValue(c)
  PROVE  /\ ToValue(c) \in ValueForm
         /\ FromValue(ToValue(c)) = Ok(c)
<1>1. DecodeProtected(c.protected_raw) = c.protected
  BY ViewOfValidBytes DEF HasValue, ValidateLayer
<1>2. ToValue(c) \in ValueForm
  BY DEF ToValue, ValueForm, CounterSignatures
<1>3. Decoded(ToValue(c)) = c
  BY <1>1 DEF Decoded, ToValue, CounterSignatures, HasValue
<1>4. Decodable(c.protected_raw) /\ ValidateHeaderBuckets(c)
  BY <1>1
  DEF HasValue, ValidateLayer, ValidateHeaderBuckets, Decodable,
      DecodeProtected
<1>5. FromValue(ToValue(c))
        = IF ToValue(c) # Malformed /\ Decodable(c.protected_raw)
               /\ ValidateHeaderBuckets(c)
          THEN Ok(c) ELSE Err(None)
  BY <1>3 DEF FromValue, ToValue
<1>6. ToValue(c) # Malformed
  BY <1>2, OtherValuesHaveNoForm
<1> QED
  BY <1>2, <1>4, <1>5, <1>6

LEMMA ShortSequences ==
  ASSUME NEW S, NEW a \in S, NEW b \in S
  PROVE  /\ << >> \in Seq(S) /\ <<a>> \in Seq(S) /\ <<a, b>> \in Seq(S)
         /\ Len(<< >>) = 0 /\ Len(<<a>>) = 1 /\ Len(<<a, b>>) = 2
OBVIOUS

(* The lists an application stores.                                        *)
LEMMA ListsType ==
  ASSUME TypeOK, NEW list \in Lists
  PROVE  /\ list \in Seq(CounterSignatures)
         /\ Len(list) <= 2
<1>1. CASE list = << >> \/ list = <<cs>>
  <2>1. cs \in CounterSignatures
    BY DEF TypeOK
  <2>2. << >> \in Seq(CounterSignatures) /\ <<cs>> \in Seq(CounterSignatures)
    BY <2>1, ShortSequences
  <2>3. Len(<< >>) <= 2 /\ Len(<<cs>>) <= 2
    OBVIOUS
  <2>4. CASE list = << >>
    BY <2>2, <2>3, <2>4
  <2>5. CASE list = <<cs>>
    BY <2>2, <2>3, <2>5
  <2> QED
    BY <1>1, <2>4, <2>5
<1>2. ASSUME NEW w \in ForeignValue,
             list = <<cs, Decoded(w)>> \/ list = <<Decoded(w), cs>>
      PROVE  list \in Seq(CounterSignatures) /\ Len(list) <= 2
  <2>1. cs \in CounterSignatures /\ Decoded(w) \in CounterSignatures
    BY ForeignValueForm, DecodedValue DEF TypeOK
  <2>2. CASE list = <<cs, Decoded(w)>>
    BY <2>1, <2>2, ShortSequences
  <2>3. CASE list = <<Decoded(w), cs>>
    BY <2>1, <2>3, ShortSequences
  <2> QED
    BY <1>2, <2>2, <2>3
<1> QED
  BY <1>1, <1>2 DEF Lists

(* What set_counter_signatures leaves in the field: nothing for no         *)
(* countersignature, otherwise their values in their order; the field as   *)
(* it was when one of them may not be encoded.                             *)
LEMMA SetEffect ==
  ASSUME NEW f, NEW list \in Seq(CounterSignatures)
  PROVE  LET stored == SetCounterSignatures(f, list)
         IN /\ stored.ok \in BOOLEAN
            /\ ~ stored.ok => stored.msg = f
            /\ stored.ok /\ list = << >> => stored.msg = None
            /\ stored.ok /\ list # << >> =>
                 /\ \A i \in DOMAIN list : HasValue(list[i])
                 /\ stored.msg \in FieldForm
                 /\ stored.msg.items
                      = [i \in DOMAIN list |-> ToValue(list[i])]
<1> DEFINE stored == SetCounterSignatures(f, list)
           values == [i \in DOMAIN list |-> ToValue(list[i])]
<1>1. CASE list = << >>
  BY <1>1 DEF SetCounterSignatures, Ok
<1>2. CASE list # << >> /\ \E i \in DOMAIN list : ~ HasValue(list[i])
  BY <1>2 DEF SetCounterSignatures, Err
<1>3. CASE list # << >> /\ \A i \in DOMAIN list : HasValue(list[i])
  <2>1. \A i \in DOMAIN list : ToValue(list[i]) \in ValueForm
    BY <1>3, ValueRoundTrip
  <2>2. values \in Seq(ValueForm) /\ values \in Seq(ValueForm \cup {Malformed})
    BY <2>1
  <2>3. stored = Ok(IF Len(list) = 1 THEN One(ToValue(list[1]))
                    ELSE Many(values))
    BY <1>3 DEF SetCounterSignatures
  <2>4. CASE Len(list) = 1
    <3>1. values = <<ToValue(list[1])>>
      BY <2>4
    <3> QED
      BY <1>3, <2>2, <2>3, <2>4, <3>1 DEF One, Ok, FieldForm
  <2>5. CASE Len(list) # 1
    BY <1>3, <2>2, <2>3, <2>5 DEF Many, Ok, FieldForm
  <2> QED
    BY <2>4, <2>5
<1> QED
  BY <1>1, <1>2, <1>3

(* What counter_signatures returns of a field that has the form: one       *)
(* decoded object for every item, none of which is malformed.              *)
LEMMA GetEffect ==
  ASSUME NEW f \in FieldForm, GetCounterSignatures(f).ok
  PROVE  LET read == GetCounterSignatures(f).msg
         IN /\ f.items \in Seq(ValueForm) /\ f.items # << >>
            /\ read = [i \in DOMAIN f.items |-> Decoded(f.items[i])]
<1>1. f # None /\ f # Malformed
  BY OtherValuesHaveNoForm
<1>2. f.items # << >> /\ \A i \in DOMAIN f.items : FromValue(f.items[i]).ok
  BY <1>1 DEF GetCounterSignatures, CounterSignaturesFromValue, Err
<1>3. \A i \in DOMAIN f.items :
        /\ f.items[i] # Malformed
        /\ FromValue(f.items[i]).msg = Decoded(f.items[i])
  BY <1>2, FromValueEffect
<1>4. f.items \in Seq(ValueForm)
  BY <1>3 DEF FieldForm
<1>5. GetCounterSignatures(f).msg
        = [i \in DOMAIN f.items |-> FromValue(f.items[i]).msg]
  BY <1>1, <1>2 DEF GetCounterSignatures, CounterSignaturesFromValue, Ok
<1> QED
  BY <1>2, <1>3, <1>4, <1>5

(* The fields a host message can carry.                                    *)
LEMMA FieldsForm ==
  ASSUME TypeOK, NEW f \in Fields
  PROVE  f \in FieldForm \cup {None, Malformed}
<1>1. CASE f = Malformed
  BY <1>1
<1>2. CASE f \in ForeignField /\ f # Malformed
  <2> DEFINE Item == ValueForm \cup {Malformed}
  <2>1. \A w \in ForeignValue : w \in Item
    BY ForeignValueForm
  <2>2. Malformed \in Item
    OBVIOUS
  <2> HIDE DEF Item
  <2>3. FieldForm = [single : BOOLEAN, items : Seq(Item)]
    BY DEF FieldForm, Item
  <2>4. \/ f = Many(<< >>)
        \/ \E w \in ForeignValue : f = One(w) \/ f = Many(<<w, Malformed>>)
        \/ \E w, x \in ForeignValue : f = Many(<<w, x>>)
    <3>1. CASE f \in {Many(<<w, x>>) : w, x \in ForeignValue}
      <4>1. PICK w \in ForeignValue, x \in ForeignValue : f = Many(<<w, x>>)
        BY <3>1
      <4> QED
        BY <4>1
    <3>2. CASE f \in {One(w) : w \in ForeignValue}
      BY <3>2
    <3>3. CASE f \in {Many(<<w, Malformed>>) : w \in ForeignValue}
      BY <3>3
    <3>4. CASE f = Many(<< >>)
      BY <3>4
    <3> QED
      BY <1>2, <3>1, <3>2, <3>3, <3>4 DEF ForeignField
  <2>5. << >> \in Seq(Item)
    OBVIOUS
  <2>6. ASSUME NEW a \in Item, NEW b \in Item
        PROVE  One(a) \in FieldForm /\ Many(<<a, b>>) \in FieldForm
    <3>1. <<a>> \in Seq(Item) /\ <<a, b>> \in Seq(Item)
      BY ShortSequences
    <3> QED
      BY <2>3, <3>1 DEF One, Many
  <2>7. Many(<< >>) \in FieldForm
    BY <2>3, <2>5 DEF Many
  <2>8. ASSUME NEW w \in ForeignValue
        PROVE  /\ One(w) \in FieldForm /\ Many(<<w, Malformed>>) \in FieldForm
               /\ \A x \in ForeignValue : Many(<<w, x>>) \in FieldForm
    BY <2>1, <2>2, <2>6
  <2>9. CASE f = Many(<< >>)
    BY <2>7, <2>9
  <2>10. ASSUME NEW w \in ForeignValue,
                f = One(w) \/ f = Many(<<w, Malformed>>)
         PROVE  f \in FieldForm
    BY <2>8, <2>10
  <2>11. ASSUME NEW w \in ForeignValue, NEW x \in ForeignValue,
                f = Many(<<w, x>>)
         PROVE  f \in FieldForm
    BY <2>8, <2>11
  <2> QED
    BY <2>4, <2>9, <2>10, <2>11
<1>3. ASSUME NEW list \in Lists, f = SetCounterSignatures(None, list).msg
      PROVE  f \in FieldForm \cup {None}
  BY <1>3, ListsType, SetEffect
<1> QED
  BY <1>1, <1>2, <1>3 DEF Fields

-----------------------------------------------------------------------------
(* The object and the requests keep their types under every sequence of    *)
(* calls (countersign.rs, struct CounterSignature).                        *)
THEOREM TypeCorrect == Spec => []TypeOK
<1>1. Init => TypeOK
  BY NewType DEF Init, TypeOK
<1>2. TypeOK /\ [Next]_vars => TypeOK'
  <2> SUFFICES ASSUME TypeOK, [Next]_vars
               PROVE  TypeOK'
    OBVIOUS
  <2>1. cs \in CounterSignatures
        /\ requests \subseteq [key : Key, tbs : SigStructure]
    BY DEF TypeOK
  <2>2. SUFFICES /\ cs' \in CounterSignatures
                 /\ requests' \subseteq [key : Key, tbs : SigStructure]
    BY DEF TypeOK
  <2>3. CASE NewCounterSignature
    BY <2>1, <2>3, NewType DEF NewCounterSignature
  <2>4. CASE EditProtected
    BY <2>1, <2>4, CounterSignatureConstants
    DEF EditProtected, CounterSignatures
  <2>5. CASE EditUnprotected
    BY <2>1, <2>5, CounterSignatureConstants
    DEF EditUnprotected, CounterSignatures
  <2>6. CASE Prepare
    <3>1. PICK s \in Signer, target \in Target, aad \in Aad :
            LET p == PrepareSignature(cs, s.alg, s.kid)
                tbs == ToBeSigned(target, p.msg.protected_raw, aad)
            IN /\ cs' = p.msg
               /\ requests' = IF p.ok
                              THEN requests \cup {[key |-> s.key, tbs |-> tbs]}
                              ELSE requests
      BY <2>6 DEF Prepare
    <3>2. cs' \in CounterSignatures
      BY <2>1, <3>1, PrepareSignatureType
    <3>3. ToBeSigned(target, cs'.protected_raw, aad) \in SigStructure
      BY <3>2, ToBeSignedType DEF CounterSignatures
    <3> QED
      BY <2>1, <3>1, <3>2, <3>3, CounterSignatureConstants
  <2>7. CASE StoreSignature
    <3>1. PICK sig \in Answers \cup {None} : cs' = SetSignature(cs, sig).msg
      BY <2>7 DEF StoreSignature
    <3>2. \A tbs \in SigStructure : SlotStructure(tbs) \in SigStructure
      BY DEF SlotStructure, SigStructure
    <3>3. sig \in Signature \cup {None}
      BY <2>1, <3>1, <3>2, SigType DEF Answers
    <3> QED
      BY <2>1, <2>7, <3>1, <3>3, SetSignatureType DEF StoreSignature
  <2>8. CASE LoseRequest
    BY <2>1, <2>8 DEF LoseRequest
  <2>9. CASE SignInProcess
    BY <2>1, <2>9, SignType DEF SignInProcess
  <2>10. CASE ReadBack
    <3>1. PICK f \in Fields :
            LET read == GetCounterSignatures(f)
            IN read.ok /\ \E i \in DOMAIN read.msg : cs' = read.msg[i]
      BY <2>10 DEF ReadBack
    <3>2. f # None /\ f # Malformed
      BY <3>1 DEF GetCounterSignatures, CounterSignaturesFromValue, Ok, Err
    <3>3. f \in FieldForm
      BY <3>2, FieldsForm
    <3>4. /\ f.items \in Seq(ValueForm)
          /\ GetCounterSignatures(f).msg
               = [i \in DOMAIN f.items |-> Decoded(f.items[i])]
      BY <3>1, <3>3, GetEffect
    <3>5. PICK i \in DOMAIN f.items :
            f.items[i] \in ValueForm /\ cs' = Decoded(f.items[i])
      BY <3>1, <3>4
    <3> QED
      BY <2>1, <2>10, <3>5, DecodedValue DEF ReadBack
  <2>11. CASE UNCHANGED vars
    BY <2>1, <2>11 DEF vars
  <2> QED
    BY <2>3, <2>4, <2>5, <2>6, <2>7, <2>8, <2>9, <2>10, <2>11 DEF Next
<1> QED
  BY <1>1, <1>2, PTL DEF Spec

(* Whatever verify accepts for a target was countersigned over that target *)
(* as the caller reads it (countersign.rs, verify).                        *)
THEOREM AcceptanceCorrect == Spec => []AcceptedIsWhatWasCountersigned
<1>1. TypeOK => AcceptedIsWhatWasCountersigned
  <2> SUFFICES ASSUME TypeOK, NEW v \in Verifier, NEW target \in Target,
                      NEW aad \in Aad, Verify(cs, v, target, aad)
               PROVE  /\ cs.signature # None
                      /\ cs.signature.by = v.key
                      /\ LET tbs == cs.signature.over
                         IN /\ tbs[1] = "CounterSignature"
                            /\ [raw |-> tbs[2], body |-> tbs[5]] = target
                            /\ DecodeProtected(tbs[3]) = cs.protected
                            /\ tbs[4] = aad
    BY DEF AcceptedIsWhatWasCountersigned
  <2> DEFINE tbs == ToBeSigned(target, cs.protected_raw, aad)
  <2>1. cs.signature = Sig(v.key, tbs)
    BY DEF Verify
  <2>2. cs.signature.by = v.key /\ cs.signature.over = tbs
    BY <2>1 DEF Sig
  <2>3. cs.signature # None
    BY <2>1, ToBeSignedType, SigType, CounterSignatureConstants
    DEF TypeOK, CounterSignatures
  <2>4. /\ tbs[1] = "CounterSignature" /\ tbs[2] = target.raw
        /\ tbs[3] = cs.protected_raw /\ tbs[4] = aad /\ tbs[5] = target.body
    BY DEF ToBeSigned
  <2>5. [raw |-> target.raw, body |-> target.body] = target
    BY CounterSignatureConstants
  <2>6. DecodeProtected(cs.protected_raw) = cs.protected
    BY ViewOfValidBytes DEF Verify, ValidateLayer
  <2> HIDE DEF tbs
  <2> QED
    BY <2>2, <2>3, <2>4, <2>5, <2>6
<1> QED
  BY <1>1, TypeCorrect, PTL

(* Lists of countersignatures are read back as they were stored, refused   *)
(* lists change nothing, and what is read of a field is what it carries    *)
(* (header.rs, set_counter_signatures and counter_signatures).             *)
THEOREM TravelCorrect == Spec => []CountersignaturesTravel
<1>1. ASSUME TypeOK, NEW list \in Lists, NEW f
      PROVE  LET stored == SetCounterSignatures(f, list)
             IN IF stored.ok THEN GetCounterSignatures(stored.msg) = Ok(list)
                             ELSE stored.msg = f
  <2> DEFINE stored == SetCounterSignatures(f, list)
             field == stored.msg
  <2>1. list \in Seq(CounterSignatures)
    BY <1>1, ListsType
  <2>2. CASE ~ stored.ok
    BY <2>1, <2>2, SetEffect
  <2>3. CASE stored.ok /\ list = << >>
    BY <2>1, <2>3, SetEffect DEF GetCounterSignatures
  <2>4. CASE stored.ok /\ list # << >>
    <3>1. /\ \A i \in DOMAIN list : HasValue(list[i])
          /\ field \in FieldForm
          /\ field.items = [i \in DOMAIN list |-> ToValue(list[i])]
      BY <2>1, <2>4, SetEffect
    <3> HIDE DEF stored, field
    <3>2. \A i \in DOMAIN list : FromValue(ToValue(list[i])) = Ok(list[i])
      BY <2>1, <3>1, ValueRoundTrip
    <3>3. /\ field # None /\ field # Malformed
          /\ DOMAIN field.items = DOMAIN list /\ field.items # << >>
      BY <2>1, <2>4, <3>1, OtherValuesHaveNoForm
    <3>4. \A i \in DOMAIN list : FromValue(field.items[i]).ok
                                 /\ FromValue(field.items[i]).msg = list[i]
      BY <3>1, <3>2 DEF Ok
    <3>5. GetCounterSignatures(field)
            = Ok([i \in DOMAIN list |-> FromValue(field.items[i]).msg])
      BY <3>3, <3>4 DEF GetCounterSignatures, CounterSignaturesFromValue
    <3>6. [i \in DOMAIN list |-> FromValue(field.items[i]).msg] = list
      BY <2>1, <3>4
    <3>7. GetCounterSignatures(field) = Ok(list)
      BY <3>5, <3>6
    <3> QED
      BY <2>4, <3>7 DEF stored, field
  <2> QED
    BY <2>2, <2>3, <2>4
<1>2. ASSUME TypeOK, NEW f \in Fields \ {None}, GetCounterSignatures(f).ok
      PROVE  LET read == GetCounterSignatures(f)
             IN /\ Len(read.msg) = Len(f.items)
                /\ \A i \in DOMAIN f.items : ToValue(read.msg[i]) = f.items[i]
  <2>1. f # Malformed
    BY <1>2 DEF GetCounterSignatures, CounterSignaturesFromValue, Ok, Err
  <2>2. f \in FieldForm
    BY <1>2, <2>1, FieldsForm
  <2>3. /\ f.items \in Seq(ValueForm)
        /\ GetCounterSignatures(f).msg
             = [i \in DOMAIN f.items |-> Decoded(f.items[i])]
    BY <1>2, <2>2, GetEffect
  <2>4. \A i \in DOMAIN f.items : ToValue(Decoded(f.items[i])) = f.items[i]
    BY <2>3, DecodedValue
  <2>5. Len([i \in DOMAIN f.items |-> Decoded(f.items[i])]) = Len(f.items)
    BY <2>3
  <2> QED
    BY <2>3, <2>4, <2>5
<1>3. TypeOK => CountersignaturesTravel
  BY <1>1, <1>2 DEF CountersignaturesTravel
<1> QED
  BY <1>3, TypeCorrect, PTL

-----------------------------------------------------------------------------
(* The layer a countersignature is.                                        *)

(* What a call does to the private fields of the object: it leaves them    *)
(* alone, prepares it, stores an answer, signs, or replaces it.            *)
Untouched(c, n) ==
  /\ n.protected_raw = c.protected_raw /\ n.signature = c.signature
  /\ n.state = c.state

Prepared(n) ==
  /\ n.state = "Prepared" /\ n.signature = None
  /\ n.protected_raw = EncodeProtected(n.protected)

Stored(c, n) ==
  /\ n.state = "Complete" /\ n.protected = c.protected
  /\ IF c.state = "New" THEN n.protected_raw = EncodeProtected(c.protected)
     ELSE /\ n.protected_raw = c.protected_raw
          /\ DecodeProtected(c.protected_raw) = c.protected

Completed(n) ==
  /\ n.state = "Complete"
  /\ n.protected_raw = EncodeProtected(n.protected)
  /\ SignatureCovers(n.signature, n.protected_raw)

Loaded(c, n) ==
  /\ n.state = "Complete" /\ DecodeProtected(n.protected_raw) = n.protected
  /\ \/ SignatureCovers(n.signature, n.protected_raw)
     \/ n.signature = c.signature /\ n.protected_raw = c.protected_raw

(* A signature covers the bytes of the structure it was made for.          *)
LEMMA SigCovers ==
  ASSUME NEW key \in Key, NEW target \in Target, NEW raw \in ProtectedRaw,
         NEW aad \in Aad
  PROVE  SignatureCovers(Sig(key, ToBeSigned(target, raw, aad)), raw)
<1> DEFINE tbs == ToBeSigned(target, raw, aad)
<1>1. Sig(key, tbs) # None
  BY ToBeSignedType, SigType
<1>2. Sig(key, tbs).over = tbs /\ tbs[3] = raw
  BY DEF Sig, ToBeSigned
<1> HIDE DEF tbs
<1> QED
  BY <1>1, <1>2 DEF SignatureCovers, tbs

(* prepare_signature prepares the object, or leaves its private fields as  *)
(* they were.                                                              *)
LEMMA PrepareSignatureEffect ==
  ASSUME NEW c \in CounterSignatures, NEW s \in Signer
  PROVE  LET p == PrepareSignature(c, s.alg, s.kid)
         IN IF p.ok THEN Prepared(p.msg) ELSE Untouched(c, p.msg)
<1> DEFINE Rewritten == {n \in CounterSignatures : Untouched(c, n)}
           h == PrepareHeaders(c, s.alg, s.kid)
           p == PrepareSignature(c, s.alg, s.kid)
           n == [h.msg EXCEPT !.signature = None, !.state = "Prepared",
                        !.protected_raw = EncodeProtected(h.msg.protected)]
<1>1. s.alg \in Alg \cup {None} /\ s.kid \in Kid \cup {None}
  BY CounterSignatureConstants
<1>2. c \in Rewritten /\ ClosedUnderEdits(Rewritten)
  BY DEF ClosedUnderEdits, CounterSignatures, Untouched
<1> HIDE DEF Rewritten
<1>3. h.msg \in Rewritten /\ h.ok \in BOOLEAN
  BY <1>1, <1>2, PrepareHeadersKeeps
<1>4. p = IF h.ok THEN [ok |-> TRUE, msg |-> n] ELSE h
  BY DEF PrepareSignature, Ok
<1> HIDE DEF h, p
<1>5. h.msg \in CounterSignatures /\ Untouched(c, h.msg)
  BY <1>3 DEF Rewritten
<1>6. Prepared(n)
  BY <1>5 DEF Prepared, CounterSignatures
<1> HIDE DEF n
<1>7. IF p.ok THEN Prepared(p.msg) ELSE Untouched(c, p.msg)
  <2>1. CASE h.ok
    BY <1>4, <1>6, <2>1
  <2>2. CASE ~ h.ok
    BY <1>4, <1>5, <2>2
  <2> QED
    BY <1>3, <2>1, <2>2
<1> QED
  BY <1>7 DEF p

(* set_signature stores the answer or leaves the object as it was.         *)
LEMMA SetSignatureEffect ==
  ASSUME NEW c \in CounterSignatures, NEW sig \in Signature \cup {None}
  PROVE  LET n == SetSignature(c, sig).msg IN Stored(c, n) \/ n = c
<1> DEFINE y == SyncProtectedRaw(c)
           n == [y.msg EXCEPT !.signature = sig, !.state = "Complete"]
<1>1. SetSignature(c, sig).msg = IF y.ok THEN n ELSE y.msg
  BY DEF SetSignature, Ok
<1>2. CASE c.state = "New"
  <2> DEFINE e == [c EXCEPT !.protected_raw = EncodeProtected(c.protected)]
  <2>1. y = IF ValidateHeaderBuckets(c) THEN [ok |-> TRUE, msg |-> e]
            ELSE [ok |-> FALSE, msg |-> c]
    BY <1>2 DEF SyncProtectedRaw, Ok, Err
  <2>2. CASE ValidateHeaderBuckets(c)
    <3> HIDE DEF y
    <3>1. y.ok /\ y.msg = e
      BY <2>1, <2>2
    <3>2. Stored(c, n)
      BY <1>2, <3>1 DEF Stored, CounterSignatures
    <3> HIDE DEF n
    <3> QED
      BY <1>1, <3>1, <3>2
  <2>3. CASE ~ ValidateHeaderBuckets(c)
    BY <1>1, <2>1, <2>3
  <2> QED
    BY <2>2, <2>3
<1>3. CASE c.state # "New"
  <2>1. y = [ok |-> ValidateLayer(c), msg |-> c]
    BY <1>3 DEF SyncProtectedRaw
  <2>2. CASE ValidateLayer(c)
    <3>1. DecodeProtected(c.protected_raw) = c.protected
      BY <2>2, ViewOfValidBytes DEF ValidateLayer
    <3> HIDE DEF y
    <3>2. y.msg = c /\ y.ok
      BY <2>1, <2>2
    <3>3. Stored(c, n)
      BY <1>3, <3>1, <3>2 DEF Stored, CounterSignatures
    <3> HIDE DEF n
    <3> QED
      BY <1>1, <3>2, <3>3
  <2>3. CASE ~ ValidateLayer(c)
    BY <1>1, <2>1, <2>3
  <2> QED
    BY <2>2, <2>3
<1> QED
  BY <1>2, <1>3

(* sign completes the object, stops at a prepared one when the signer      *)
(* fails, or leaves its private fields alone.                              *)
LEMMA SignEffect ==
  ASSUME NEW c \in CounterSignatures, NEW s \in Signer, NEW target \in Target,
         NEW aad \in Aad, NEW available \in BOOLEAN
  PROVE  LET n == Sign(c, s, target, aad, available).msg
         IN Completed(n) \/ Prepared(n) \/ Untouched(c, n)
<1> DEFINE p == PrepareSignature(c, s.alg, s.kid)
           sig == Sig(s.key, ToBeSigned(target, p.msg.protected_raw, aad))
           n == [p.msg EXCEPT !.signature = sig, !.state = "Complete"]
<1>1. p.msg \in CounterSignatures /\ p.ok \in BOOLEAN
  BY PrepareSignatureType
<1>2. IF p.ok THEN Prepared(p.msg) ELSE Untouched(c, p.msg)
  BY PrepareSignatureEffect
<1>3. Sign(c, s, target, aad, available).msg
        = IF p.ok /\ available THEN n ELSE p.msg
  BY DEF Sign, Ok, Err
<1> HIDE DEF p
<1>4. SignatureCovers(sig, p.msg.protected_raw)
  BY <1>1, SigCovers, CounterSignatureConstants DEF CounterSignatures
<1> HIDE DEF sig
<1>5. p.ok => Completed(n)
  BY <1>1, <1>2, <1>4 DEF Prepared, Completed, CounterSignatures
<1> HIDE DEF n
<1> QED
  BY <1>1, <1>2, <1>3, <1>5

(* Every readable item of a field is the value of this object or comes     *)
(* from elsewhere.                                                         *)
LEMMA ItemsOfFields ==
  ASSUME TypeOK, NEW f \in Fields, f # None, f # Malformed,
         NEW i \in DOMAIN f.items, f.items[i] # Malformed
  PROVE  f.items[i] \in ForeignValue \cup {ToValue(cs)}
<1>1. CASE f \in ForeignField
  <2>1. ASSUME NEW a, NEW b, f = One(a) \/ f = Many(<<a, b>>)
        PROVE  f.items[i] \in {a, b}
    BY <2>1 DEF One, Many
  <2>2. f # Many(<< >>)
    BY DEF Many
  <2>3. \/ \E w \in ForeignValue : f = One(w) \/ f = Many(<<w, Malformed>>)
        \/ \E w, x \in ForeignValue : f = Many(<<w, x>>)
    <3>1. CASE f \in {Many(<<w, x>>) : w, x \in ForeignValue}
      <4>1. PICK w \in ForeignValue, x \in ForeignValue : f = Many(<<w, x>>)
        BY <3>1
      <4> QED
        BY <4>1
    <3>2. CASE f \in {One(w) : w \in ForeignValue}
      BY <3>2
    <3>3. CASE f \in {Many(<<w, Malformed>>) : w \in ForeignValue}
      BY <3>3
    <3> QED
      BY <1>1, <2>2, <3>1, <3>2, <3>3 DEF ForeignField
  <2> QED
    BY <2>1, <2>3
<1>2. ASSUME NEW list \in Lists, f = SetCounterSignatures(None, list).msg
      PROVE  f.items[i] \in ForeignValue \cup {ToValue(cs)}
  <2>1. list \in Seq(CounterSignatures)
    BY <1>2, ListsType
  <2>2. f.items = [j \in DOMAIN list |-> ToValue(list[j])]
    BY <1>2, <2>1, SetEffect
  <2>3. i \in DOMAIN list /\ f.items[i] = ToValue(list[i])
    BY <2>2
  <2>4. \A w \in ForeignValue : ToValue(Decoded(w)) = w
    BY ForeignValueForm, DecodedValue
  <2>5. CASE list = << >>
    BY <2>3, <2>5
  <2>6. CASE list = <<cs>>
    BY <2>3, <2>6
  <2>7. ASSUME NEW w \in ForeignValue,
               list = <<cs, Decoded(w)>> \/ list = <<Decoded(w), cs>>
        PROVE  list[i] \in {cs, Decoded(w)}
    BY <2>3, <2>7
  <2> QED
    BY <2>3, <2>4, <2>5, <2>6, <2>7 DEF Lists
<1> QED
  BY <1>1, <1>2 DEF Fields

(* What is read back from a header is loaded.                              *)
LEMMA ReadBackEffect ==
  ASSUME TypeOK, ReadBack
  PROVE  Loaded(cs, cs')
<1>1. PICK f \in Fields :
        LET read == GetCounterSignatures(f)
        IN read.ok /\ \E i \in DOMAIN read.msg : cs' = read.msg[i]
  BY DEF ReadBack
<1>2. f # None /\ f # Malformed
  BY <1>1 DEF GetCounterSignatures, CounterSignaturesFromValue, Ok, Err
<1>3. f \in FieldForm
  BY <1>2, FieldsForm
<1>4. /\ f.items \in Seq(ValueForm)
      /\ GetCounterSignatures(f).msg
           = [i \in DOMAIN f.items |-> Decoded(f.items[i])]
  BY <1>1, <1>3, GetEffect
<1>5. PICK i \in DOMAIN f.items :
        f.items[i] \in ValueForm /\ cs' = Decoded(f.items[i])
  BY <1>1, <1>4
<1>6. f.items[i] \in ForeignValue \cup {ToValue(cs)}
  BY <1>2, <1>5, DecodedValue, ItemsOfFields
<1>7. CASE f.items[i] = ToValue(cs)
  BY <1>5, <1>7 DEF Loaded, Decoded, ToValue
<1>8. CASE f.items[i] \in ForeignValue
  <2>1. PICK raw \in ForeignRaw, s \in Signer, target \in Target, aad \in Aad :
          f.items[i] = [protected |-> raw, unprotected |-> EmptyHeader,
                        signature |-> Sig(s.key, ToBeSigned(target, raw, aad))]
    BY <1>8 DEF ForeignValue
  <2>2. SignatureCovers(Sig(s.key, ToBeSigned(target, raw, aad)), raw)
    BY SigCovers, CounterSignatureConstants
  <2> QED
    BY <1>5, <2>1, <2>2 DEF Loaded, Decoded
<1> QED
  BY <1>6, <1>7, <1>8

(* A countersignature is an authenticated layer: its protected bytes are   *)
(* frozen while a signature over them is pending or stored, and a          *)
(* signature is stored only while the public header denotes them           *)
(* (countersign.rs, prepare_signature, set_signature and sign).            *)
THEOREM Refinement == Spec => ImplementsAuthLayer
<1> USE DEF BytesDenote, BytesFresh
<1>1. Init => Layer!Init
  BY DEF Init, New, Layer!Init
<1>2. TypeOK /\ [Next]_vars => [Layer!Next]_(Layer!layer)
  <2> SUFFICES ASSUME TypeOK, [Next]_vars
               PROVE  [Layer!Next]_(Layer!layer)
    OBVIOUS
  <2> USE DEF Layer!Next
  <2>1. cs \in CounterSignatures
        /\ requests \subseteq [key : Key, tbs : SigStructure]
    BY DEF TypeOK
  <2>2. Untouched(cs, cs') => [Layer!Next]_(Layer!layer)
    BY DEF Untouched, Layer!Edit
  <2>3. Prepared(cs') => [Layer!Next]_(Layer!layer)
    BY DEF Prepared, Layer!Prepare
  <2>4. Stored(cs, cs') => [Layer!Next]_(Layer!layer)
    BY DEF Stored, Layer!Store
  <2>5. Completed(cs') => [Layer!Next]_(Layer!layer)
    BY DEF Completed, Layer!Produce
  <2>6. Loaded(cs, cs') => [Layer!Next]_(Layer!layer)
    BY DEF Loaded, Layer!Load
  <2>7. CASE NewCounterSignature
    BY <2>7 DEF NewCounterSignature, New, Layer!Renew, Layer!Init
  <2>8. CASE EditProtected \/ EditUnprotected
    <3>1. Untouched(cs, cs')
      BY <2>1, <2>8
      DEF EditProtected, EditUnprotected, CounterSignatures, Untouched
    <3> QED
      BY <2>2, <3>1
  <2>9. CASE Prepare
    <3>1. PICK s \in Signer : cs' = PrepareSignature(cs, s.alg, s.kid).msg
      BY <2>9 DEF Prepare
    <3> QED
      BY <2>1, <2>2, <2>3, <3>1, PrepareSignatureEffect
  <2>10. CASE StoreSignature
    <3>1. PICK sig \in Answers \cup {None} : cs' = SetSignature(cs, sig).msg
      BY <2>10 DEF StoreSignature
    <3>2. \A tbs \in SigStructure : SlotStructure(tbs) \in SigStructure
      BY DEF SlotStructure, SigStructure
    <3>3. sig \in Signature \cup {None}
      BY <2>1, <3>1, <3>2, SigType DEF Answers
    <3>4. Stored(cs, cs') \/ Untouched(cs, cs')
      BY <2>1, <3>1, <3>3, SetSignatureEffect DEF Untouched
    <3> QED
      BY <2>2, <2>4, <3>4
  <2>11. CASE LoseRequest
    <3>1. Untouched(cs, cs')
      BY <2>11 DEF LoseRequest, Untouched
    <3> QED
      BY <2>2, <3>1
  <2>12. CASE SignInProcess
    BY <2>1, <2>2, <2>3, <2>5, <2>12, SignEffect DEF SignInProcess
  <2>13. CASE ReadBack
    BY <2>6, <2>13, ReadBackEffect
  <2>14. CASE UNCHANGED vars
    <3>1. Untouched(cs, cs')
      BY <2>14 DEF vars, Untouched
    <3> QED
      BY <2>2, <3>1
  <2> QED
    BY <2>7, <2>8, <2>9, <2>10, <2>11, <2>12, <2>13, <2>14 DEF Next
<1> QED
  BY <1>1, <1>2, TypeCorrect, PTL DEF Spec, ImplementsAuthLayer, Layer!Spec
=============================================================================
