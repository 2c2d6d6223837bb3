-------------------------- MODULE CounterSignature --------------------------
(***************************************************************************)
(* Legacy full countersignatures (src/src/countersign.rs) and the header   *)
(* parameter that carries them (label 7, src/src/header.rs): one           *)
(* countersignature object, made in process, by a remote service or read   *)
(* from the header of a host message, and the fields it travels in.        *)
(*                                                                         *)
(* A countersignature covers the protected bytes and the body of a target  *)
(* that only its caller knows, so signing and verifying take any target.   *)
(* The same keys also sign the slots of COSE_Sign messages, over a         *)
(* structure of the same shape with another context string: such a         *)
(* signature may be handed to set_signature as well.                       *)
(***************************************************************************)
EXTENDS CoseHeader, FiniteSets

CONSTANTS
  Body,              \* third fields of targets: payloads, ciphertexts, ...
  Target,            \* records [raw, body]: the layers countersigned
  Aad,               \* external additional authenticated data
  Key,               \* signing keys
  Signer,            \* records [key, alg, kid]: the Signer implementations
  Verifier,          \* records [key, alg, understood]: the Verifier ones
  ProtectedEdit,     \* headers the application writes to the protected field
  UnprotectedEdit,   \* headers it writes to the unprotected field
  ForeignRaw,        \* protected bytes of countersignatures from elsewhere
  MaxRequests        \* bound: remote signing requests outstanding at once

ASSUME CounterSignatureConstants ==
  /\ Target \subseteq [raw : ProtectedRaw, body : Body]
  /\ Signer \subseteq [key : Key, alg : Alg \cup {None}, kid : Kid \cup {None}]
  /\ Verifier \subseteq
       [key : Key, alg : Alg \cup {None}, understood : SUBSET Label]
  /\ ProtectedEdit \cup UnprotectedEdit \subseteq Header
  /\ ForeignRaw \subseteq ProtectedRaw
  /\ MaxRequests \in Nat

VARIABLES
  cs,        \* the countersignature object
  requests   \* Sig_structures handed to the remote signer

vars == <<cs, requests>>

SigStructure ==
  {"CounterSignature", "Signature"} \X ProtectedRaw \X ProtectedRaw
    \X Aad \X Body
Signature == [by : Key, over : SigStructure]
ASSUME NoneIsNoCounterSignature == None \notin Signature

(* Values of countersignatures that have the right form, and of the field  *)
(* that carries them; None is the absent field, Malformed any other value. *)
ValueForm ==
  [protected : ProtectedRaw, unprotected : Header,
   signature : Signature \cup {None}]
FieldForm == [single : BOOLEAN, items : Seq(ValueForm \cup {Malformed})]
ASSUME OtherValuesHaveNoForm ==
  \A x \in {None, Malformed} : x \notin ValueForm /\ x \notin FieldForm

CounterSignatures ==
  [protected : Header, unprotected : Header, signature : Signature \cup {None},
   protected_raw : ProtectedRaw, state : State]

\* Faulty variant: the context of an ordinary signature slot.
ToBeSigned_SlotContext(target, raw, aad) ==
  <<"Signature", target.raw, raw, aad, target.body>>

ToBeSigned(target, raw, aad) ==
  <<"CounterSignature", target.raw, raw, aad, target.body>>

Sig(key, tbs) == [by |-> key, over |-> tbs]

-----------------------------------------------------------------------------
(* CounterSignature::new                                                   *)
New == [protected |-> EmptyHeader, unprotected |-> EmptyHeader,
        signature |-> None, protected_raw |-> EncodeProtected(EmptyHeader),
        state |-> "New"]

PrepareSignature(c, alg, kid) ==
  LET h == PrepareHeaders(c, alg, kid)
  IN IF h.ok THEN Ok([h.msg EXCEPT !.signature = None, !.state = "Prepared",
                        !.protected_raw = EncodeProtected(h.msg.protected)])
             ELSE h

SetSignature(c, sig) ==
  LET s == SyncProtectedRaw(c)
  IN IF s.ok THEN Ok([s.msg EXCEPT !.signature = sig, !.state = "Complete"])
             ELSE s

(* sign; "available" is whether Signer::sign returns Ok.                   *)
Sign(c, s, target, aad, available) ==
  LET p == PrepareSignature(c, s.alg, s.kid)
      tbs == ToBeSigned(target, p.msg.protected_raw, aad)
  IN IF ~ p.ok THEN p
     ELSE IF ~ available THEN Err(p.msg)
     ELSE Ok([p.msg EXCEPT !.signature = Sig(s.key, tbs),
                           !.state = "Complete"])

Verify(c, v, target, aad) ==
  /\ c.state = "Complete"
  /\ ValidateLayer(c)
  /\ EnsureCritUnderstood(c.protected, v.understood)
  /\ CheckProtectedAlg(c, v.alg)
  /\ c.signature = Sig(v.key, ToBeSigned(target, c.protected_raw, aad))

-----------------------------------------------------------------------------
(* The value of one countersignature, an array of three fields; Malformed  *)
(* stands for every other array and for anything that is not an array.     *)
ToValue(c) == [protected |-> c.protected_raw, unprotected |-> c.unprotected,
               signature |-> c.signature]

\* Faulty variant: does not recheck the public headers before encoding.
HasValue_Unchecked(c) == c.state = "Complete"

HasValue(c) == c.state = "Complete" /\ ValidateLayer(c)

Decoded(w) ==
  [protected |-> DecodeProtected(w.protected), unprotected |-> w.unprotected,
   signature |-> w.signature, protected_raw |-> w.protected,
   state |-> "Complete"]

FromValue(w) ==
  IF w # Malformed /\ Decodable(w.protected)
       /\ ValidateHeaderBuckets(Decoded(w))
  THEN Ok(Decoded(w)) ELSE Err(None)

(* The value of label 7: one countersignature, or an array of them.  The   *)
(* two are told apart by the first item, a byte string or an array.        *)
One(w) == [single |-> TRUE, items |-> <<w>>]
Many(ws) == [single |-> FALSE, items |-> ws]

(* Header::counter_signatures on a field that is there: every member is    *)
(* read, or the call fails.                                                *)
CounterSignaturesFromValue(f) ==
  IF f = Malformed \/ f.items = << >> THEN Err(<< >>)
  ELSE IF \E i \in DOMAIN f.items : ~ FromValue(f.items[i]).ok THEN Err(<< >>)
  ELSE Ok([i \in DOMAIN f.items |-> FromValue(f.items[i]).msg])

(* Header::set_counter_signatures: the new value of the field.             *)
SetCounterSignatures(f, list) ==
  IF list = << >> THEN Ok(None)
  ELSE IF \E i \in DOMAIN list : ~ HasValue(list[i]) THEN Err(f)
  ELSE Ok(IF Len(list) = 1 THEN One(ToValue(list[1]))
          ELSE Many([i \in DOMAIN list |-> ToValue(list[i])]))

(* Header::counter_signatures                                              *)
GetCounterSignatures(f) ==
  IF f = None THEN Ok(<< >>) ELSE CounterSignaturesFromValue(f)

-----------------------------------------------------------------------------
(* Actions.                                                                *)
Init == cs = New /\ requests = {}

NewCounterSignature == cs' = New /\ UNCHANGED requests

(* Writes to the public fields.                                            *)
EditProtected ==
  /\ \E h \in ProtectedEdit : cs' = [cs EXCEPT !.protected = h]
  /\ UNCHANGED requests

EditUnprotected ==
  /\ \E h \in UnprotectedEdit : cs' = [cs EXCEPT !.unprotected = h]
  /\ UNCHANGED requests

Prepare ==
  \E s \in Signer, target \in Target, aad \in Aad :
    LET p == PrepareSignature(cs, s.alg, s.kid)
        tbs == ToBeSigned(target, p.msg.protected_raw, aad)
    IN /\ cs' = p.msg
       /\ requests' = IF p.ok THEN requests \cup {[key |-> s.key, tbs |-> tbs]}
                              ELSE requests
       /\ Cardinality(requests') <= MaxRequests

(* What the remote signer of a request may hand back: the answer, or a     *)
(* signature it made for a slot of a COSE_Sign message over the same       *)
(* target.  The request stays, so an answer can come twice.                *)
SlotStructure(tbs) == <<"Signature", tbs[2], tbs[3], tbs[4], tbs[5]>>

Answers ==
  {Sig(r.key, r.tbs) : r \in requests} \cup
  {Sig(r.key, SlotStructure(r.tbs)) : r \in requests}

StoreSignature ==
  /\ \E sig \in Answers \cup {None} : cs' = SetSignature(cs, sig).msg
  /\ UNCHANGED requests

(* The remote call is lost, or its caller gives up on it.                  *)
LoseRequest ==
  /\ \E r \in requests : requests' = requests \ {r}
  /\ UNCHANGED cs

SignInProcess ==
  /\ \E s \in Signer, target \in Target, aad \in Aad, available \in BOOLEAN :
       cs' = Sign(cs, s, target, aad, available).msg
  /\ UNCHANGED requests

(* Countersignatures made elsewhere over bytes this crate would not have   *)
(* chosen, and the fields that carry them, malformed ones included.        *)
ForeignValue ==
  {[protected |-> raw, unprotected |-> EmptyHeader,
    signature |-> Sig(s.key, ToBeSigned(target, raw, aad))] :
      raw \in ForeignRaw, s \in Signer, target \in Target, aad \in Aad}

ForeignField ==
  {Malformed, Many(<< >>)} \cup {One(w) : w \in ForeignValue} \cup
  {Many(<<w, Malformed>>) : w \in ForeignValue} \cup
  {Many(<<w, x>>) : w, x \in ForeignValue}

(* The lists the application stores: the object, alone or with one that    *)
(* came from elsewhere, in either order.                                   *)
Lists ==
  {<< >>, <<cs>>} \cup
  UNION {{<<cs, Decoded(w)>>, <<Decoded(w), cs>>} : w \in ForeignValue}

(* A host message comes back from the wire, this application's or another. *)
Fields ==
  ForeignField \cup {SetCounterSignatures(None, list).msg : list \in Lists}

ReadBack ==
  /\ \E f \in Fields :
       LET read == GetCounterSignatures(f)
       IN read.ok /\ \E i \in DOMAIN read.msg : cs' = read.msg[i]
  /\ UNCHANGED requests

Next ==
  \/ NewCounterSignature
  \/ EditProtected
  \/ EditUnprotected
  \/ Prepare
  \/ StoreSignature
  \/ LoseRequest
  \/ SignInProcess
  \/ ReadBack

Spec == Init /\ [][Next]_vars

-----------------------------------------------------------------------------
(* Type correctness of the object and the requests (countersign.rs, struct *)
(* CounterSignature).                                                      *)
TypeOK ==
  /\ cs \in CounterSignatures
  /\ requests \subseteq [key : Key, tbs : SigStructure]

(* Whatever verify accepts for a target was signed, as a countersignature  *)
(* over that very target, by the verifier's key and over a header that     *)
(* reads as the caller reads it: no answer to an earlier preparation, no   *)
(* signature made for a slot of a COSE_Sign message, no countersignature   *)
(* of another target and no edited header is ever accepted.                *)
AcceptedIsWhatWasCountersigned ==
  \A v \in Verifier, target \in Target, aad \in Aad :
    Verify(cs, v, target, aad) =>
      /\ cs.signature # None
      /\ cs.signature.by = v.key
      /\ LET tbs == cs.signature.over
         IN /\ tbs[1] = "CounterSignature"
            /\ [raw |-> tbs[2], body |-> tbs[5]] = target
            /\ DecodeProtected(tbs[3]) = cs.protected
            /\ tbs[4] = aad

(* Countersignatures travel whole.  A list that set_counter_signatures     *)
(* stores is read back as it was, whatever the field held before, one      *)
(* countersignature or many; a list it refuses leaves the field alone; and *)
(* what a foreign field reads as has every member of the field, with the   *)
(* bytes and the signature it came with.                                   *)
CountersignaturesTravel ==
  /\ \A list \in Lists,
        f \in {None, Malformed} \cup {One(w) : w \in ForeignValue} :
       LET stored == SetCounterSignatures(f, list)
       IN IF stored.ok THEN GetCounterSignatures(stored.msg) = Ok(list)
                       ELSE stored.msg = f
  /\ \A f \in Fields \ {None} :
       LET read == GetCounterSignatures(f)
       IN read.ok =>
            /\ Len(read.msg) = Len(f.items)
            /\ \A i \in DOMAIN f.items : ToValue(read.msg[i]) = f.items[i]

(* A countersignature implements the promise of an authenticated layer,    *)
(* whatever its target does meanwhile: its bytes are frozen while a        *)
(* signature over them is pending or stored, and one is stored only while  *)
(* the public header denotes them (countersign.rs, set_signature).         *)
BytesDenote(raw, view) == DecodeProtected(raw) = view
BytesFresh(raw, view) == raw = EncodeProtected(view)
SignatureCovers(sig, raw) == sig # None /\ sig.over[3] = raw

Layer == INSTANCE AuthLayer WITH
  NoResult <- None, Start <- EmptyHeader, Denotes <- BytesDenote,
  Fresh <- BytesFresh, Covers <- SignatureCovers,
  view <- cs.protected, bytes <- cs.protected_raw,
  result <- cs.signature, phase <- cs.state

ImplementsAuthLayer == Layer!Spec
=============================================================================
