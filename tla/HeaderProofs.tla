---------------------------- MODULE HeaderProofs ----------------------------
(***************************************************************************)
(* Facts about the header handling that every message type shares, and     *)
(* about recipients, for the proofs about those types.                     *)
(***************************************************************************)
EXTENDS Recipients, TLAPS, FiniteSetTheorems, SequenceTheorems

(* A set of layers of any record type that writes to the two header        *)
(* buckets do not leave: what holds of all its members cannot depend on    *)
(* the buckets.                                                            *)
ClosedUnderEdits(M) ==
  \A m \in M :
    /\ m.protected \in Header /\ m.unprotected \in Header
    /\ \A h \in Header :
         /\ [m EXCEPT !.protected = h] \in M
         /\ [m EXCEPT !.protected = h].protected = h
         /\ [m EXCEPT !.unprotected = h] \in M
         /\ [m EXCEPT !.unprotected = h].protected = m.protected

LEMMA EmptyHeaderType == EmptyHeader \in Header /\ ValidateCommon(EmptyHeader)
<1>1. EmptyHeader \in Header /\ Present(EmptyHeader) = {}
  BY DEF EmptyHeader, Header, Present
<1>2. ~ ({"iv", "piv"} \subseteq {})
  OBVIOUS
<1> QED
  BY <1>1, <1>2 DEF ValidateCommon

LEMMA HeaderUpdates ==
  ASSUME NEW h \in Header, NEW l \in Label, NEW v \in HeaderValue
  PROVE  With(h, l, v) \in Header /\ Without(h, l) \in Header
BY DEF Header, With, Without

LEMMA EncodeProtectedType ==
  ASSUME NEW h \in Header
  PROVE  /\ EncodeProtected(h) \in ProtectedRaw
         /\ EncodeProtected(h).hdr = h /\ EncodeProtected(h).canon
BY DEF EncodeProtected, ProtectedRaw

LEMMA DecodeProtectedType ==
  ASSUME NEW raw \in ProtectedRaw
  PROVE  DecodeProtected(raw) \in Header
BY DEF DecodeProtected, ProtectedRaw

(* A view that agrees with the bytes is what the bytes decode to.          *)
LEMMA ViewOfValidBytes ==
  ASSUME NEW h, NEW raw, ValidateProtectedState(h, raw)
  PROVE  DecodeProtected(raw) = h
BY DEF ValidateProtectedState, EncodeProtected, DecodeProtected

(* ensure_protected_alg and ensure_unprotected_kid write buckets only.     *)
LEMMA EnsureProtectedAlgKeeps ==
  ASSUME NEW M, ClosedUnderEdits(M), NEW m \in M, NEW alg \in Alg \cup {None}
  PROVE  LET a == EnsureProtectedAlg(m, alg)
         IN /\ a.msg \in M /\ a.ok \in BOOLEAN
            /\ a.ok => alg = None \/ a.msg.protected["alg"] = alg
<1> DEFINE n == [m EXCEPT !.protected = With(@, "alg", alg),
                          !.unprotected = Without(@, "alg")]
<1>1. CASE EnsureProtectedAlg(m, alg) = Ok(n) /\ alg \in Alg
  <2>1. m.protected \in Header /\ m.unprotected \in Header
    BY DEF ClosedUnderEdits
  <2>2. With(m.protected, "alg", alg) \in Header
        /\ Without(m.unprotected, "alg") \in Header
    BY <1>1, <2>1, HeaderUpdates, HeaderConstants
  <2>3. n \in M /\ n.protected = With(m.protected, "alg", alg)
    BY <2>2 DEF ClosedUnderEdits
  <2>4. With(m.protected, "alg", alg)["alg"] = alg
    BY <2>1, HeaderConstants DEF With, Header
  <2>5. Ok(n).ok = TRUE /\ Ok(n).msg = n
    BY DEF Ok
  <2> HIDE DEF n
  <2> QED
    BY <1>1, <2>3, <2>4, <2>5
<1>2. CASE /\ EnsureProtectedAlg(m, alg).msg = m
           /\ EnsureProtectedAlg(m, alg).ok \in BOOLEAN
           /\ EnsureProtectedAlg(m, alg).ok =>
                alg = None \/ m.protected["alg"] = alg
  BY <1>2
<1> QED
  BY <1>1, <1>2 DEF EnsureProtectedAlg, Ok, Err

LEMMA EnsureUnprotectedKidKeeps ==
  ASSUME NEW M, ClosedUnderEdits(M), NEW m \in M, NEW kid \in Kid \cup {None}
  PROVE  LET k == EnsureUnprotectedKid(m, kid)
         IN /\ k.msg \in M /\ k.ok \in BOOLEAN
            /\ k.msg.protected = m.protected
<1> DEFINE n == [m EXCEPT !.unprotected = With(@, "kid", kid)]
<1>1. CASE EnsureUnprotectedKid(m, kid) = Ok(n) /\ kid \in Kid
  <2>1. m.unprotected \in Header
    BY DEF ClosedUnderEdits
  <2>2. With(m.unprotected, "kid", kid) \in Header
    BY <1>1, <2>1, HeaderUpdates, HeaderConstants
  <2>3. n \in M /\ n.protected = m.protected
    BY <2>2 DEF ClosedUnderEdits
  <2>5. Ok(n).ok = TRUE /\ Ok(n).msg = n
    BY DEF Ok
  <2> HIDE DEF n
  <2> QED
    BY <1>1, <2>3, <2>5
<1>2. CASE EnsureUnprotectedKid(m, kid).msg = m
           /\ EnsureUnprotectedKid(m, kid).ok \in BOOLEAN
  BY <1>2
<1> QED
  BY <1>1, <1>2 DEF EnsureUnprotectedKid, Ok, Err

(* prepare_headers writes buckets only.  When it succeeds they are valid   *)
(* and declare the algorithm.                                              *)
LEMMA PrepareHeadersKeeps ==
  ASSUME NEW M, ClosedUnderEdits(M), NEW m \in M,
         NEW alg \in Alg \cup {None}, NEW kid \in Kid \cup {None}
  PROVE  LET h == PrepareHeaders(m, alg, kid)
         IN /\ h.msg \in M /\ h.ok \in BOOLEAN
            /\ h.ok => /\ ValidateHeaderBuckets(h.msg)
                       /\ CheckProtectedAlg(h.msg, alg)
<1> DEFINE a == EnsureProtectedAlg(m, alg)
           k == EnsureUnprotectedKid(a.msg, kid)
           h == PrepareHeaders(m, alg, kid)
<1>1. /\ a.msg \in M /\ a.ok \in BOOLEAN
      /\ a.ok => alg = None \/ a.msg.protected["alg"] = alg
  BY EnsureProtectedAlgKeeps
<1>2. k.msg \in M /\ k.ok \in BOOLEAN
      /\ k.msg.protected = a.msg.protected
  BY <1>1, EnsureUnprotectedKidKeeps
<1>3. h = IF ~ a.ok THEN a ELSE IF ~ k.ok THEN k
          ELSE [ok |-> ValidateHeaderBuckets(k.msg), msg |-> k.msg]
  BY DEF PrepareHeaders
<1>4. ValidateHeaderBuckets(k.msg) \in BOOLEAN
  BY DEF ValidateHeaderBuckets
<1>5. a.ok => CheckProtectedAlg(k.msg, alg)
  BY <1>1, <1>2 DEF CheckProtectedAlg, DeclaredAlg
<1> HIDE DEF a, k, h
<1> QED
  BY <1>1, <1>2, <1>3, <1>4, <1>5 DEF h

-----------------------------------------------------------------------------
(* Forests of recipients.                                                  *)

LEMMA NoRecipientsForest ==
  /\ Forest(NoRecipients) /\ DOMAIN NoRecipients = {}
  /\ \A f : DOMAIN f = {} /\ f \in [{} -> {}] => f = NoRecipients
<1>1. DOMAIN << >> = {} /\ << >> \in [{} -> Recipient]
  <2>1. << >> \in Seq(Recipient) /\ Len(<< >>) = 0
    BY EmptySeq
  <2>2. 1 .. 0 = {}
    OBVIOUS
  <2> QED
    BY <2>1, <2>2, LenProperties
<1>2. \A f : DOMAIN f = {} /\ f \in [{} -> {}] => f = << >>
  BY <1>1
<1> QED
  BY <1>1, <1>2, FS_EmptySet DEF NoRecipients, Forest, Tree

(* Writing to a header of a recipient.                                     *)
LEMMA EditedForest ==
  ASSUME NEW rs, Forest(rs), NEW path \in DOMAIN rs, NEW h \in Header
  PROVE  Forest([rs EXCEPT ![path].protected = h])
<1> DEFINE ns == [rs EXCEPT ![path].protected = h]
<1>1. rs \in [DOMAIN rs -> Recipient]
  BY DEF Forest
<1>2. [rs[path] EXCEPT !.protected = h] \in Recipient
  BY <1>1 DEF Recipient
<1>3. ns \in [DOMAIN rs -> Recipient] /\ DOMAIN ns = DOMAIN rs
  BY <1>1, <1>2
<1> QED
  BY <1>3 DEF Forest, Tree

(* A path extended by one more step lies in the layer of the path.         *)
LEMMA ParentOfAppend ==
  ASSUME NEW path \in Seq(Nat \ {0}), NEW n \in Nat \ {0}
  PROVE  /\ Append(path, n) \in Seq(Nat \ {0})
         /\ Append(path, n) # << >>
         /\ Parent(Append(path, n)) = path
<1> DEFINE q == Append(path, n)
<1>1. /\ q \in Seq(Nat \ {0}) /\ Len(q) = Len(path) + 1
      /\ Len(path) \in Nat
      /\ \A i \in 1 .. Len(path) : q[i] = path[i]
  BY LenProperties
<1>2. q # << >>
  BY <1>1, EmptySeq
<1>3. \A i \in 1 .. Len(path) : q[i] \in Nat \ {0}
  BY <1>1, ElementOfSeq
<1> HIDE DEF q
<1>4. /\ SubSeq(q, 1, Len(path)) \in Seq(Nat \ {0})
      /\ Len(SubSeq(q, 1, Len(path))) = Len(path)
      /\ \A i \in 1 .. Len(path) : SubSeq(q, 1, Len(path))[i] = q[i]
  <2>1. /\ SubSeq(q, 1, Len(path)) \in Seq(Nat \ {0})
        /\ Len(SubSeq(q, 1, Len(path)))
             = IF 1 <= Len(path) THEN Len(path) - 1 + 1 ELSE 0
        /\ \A i \in 1 .. Len(path) - 1 + 1 :
             SubSeq(q, 1, Len(path))[i] = q[1 + i - 1]
    BY <1>1, <1>3, SubSeqProperties
  <2> QED
    BY <1>1, <2>1
<1>5. SubSeq(q, 1, Len(path)) = path
  BY <1>1, <1>4, SeqEqual
<1>6. Parent(q) = path
  BY <1>1, <1>5 DEF Parent
<1> QED
  BY <1>1, <1>2, <1>6 DEF q

(* Adding a recipient to a layer.                                          *)
LEMMA ExtendedForest ==
  ASSUME NEW rs, Forest(rs), NEW parent \in DOMAIN rs \cup {<< >>},
         NEW r \in Recipient
  PROVE  LET path == Append(parent, Cardinality(LayerOf(rs, parent)) + 1)
         IN Forest([q \in DOMAIN rs \cup {path} |->
                      IF q = path THEN r ELSE rs[q]])
<1> DEFINE n == Cardinality(LayerOf(rs, parent)) + 1
           path == Append(parent, n)
           ns == [q \in DOMAIN rs \cup {path} |->
                    IF q = path THEN r ELSE rs[q]]
<1>1. IsFiniteSet(LayerOf(rs, parent))
  BY FS_Subset DEF LayerOf, Forest, Tree
<1>2. n \in Nat \ {0}
  BY <1>1, FS_CardinalityType
<1>3. parent \in Seq(Nat \ {0})
  BY EmptySeq DEF Forest, Tree
<1> HIDE DEF n
<1>4. /\ path \in Seq(Nat \ {0}) /\ path # << >>
      /\ Parent(path) = parent
  BY <1>2, <1>3, ParentOfAppend
<1> HIDE DEF path
<1>5. ns \in [DOMAIN rs \cup {path} -> Recipient]
      /\ DOMAIN ns = DOMAIN rs \cup {path}
  BY DEF Forest
<1>6. IsFiniteSet(DOMAIN rs \cup {path})
  BY FS_AddElement DEF Forest, Tree
<1> HIDE DEF ns
<1>7. Tree(ns)
  BY <1>4, <1>5, <1>6 DEF Forest, Tree
<1>8. Forest(ns)
  BY <1>5, <1>7 DEF Forest
<1> QED
  BY <1>8 DEF ns, path, n

(* Decoding gives recipients with the bytes they came from.                *)
LEMMA DecodedForest ==
  ASSUME NEW ws, WireForest(ws)
  PROVE  /\ Forest(DecodedRecipients(ws))
         /\ DOMAIN DecodedRecipients(ws) = DOMAIN ws
<1>1. \A path \in DOMAIN ws : DecodedNode(ws[path]) \in Recipient
  BY DecodeProtectedType DEF WireForest, WireRecipient, DecodedNode, Recipient
<1>2. /\ DecodedRecipients(ws) \in [DOMAIN ws -> Recipient]
      /\ DOMAIN DecodedRecipients(ws) = DOMAIN ws
  BY <1>1 DEF DecodedRecipients
<1> QED
  BY <1>2 DEF Forest, WireForest, Tree

LEMMA EncodedForest ==
  ASSUME NEW rs, Forest(rs)
  PROVE  /\ WireForest(EncodedRecipients(rs))
         /\ DOMAIN EncodedRecipients(rs) = DOMAIN rs
<1>1. \A path \in DOMAIN rs : EncodedNode(rs[path]) \in WireRecipient
  BY EncodeProtectedType DEF Forest, WireRecipient, EncodedNode, Recipient
<1>2. /\ EncodedRecipients(rs) \in [DOMAIN rs -> WireRecipient]
      /\ DOMAIN EncodedRecipients(rs) = DOMAIN rs
  BY <1>1 DEF EncodedRecipients
<1> QED
  BY <1>2 DEF Forest, WireForest, Tree

-----------------------------------------------------------------------------
(* The wire.                                                               *)

(* No recipients are encoded as no recipients.                             *)
LEMMA NoRecipientsAcrossTheWire ==
  /\ EncodedRecipients(NoRecipients) = NoRecipients
  /\ DecodedRecipients(NoRecipients) = NoRecipients
<1> DEFINE e == EncodedRecipients(NoRecipients)
           d == DecodedRecipients(NoRecipients)
<1>1. DOMAIN NoRecipients = {}
  BY NoRecipientsForest
<1>2. e = [path \in {} |-> EncodedNode(NoRecipients[path])]
      /\ d = [path \in {} |-> DecodedNode(NoRecipients[path])]
  BY <1>1 DEF EncodedRecipients, DecodedRecipients
<1> HIDE DEF e, d
<1>3. /\ DOMAIN e = {} /\ e \in [{} -> {}]
      /\ DOMAIN d = {} /\ d \in [{} -> {}]
  BY <1>2
<1> QED
  BY <1>3, NoRecipientsForest DEF e, d

(* What validation reads of a recipient, besides its own bytes.            *)
SameNode(r, s) ==
  /\ r.protected = s.protected /\ r.unprotected = s.unprotected
  /\ r.ciphertext = s.ciphertext

LEMMA ValidateLocalOfSame ==
  ASSUME NEW rs, NEW ss, DOMAIN rs = DOMAIN ss,
         \A p \in DOMAIN rs : SameNode(rs[p], ss[p]),
         NEW path \in DOMAIN rs,
         ss[path].protected_raw # None =>
           ValidateProtectedState(ss[path].protected, ss[path].protected_raw),
         ValidateLocal(rs, path)
  PROVE  ValidateLocal(ss, path)
<1>1. SameNode(rs[path], ss[path])
  OBVIOUS
<1>2. /\ ClassOf(ss[path]) = ClassOf(rs[path])
      /\ DeclaredAlg(ss[path]) = DeclaredAlg(rs[path])
      /\ HasSaltOrNonce(ss[path]) = HasSaltOrNonce(rs[path])
      /\ HasSenderKey(ss[path]) = HasSenderKey(rs[path])
      /\ ValidateHeaderBuckets(ss[path]) = ValidateHeaderBuckets(rs[path])
  BY <1>1 DEF SameNode, ClassOf, DeclaredAlg, HasSaltOrNonce, HasSenderKey,
              HeaderOf, ValidateHeaderBuckets
<1>3. LayerOf(ss, path) = LayerOf(rs, path)
  BY DEF LayerOf
<1>4. \A q \in DOMAIN rs : ClassOf(ss[q]) = ClassOf(rs[q])
  BY DEF SameNode, ClassOf, DeclaredAlg
<1>5. ValidateLayerRules(ss, path) = ValidateLayerRules(rs, path)
  BY <1>3, <1>4 DEF ValidateLayerRules, LayerOf
<1> QED
  BY <1>1, <1>2, <1>3, <1>5 DEF ValidateLocal, SameNode

LEMMA ValidateLayerRulesOfSame ==
  ASSUME NEW rs, NEW ss, DOMAIN rs = DOMAIN ss,
         \A p \in DOMAIN rs : SameNode(rs[p], ss[p]), NEW path
  PROVE  ValidateLayerRules(ss, path) = ValidateLayerRules(rs, path)
<1>1. LayerOf(ss, path) = LayerOf(rs, path)
  BY DEF LayerOf
<1>2. \A q \in DOMAIN rs : ClassOf(ss[q]) = ClassOf(rs[q])
  BY DEF SameNode, ClassOf, DeclaredAlg
<1> QED
  BY <1>1, <1>2 DEF ValidateLayerRules, LayerOf

(* A recipient that validates crosses the wire unharmed.                   *)
LEMMA NodeAcrossTheWire ==
  ASSUME NEW rs, Forest(rs), NEW path \in DOMAIN rs, ValidateLocal(rs, path)
  PROVE  LET w == EncodedNode(rs[path])
         IN /\ Decodable(w.protected)
            /\ SameNode(rs[path], DecodedNode(w))
            /\ ValidateProtectedState(DecodedNode(w).protected, w.protected)
<1> DEFINE r == rs[path]
           w == EncodedNode(r)
<1>1. r \in Recipient
  BY DEF Forest
<1>2. ValidateCommon(r.protected)
  BY DEF ValidateLocal, ValidateHeaderBuckets
<1>3. w.protected.hdr = r.protected /\ Decodable(w.protected)
      /\ ValidateProtectedState(r.protected, w.protected)
  <2>1. CASE r.protected_raw = None
    BY <1>2, <2>1
    DEF EncodedNode, EncodeProtected, Decodable, ValidateProtectedState,
        Encodable
  <2>2. CASE r.protected_raw # None
    <3>1. ValidateProtectedState(r.protected, r.protected_raw)
          /\ w.protected = r.protected_raw
      BY <2>2 DEF ValidateLocal, EncodedNode
    <3>2. r.protected_raw.hdr = r.protected
      BY <3>1, ViewOfValidBytes DEF DecodeProtected
    <3> QED
      BY <1>2, <3>1, <3>2 DEF Decodable
  <2> QED
    BY <2>1, <2>2
<1>4. SameNode(r, DecodedNode(w))
  BY <1>3 DEF SameNode, DecodedNode, DecodeProtected, EncodedNode
<1> QED
  BY <1>3, <1>4 DEF SameNode

(* What validates decodes, if a parser reads that deep, to what the sender *)
(* saw: the two validations of recipients agree.                           *)
LEMMA EncodedDecodes ==
  ASSUME NEW rs, Forest(rs), ValidateRecipients(rs), Readable(rs)
  PROVE  CanDecodeRecipients(EncodedRecipients(rs))
<1> DEFINE ws == EncodedRecipients(rs)
           ss == DecodedRecipients(ws)
<1>1. /\ DOMAIN ws = DOMAIN rs /\ DOMAIN ss = DOMAIN rs
      /\ \A p \in DOMAIN rs : /\ ws[p] = EncodedNode(rs[p])
                              /\ ss[p] = DecodedNode(ws[p])
  BY DEF EncodedRecipients, DecodedRecipients
<1> HIDE DEF ws, ss
<1>2. \A p \in DOMAIN rs :
        /\ ValidateLocal(rs, p)
        /\ Decodable(ws[p].protected) /\ SameNode(rs[p], ss[p])
        /\ ValidateProtectedState(ss[p].protected, ws[p].protected)
  BY <1>1, NodeAcrossTheWire DEF ValidateRecipients
<1>3. \A p \in DOMAIN rs : ss[p].protected_raw = ws[p].protected
  BY <1>1 DEF DecodedNode
<1>4. ASSUME NEW p \in DOMAIN rs
      PROVE  ValidateLocal(ss, p)
  BY <1>1, <1>2, <1>3, ValidateLocalOfSame
<1>5. ValidateLayerRules(ss, << >>)
  BY <1>1, <1>2, ValidateLayerRulesOfSame DEF ValidateRecipients
<1>6. FitsParser(ws) /\ DOMAIN ws # {}
  BY <1>1 DEF Readable, ValidateRecipients, ws
<1>7. \A p \in DOMAIN ws :
        /\ Decodable(ws[p].protected)
        /\ ValidateLocal(DecodedRecipients(ws), p)
  BY <1>1, <1>2, <1>4 DEF ss
<1>8. CanDecodeRecipients(ws)
  BY <1>5, <1>6, <1>7 DEF CanDecodeRecipients, ss
<1> QED
  BY <1>8 DEF ws

(* The reader sees what the sender saw.                                    *)
LEMMA SeenAcrossTheWire ==
  ASSUME NEW rs, Forest(rs), \A p \in DOMAIN rs : ValidateLocal(rs, p)
  PROVE  Seen(DecodedRecipients(EncodedRecipients(rs))) = Seen(rs)
<1> DEFINE ss == DecodedRecipients(EncodedRecipients(rs))
<1>1. /\ DOMAIN ss = DOMAIN rs
      /\ \A p \in DOMAIN rs : ss[p] = DecodedNode(EncodedNode(rs[p]))
  BY DEF EncodedRecipients, DecodedRecipients
<1> HIDE DEF ss
<1>2. \A p \in DOMAIN rs : SameNode(rs[p], ss[p])
  BY <1>1, NodeAcrossTheWire
<1>3. Seen(ss) = Seen(rs)
  BY <1>1, <1>2 DEF Seen, SameNode
<1> QED
  BY <1>3 DEF ss

(* What decodes validates, and encodes to the same bytes.                  *)
LEMMA DecodedValidates ==
  ASSUME NEW ws, WireForest(ws), CanDecodeRecipients(ws)
  PROVE  ValidateRecipients(DecodedRecipients(ws))
<1>1. DOMAIN DecodedRecipients(ws) = DOMAIN ws
  BY DecodedForest
<1>2. ASSUME NEW path \in DOMAIN ws
      PROVE  Len(path) - 1 <= MaxRecipientDepth
  <2>1. Len(path) \in Nat
    BY LenProperties DEF WireForest, Tree
  <2>2. HeaderDepth(ws[path].unprotected) \in 0 .. 2
    BY DEF HeaderDepth
  <2>3. 2 * Len(path) + 1 + HeaderDepth(ws[path].unprotected) <= ParserDepth
    BY DEF CanDecodeRecipients, FitsParser
  <2> HIDE DEF HeaderDepth
  <2> QED
    BY <2>1, <2>2, <2>3, RecipientConstants
<1> QED
  BY <1>1, <1>2 DEF CanDecodeRecipients, ValidateRecipients

LEMMA DecodedEncodes ==
  ASSUME NEW ws, WireForest(ws), None \notin ProtectedRaw
  PROVE  EncodedRecipients(DecodedRecipients(ws)) = ws
<1> DEFINE rs == DecodedRecipients(ws)
<1>1. ASSUME NEW path \in DOMAIN ws
      PROVE  EncodedNode(DecodedNode(ws[path])) = ws[path]
  BY DEF WireForest, WireRecipient, EncodedNode, DecodedNode
<1>2. /\ DOMAIN rs = DOMAIN ws
      /\ \A path \in DOMAIN ws : rs[path] = DecodedNode(ws[path])
  BY DEF DecodedRecipients
<1> HIDE DEF rs
<1>3. EncodedRecipients(rs) = [path \in DOMAIN ws |-> ws[path]]
  BY <1>1, <1>2 DEF EncodedRecipients
<1>4. ws = [path \in DOMAIN ws |-> ws[path]]
  BY DEF WireForest
<1> QED
  BY <1>3, <1>4 DEF rs
=============================================================================
