----------------------------- MODULE CoseHeader -----------------------------
(***************************************************************************)
(* COSE header maps and the header handling shared by every message type   *)
(* (src/src/header.rs, src/src/util.rs).                                   *)
(*                                                                         *)
(* A header maps every label to its value, or to None when it is absent.   *)
(* Only what the code branches on is kept of a value: an algorithm or a    *)
(* key identifier is an opaque value, crit is a sequence of labels, and    *)
(* Malformed stands for any value of a CBOR type the label does not allow. *)
(*                                                                         *)
(* A protected byte string is the header it decodes to together with       *)
(* whether it is the canonical encoding: bytes decoded from the wire may   *)
(* be another encoding of the same map (the one-byte empty map instead of  *)
(* the zero-length string, unsorted keys, long integers), and those bytes, *)
(* not the canonical ones, are what was signed.                            *)
(*                                                                         *)
(* A "layer" m is any record with the fields protected, unprotected,       *)
(* protected_raw and state: a whole message, or one signature slot.        *)
(***************************************************************************)
EXTENDS Naturals, Sequences

CONSTANTS
  None,         \* Rust's Option::None, and an empty result buffer
  Malformed,    \* a header value of a type its label does not allow
  Label,        \* the header labels of the instance
  HeaderValue,  \* the header values of the instance
  Alg,          \* algorithm identifiers
  Kid           \* key identifiers

ASSUME HeaderConstants ==
  /\ {"alg", "kid"} \subseteq Label
  /\ Alg \cup Kid \subseteq HeaderValue
  /\ None \notin HeaderValue
  /\ None \notin {0, 1}     \* the ranks of kid_match_rank

(* Labels the crate interprets itself, whose value types it checks.        *)
TypedLabel == {"alg", "ctype", "kid", "iv", "piv", "crit"}

(* header::is_understood_header: labels that need not be negotiated.       *)
UnderstoodLabel == TypedLabel \cup {"csig"}

Header == [Label -> HeaderValue \cup {None}]
ProtectedRaw == [hdr : Header, canon : BOOLEAN]
State == {"New", "Prepared", "Complete"}

EmptyHeader == [l \in Label |-> None]

(* Map insertion and removal, as CoseMap::insert and CoseMap::remove.      *)
With(h, l, v) == [h EXCEPT ![l] = v]
Without(h, l) == [h EXCEPT ![l] = None]

(* The labels present, and the value of a label.                           *)
Present(h) == {l \in Label : h[l] # None}
Get(h, l) == IF l \in Label THEN h[l] ELSE None

Elements(seq) == {seq[i] : i \in DOMAIN seq}
Distinct(seq) == \A i, j \in DOMAIN seq : seq[i] = seq[j] => i = j

-----------------------------------------------------------------------------
(* Validation of one bucket and of a pair of buckets.                      *)

ValidateCommon(h) ==
  /\ \A l \in Present(h) \cap TypedLabel : h[l] # Malformed
  /\ ~ ({"iv", "piv"} \subseteq Present(h))
  /\ "crit" \in Present(h) =>
       /\ h["crit"] # << >>
       /\ Distinct(h["crit"])
       /\ Elements(h["crit"]) \subseteq Present(h)

ValidateHeaderBuckets(m) ==
  /\ ValidateCommon(m.protected)
  /\ "crit" \notin Present(m.unprotected)
  /\ ValidateCommon(m.unprotected)
  /\ Present(m.protected) \cap Present(m.unprotected) = {}
  /\ ~ ({"iv", "piv"} \subseteq Present(m.protected) \cup Present(m.unprotected))

(* RFC 9052 section 3.1 critical headers.  A critical legacy               *)
(* countersignature is always parsed, whatever the caller understands.     *)
EnsureCritUnderstood(h, understood) ==
  /\ ValidateCommon(h)
  /\ "crit" \in Present(h) =>
       \A l \in Elements(h["crit"]) :
         IF l = "csig" THEN h[l] # Malformed
                       ELSE l \in UnderstoodLabel \cup understood

-----------------------------------------------------------------------------
(* The protected byte string.                                              *)

(* header::encode_protected: zero bytes for the empty header, otherwise    *)
(* the canonical map, whose serializer validates it first.                 *)
Encodable(h) == Present(h) = {} \/ ValidateCommon(h)
EncodeProtected(h) == [hdr |-> h, canon |-> TRUE]

Decodable(raw) == ValidateCommon(raw.hdr)
DecodeProtected(raw) == raw.hdr

(* The public view still denotes the bytes: equal bytes, or equal meaning  *)
(* when the bytes are a non-canonical encoding kept from the wire.         *)
ValidateProtectedState(h, raw) ==
  /\ Encodable(h)
  /\ \/ EncodeProtected(h) = raw
     \/ /\ Decodable(raw)
        /\ EncodeProtected(DecodeProtected(raw)) = EncodeProtected(h)

\* Faulty variant: accepts any view whose buckets are valid.
ValidateLayer_IgnoresView(m) == ValidateHeaderBuckets(m)

ValidateLayer(m) ==
  /\ ValidateHeaderBuckets(m)
  /\ ValidateProtectedState(m.protected, m.protected_raw)

-----------------------------------------------------------------------------
(* Steps that may fail: each returns whether the Rust call returned Ok and *)
(* the layer as the call leaves it, mutated fields included when it fails. *)

Ok(m) == [ok |-> TRUE, msg |-> m]
Err(m) == [ok |-> FALSE, msg |-> m]

(* util::ensure_protected_alg: an alg already declared must agree; one     *)
(* declared only in the unprotected bucket moves to the protected one.     *)
EnsureProtectedAlg(m, alg) ==
  IF alg = None THEN Ok(m)
  ELSE IF m.protected["alg"] # None
       THEN [ok |-> m.protected["alg"] = alg, msg |-> m]
  ELSE IF m.unprotected["alg"] \notin {None, alg} THEN Err(m)
  ELSE Ok([m EXCEPT !.protected = With(@, "alg", alg),
                    !.unprotected = Without(@, "alg")])

(* util::ensure_unprotected_kid                                            *)
EnsureUnprotectedKid(m, kid) ==
  IF kid = None THEN Ok(m)
  ELSE IF m.protected["kid"] = Malformed THEN Err(m)
  ELSE IF "kid" \in Present(m.protected) \cup Present(m.unprotected) THEN Ok(m)
  ELSE Ok([m EXCEPT !.unprotected = With(@, "kid", kid)])

(* util::prepare_headers, whose result bytes are EncodeProtected of the    *)
(* protected header it leaves.  The buckets are written before they are    *)
(* validated, so a failing call can leave them changed.                    *)
PrepareHeaders(m, alg, kid) ==
  LET a == EnsureProtectedAlg(m, alg)
      k == EnsureUnprotectedKid(a.msg, kid)
  IN IF ~ a.ok THEN a
     ELSE IF ~ k.ok THEN k
     ELSE [ok |-> ValidateHeaderBuckets(k.msg), msg |-> k.msg]

\* Faulty variant: refreshes the bytes from the view also when they were already prepared.
SyncProtectedRaw_AlwaysEncodes(m) ==
  IF ValidateHeaderBuckets(m)
  THEN Ok([m EXCEPT !.protected_raw = EncodeProtected(m.protected)])
  ELSE Err(m)

(* util::sync_protected_raw: prepared bytes are rechecked and kept, a      *)
(* layer that was never prepared is encoded now.                           *)
SyncProtectedRaw(m) ==
  IF m.state # "New" THEN [ok |-> ValidateLayer(m), msg |-> m]
  ELSE IF ValidateHeaderBuckets(m)
       THEN Ok([m EXCEPT !.protected_raw = EncodeProtected(m.protected)])
       ELSE Err(m)

(* util::check_protected_alg: the protected alg wins over the unprotected  *)
(* one, and an alg missing on either side is no mismatch.                  *)
DeclaredAlg(m) ==
  IF m.protected["alg"] # None THEN m.protected["alg"]
                               ELSE m.unprotected["alg"]
CheckProtectedAlg(m, alg) == alg = None \/ DeclaredAlg(m) \in {None, alg}

\* Faulty variant: only equal identifiers make a candidate.
KidMatchRank_NeedsBoth(kid, verifierKid) ==
  IF kid # None /\ kid = verifierKid THEN 0 ELSE None

(* util::kid_match_rank: 0 for equal identifiers, 1 when either side has   *)
(* none, None when the verifier is no candidate.                           *)
KidMatchRank(kid, verifierKid) ==
  IF None \in {kid, verifierKid} THEN 1
  ELSE IF kid = verifierKid THEN 0 ELSE None
=============================================================================
