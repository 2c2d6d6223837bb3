------------------------------ MODULE CwtToken ------------------------------
(***************************************************************************)
(* CWT claims sets and their validation (src/src/cwt.rs): a claims object  *)
(* with public fields, the claims map it is encoded to or decoded from,    *)
(* and validators that read either one while the clock moves.              *)
(*                                                                         *)
(* A claims map gives every claim key a CBOR value, or None.  Of a value   *)
(* its type and what the code compares are kept.                           *)
(***************************************************************************)
EXTENDS NumericDate, Sequences

CONSTANTS
  None,           \* Rust's Option::None
  Name,           \* strings: issuers, subjects, audiences; byte strings
  Private,        \* claim keys without a typed field
  ClaimsEdit,     \* claims objects the application writes
  ForeignMap,     \* claims maps received from elsewhere
  Options,        \* ValidatorOptions the application asks for
  MaxClockSkew,   \* MAX_CLOCK_SKEW_SECS
  MinClock,       \* bounds of the system clock, in parts of a second
  MaxClock

-----------------------------------------------------------------------------
(* CBOR values and claims maps.                                            *)
Text(x) == [t |-> "text", text |-> x]
ByteString(x) == [t |-> "bytes", bytes |-> x]
Int_(n) == [t |-> "int", int |-> n]
Float_(parts) == [t |-> "float", float |-> parts]
NaN == [t |-> "nan"]
ArrayOf(items) == [t |-> "array", items |-> items]

Scalar ==
  [t : {"text"}, text : Name] \cup [t : {"bytes"}, bytes : Name]
    \cup [t : {"int"}, int : CborInteger] \cup [t : {"float"}, float : Int]
    \cup {NaN}
Value == Scalar \cup [t : {"array"}, items : Seq(Scalar)]

Registered == {"iss", "sub", "aud", "exp", "nbf", "iat", "cti"}
ClaimsMap == [Registered \cup Private -> Value \cup {None}]
PresentIn(map) == {k \in DOMAIN map : map[k] # None}

(* Audience                                                                *)
One(x) == [form |-> "one", one |-> x]
Many(xs) == [form |-> "many", many |-> xs]
Audience ==
  [form : {"one"}, one : Name] \cup [form : {"many"}, many : Seq(Name)]
Contains(audience, expected) ==
  IF audience.form = "one" THEN audience.one = expected
  ELSE \E i \in DOMAIN audience.many : audience.many[i] = expected

Claims ==
  [issuer : Name \cup {None}, subject : Name \cup {None},
   audience : Audience \cup {None}, cwt_id : Name \cup {None},
   expiration : NumericDate \cup {None}, not_before : NumericDate \cup {None},
   issued_at : NumericDate \cup {None}, extra : ClaimsMap]

ValidatorOptions ==
  [expected_issuer : Name \cup {None}, expected_audience : Name \cup {None},
   allow_missing_expiration : BOOLEAN, expect_issued_in_the_past : BOOLEAN,
   clock_skew_secs : Nat, fixed_now : -U64Max .. U64Max \cup {None}]

ASSUME CwtConstants ==
  /\ None \notin NumericDate \cup Value
  /\ ClaimsEdit \subseteq Claims
  /\ ForeignMap \subseteq ClaimsMap
  /\ Options \subseteq ValidatorOptions
  /\ MaxClockSkew \in Nat /\ U64Max + MaxClockSkew <= I128Max
  /\ MinClock \in Int /\ MaxClock \in Int
  /\ -U64Max * Scale <= MinClock /\ 0 \in MinClock .. MaxClock
  /\ MaxClock <= U64Max * Scale

VARIABLES
  claims,   \* the Claims object
  map,      \* the claims map last encoded or received, None before
  clock     \* the system clock

vars == <<claims, map, clock>>

-----------------------------------------------------------------------------
(* Between claims and claims map.  A conversion that can fail is a         *)
(* predicate, whether it returns Ok, and a function, what it then returns. *)

(* The value of a text or byte string field, and back.                     *)
TextValue(x) == IF x = None THEN None ELSE Text(x)
BytesValue(x) == IF x = None THEN None ELSE ByteString(x)
IsText(value) == value # None => value.t = "text"
IsBytes(value) == value # None => value.t = "bytes"
TextFrom(value) == IF value = None THEN None ELSE value.text
BytesFrom(value) == IF value = None THEN None ELSE value.bytes

(* numeric_date_value and numeric_date_from_value                          *)
DateValue(d) ==
  IF d = None THEN None
  ELSE IF d.kind = "Integer" THEN Int_(d.at) ELSE Float_(d.at)
IsDate(value) == value # None => value.t \in {"int", "float"}
DateFrom(value) ==
  IF value = None THEN None
  ELSE IF value.t = "int" THEN Integer(value.int) ELSE Float(value.float)

(* The audience's value, and audience_from_value                           *)
AudienceValue(audience) ==
  IF audience = None THEN None
  ELSE IF audience.form = "one" THEN Text(audience.one)
  ELSE ArrayOf([i \in DOMAIN audience.many |-> Text(audience.many[i])])
IsAudience(value) ==
  ~ IsText(value) =>
    /\ value.t = "array"
    /\ \A i \in DOMAIN value.items : value.items[i].t = "text"
AudienceFrom(value) ==
  IF value = None THEN None
  ELSE IF value.t = "text" THEN One(value.text)
  ELSE Many([i \in DOMAIN value.items |-> value.items[i].text])

(* The typed fields as a claims map without extra claims.                  *)
TypedPart(c) ==
  [[k \in DOMAIN c.extra |-> None] EXCEPT
     !["iss"] = TextValue(c.issuer), !["sub"] = TextValue(c.subject),
     !["aud"] = AudienceValue(c.audience), !["cti"] = BytesValue(c.cwt_id),
     !["exp"] = DateValue(c.expiration), !["nbf"] = DateValue(c.not_before),
     !["iat"] = DateValue(c.issued_at)]
Dates(c) == {c.expiration, c.not_before, c.issued_at} \ {None}

(* Claims::to_map fails for a date CBOR cannot carry and for a claim given *)
(* both in its typed field and among the extra ones.                       *)
HasMap(c) ==
  /\ \A d \in Dates(c) : ValidDate(d)
  /\ \A k \in PresentIn(c.extra) : TypedPart(c)[k] = None
ToMap(c) ==
  [k \in DOMAIN c.extra |->
     IF TypedPart(c)[k] # None THEN TypedPart(c)[k] ELSE c.extra[k]]

(* Claims::from_map                                                        *)
HasClaims(m) ==
  /\ \A k \in {"iss", "sub"} : IsText(m[k])
  /\ IsAudience(m["aud"])
  /\ \A k \in {"exp", "nbf", "iat"} : IsDate(m[k])
  /\ IsBytes(m["cti"])

\* Faulty variant: the registered claims stay among the extra ones too.
FromMap_KeepsRegistered(m) ==
  [issuer |-> TextFrom(m["iss"]), subject |-> TextFrom(m["sub"]),
   audience |-> AudienceFrom(m["aud"]),
   cwt_id |-> BytesFrom(m["cti"]), expiration |-> DateFrom(m["exp"]),
   not_before |-> DateFrom(m["nbf"]),
   issued_at |-> DateFrom(m["iat"]), extra |-> m]

FromMap(m) ==
  [issuer |-> TextFrom(m["iss"]), subject |-> TextFrom(m["sub"]),
   audience |-> AudienceFrom(m["aud"]),
   cwt_id |-> BytesFrom(m["cti"]), expiration |-> DateFrom(m["exp"]),
   not_before |-> DateFrom(m["nbf"]),
   issued_at |-> DateFrom(m["iat"]),
   extra |-> [k \in DOMAIN m |-> IF k \in Registered THEN None ELSE m[k]]]

-----------------------------------------------------------------------------
(* Validation.                                                             *)

(* Validator::new refuses a leeway of more than MAX_CLOCK_SKEW_SECS.       *)
Validator == {o \in Options : o.clock_skew_secs <= MaxClockSkew}

Now(v) == IF v.fixed_now = None THEN SystemNow(clock) ELSE v.fixed_now

(* The comparisons of check_times; a date CBOR cannot carry fails them.    *)
Expired(v, exp) ==
  \/ ~ ValidDate(exp)
  \/ Compare(exp, Integer(Now(v) - v.clock_skew_secs)) # "Greater"

InTheFuture(v, date) ==
  \/ ~ ValidDate(date)
  \/ Compare(date, Integer(Now(v) + v.clock_skew_secs)) = "Greater"

CheckTimes(v, exp, nbf, iat) ==
  /\ IF exp = None THEN v.allow_missing_expiration ELSE ~ Expired(v, exp)
  /\ nbf # None => ~ InTheFuture(v, nbf)
  /\ v.expect_issued_in_the_past /\ iat # None => ~ InTheFuture(v, iat)

CheckIdentity(v, issuer, audience) ==
  /\ v.expected_issuer \in {None, issuer}
  /\ v.expected_audience # None =>
       audience # None /\ Contains(audience, v.expected_audience)

(* Validator::validate                                                     *)
Validate(v, c) ==
  /\ CheckTimes(v, c.expiration, c.not_before, c.issued_at)
  /\ CheckIdentity(v, c.issuer, c.audience)

\* Faulty variant: does not look at nbf.
ValidateMap_NoNotBefore(v, m) ==
  /\ \A k \in {"exp", "nbf", "iat"} : IsDate(m[k])
  /\ CheckTimes(v, DateFrom(m["exp"]), None, DateFrom(m["iat"]))
  /\ IsText(m["iss"]) /\ IsAudience(m["aud"])
  /\ CheckIdentity(v, TextFrom(m["iss"]), AudienceFrom(m["aud"]))

(* Validator::validate_map reads the claims it checks, and no other, from  *)
(* the map.                                                                *)
ValidateMap(v, m) ==
  /\ \A k \in {"exp", "nbf", "iat"} : IsDate(m[k])
  /\ CheckTimes(v, DateFrom(m["exp"]), DateFrom(m["nbf"]),
                DateFrom(m["iat"]))
  /\ IsText(m["iss"]) /\ IsAudience(m["aud"])
  /\ CheckIdentity(v, TextFrom(m["iss"]), AudienceFrom(m["aud"]))

-----------------------------------------------------------------------------
(* Actions.                                                                *)
NoClaims == [k \in Registered \cup Private |-> None]
NewClaims ==
  [issuer |-> None, subject |-> None, audience |-> None, cwt_id |-> None,
   expiration |-> None, not_before |-> None, issued_at |-> None,
   extra |-> NoClaims]

Init ==
  /\ claims = NewClaims
  /\ map = None
  /\ clock \in MinClock .. MaxClock

(* The application writes the public fields.                               *)
EditClaims ==
  /\ claims' \in ClaimsEdit
  /\ UNCHANGED <<map, clock>>

(* to_vec, and from_slice of the map last encoded or received.             *)
Encode ==
  /\ HasMap(claims)
  /\ map' = ToMap(claims)
  /\ UNCHANGED <<claims, clock>>

Decode ==
  /\ map # None
  /\ HasClaims(map)
  /\ claims' = FromMap(map)
  /\ UNCHANGED <<map, clock>>

Receive ==
  /\ map' \in ForeignMap
  /\ UNCHANGED <<claims, clock>>

(* Time passes; or somebody sets the system clock.                         *)
Tick ==
  /\ clock < MaxClock
  /\ clock' = clock + 1
  /\ UNCHANGED <<claims, map>>

SetClock ==
  /\ clock' \in MinClock .. MaxClock
  /\ UNCHANGED <<claims, map>>

Next == EditClaims \/ Encode \/ Decode \/ Receive \/ Tick \/ SetClock

Spec == Init /\ [][Next]_vars

-----------------------------------------------------------------------------
(* Type correctness of the claims object and the claims map (cwt.rs,       *)
(* structs Claims and ClaimsMap).                                          *)
TypeOK ==
  /\ claims \in Claims
  /\ map \in ClaimsMap \cup {None}
  /\ clock \in MinClock .. MaxClock

(* What a claims object encodes to is read back as the same claims object: *)
(* no claim is lost, doubled, or moved between a typed field and extra.    *)
(* Only a registered claim that the application put among the extra ones,  *)
(* with its field left empty, comes back in its field.                     *)
ClaimsRoundTrip ==
  /\ HasMap(claims)
  /\ \A k \in PresentIn(claims.extra) \cap Registered :
       TypedPart(claims)[k] # None
  => /\ HasClaims(ToMap(claims))
     /\ FromMap(ToMap(claims)) = claims

(* A validator gives the map and the claims object read from it the same   *)
(* verdict, although each path reads the claims in its own way.            *)
TypedAndMapAgree ==
  map # None /\ HasClaims(map) =>
    \A v \in Validator : ValidateMap(v, map) <=> Validate(v, FromMap(map))

(* The second a validator's clock is in began at Second(v).               *)
Clock(v) == IF v.fixed_now = None THEN clock ELSE v.fixed_now * Scale
Second(v) == Clock(v) - (Clock(v) % Scale)
Leeway(v) == v.clock_skew_secs * Scale
NotAfter(date, moment) ==
  date # None => ValidDate(date) /\ Instant(date) <= moment

(* The window in which v may accept the claims, in exact arithmetic.       *)
InWindow(v) ==
  /\ IF claims.expiration = None THEN v.allow_missing_expiration
     ELSE /\ ValidDate(claims.expiration)
          /\ Instant(claims.expiration) > Second(v) - Leeway(v)
  /\ NotAfter(claims.not_before, Second(v) + Leeway(v))
  /\ v.expect_issued_in_the_past =>
       NotAfter(claims.issued_at, Second(v) + Leeway(v))

(* Claims are accepted in their window and nowhere else, whatever form     *)
(* their dates have, before the epoch and after it, for dates larger than  *)
(* an i128 and for fractions of either sign.                               *)
AcceptedExactlyInItsWindow ==
  \A v \in Validator :
    Validate(v, claims) <=>
      InWindow(v) /\ CheckIdentity(v, claims.issuer, claims.audience)

(* No validator that goes by the system clock accepts a token so much as   *)
(* MAX_CLOCK_SKEW_SECS and a second after it expired.                      *)
NeverAcceptedLate ==
  \A v \in Validator :
    /\ v.fixed_now = None
    /\ claims.expiration # None
    /\ Validate(v, claims)
    => clock < Instant(claims.expiration) + (MaxClockSkew + 1) * Scale

(* While the clock does not go back, an expired token stays expired and a  *)
(* token that has become usable does not become too early again.           *)
ExpiryIsFinal ==
  [][\A v \in Validator : claims' = claims /\ clock' >= clock =>
       /\ claims.expiration # None /\ Expired(v, claims.expiration)
            => Expired(v, claims.expiration)'
       /\ claims.not_before # None /\ InTheFuture(v, claims.not_before)'
            => InTheFuture(v, claims.not_before)]_vars

(* More leeway never turns an accepted token away.                         *)
MoreLeewayAcceptsMore ==
  \A v, w \in Validator :
    /\ w = [v EXCEPT !.clock_skew_secs = w.clock_skew_secs]
    /\ v.clock_skew_secs <= w.clock_skew_secs
    /\ Validate(v, claims)
    => Validate(w, claims)

(* A whole number of seconds means the same as an integer and as a float.  *)
SameDate(d) ==
  IF d = None \/ d.kind # "Integer" THEN d ELSE Float(d.at * Scale)
AsFloats(c) ==
  [c EXCEPT !.expiration = SameDate(@), !.not_before = SameDate(@),
            !.issued_at = SameDate(@)]
FormDoesNotMatter ==
  (\A d \in Dates(claims) : ValidDate(d)) =>
    \A v \in Validator :
      Validate(v, claims) <=> Validate(v, AsFloats(claims))
=============================================================================
