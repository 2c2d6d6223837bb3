------------------------------ MODULE CwtProofs ------------------------------
(***************************************************************************)
(* Theorems about CwtToken: date comparison and the clock are exact, and   *)
(* with them acceptance, for every scale, width, leeway and claims set.    *)
(***************************************************************************)
EXTENDS CwtToken, TLAPS

-----------------------------------------------------------------------------
(* Arithmetic.                                                             *)

(* Division with remainder.                                                *)
LEMMA DivMod ==
  ASSUME NEW n \in Int, NEW d \in Nat \ {0}
  PROVE  /\ n \div d \in Int
         /\ n % d \in Int
         /\ 0 <= n % d /\ n % d < d
         /\ n = d * (n \div d) + (n % d)
  OBVIOUS

(* Different whole seconds are at least a second apart.                    *)
LEMMA SecondsApart ==
  ASSUME NEW x \in Int, NEW y \in Int, x < y
  PROVE  x * Scale + Scale <= y * Scale
<1>1. Scale \in Nat \ {0}
  BY NumericDateConstants
<1>2. PICK z \in Nat : y = x + 1 + z
  <2>1. y - x - 1 \in Nat /\ y = x + 1 + (y - x - 1)
    OBVIOUS
  <2> QED BY <2>1
<1>3. y * Scale = x * Scale + Scale + z * Scale
  BY <1>1, <1>2
<1>4. z * Scale >= 0
  BY <1>1, <1>2
<1> QED BY <1>1, <1>3, <1>4

(* Comparing seconds is comparing their instants.                          *)
LEMMA CmpSeconds ==
  ASSUME NEW x \in Int, NEW y \in Int
  PROVE  Cmp(x, y) = Cmp(x * Scale, y * Scale)
<1>1. Scale \in Nat \ {0}
  BY NumericDateConstants
<1>2. x * Scale \in Int /\ y * Scale \in Int
  BY <1>1
<1>3. CASE x = y
  BY <1>2, <1>3 DEF Cmp
<1>4. CASE x < y
  <2>1. x * Scale + Scale <= y * Scale
    BY <1>4, SecondsApart
  <2> QED BY <1>1, <1>2, <1>4, <2>1 DEF Cmp
<1>5. CASE y < x
  <2>1. y * Scale + Scale <= x * Scale
    BY <1>5, SecondsApart
  <2> QED BY <1>1, <1>2, <1>5, <2>1 DEF Cmp
<1> QED BY <1>3, <1>4, <1>5

(* The cast of a float cuts off less than a second, towards zero.          *)
LEMMA TruncateCutsTowardsZero ==
  ASSUME NEW parts \in Int
  PROVE  /\ Truncate(parts) \in Int
         /\ parts >= 0 => /\ Truncate(parts) * Scale <= parts
                          /\ parts < Truncate(parts) * Scale + Scale
         /\ parts < 0 => /\ Truncate(parts) * Scale >= parts
                         /\ parts > Truncate(parts) * Scale - Scale
<1>1. Scale \in Nat \ {0}
  BY NumericDateConstants
<1>2. CASE parts >= 0
  <2> DEFINE q == parts \div Scale
  <2>1. /\ q \in Int /\ parts % Scale \in Int
        /\ 0 <= parts % Scale /\ parts % Scale < Scale
        /\ parts = Scale * q + (parts % Scale)
    BY <1>1, DivMod
  <2>2. Truncate(parts) = q
    BY <1>2 DEF Truncate
  <2>3. Scale * q = q * Scale /\ q * Scale \in Int
    BY <1>1, <2>1
  <2> HIDE DEF q
  <2> QED BY <1>1, <1>2, <2>1, <2>2, <2>3
<1>3. CASE parts < 0
  <2> DEFINE q == (-parts) \div Scale
             r == (-parts) % Scale
  <2>0. -parts \in Int
    OBVIOUS
  <2>1. /\ q \in Int /\ r \in Int
        /\ 0 <= r /\ r < Scale
        /\ -parts = Scale * q + r
    BY <1>1, <2>0, DivMod
  <2>2. Truncate(parts) = -q
    BY <1>3 DEF Truncate
  <2>3. (-q) * Scale = -(Scale * q) /\ Scale * q \in Int
    BY <1>1, <2>1
  <2> HIDE DEF q, r
  <2> QED BY <1>1, <1>3, <2>1, <2>2, <2>3
<1> QED BY <1>2, <1>3

(* A float and an i128 compare as the numbers they stand for, also when    *)
(* the float is beyond every i128.                                         *)
LEMMA CompareFloatToIntegerIsExact ==
  ASSUME NEW parts \in Int, NEW other \in I128
  PROVE  CompareFloatToInteger(parts, other) = Cmp(parts, other * Scale)
<1> DEFINE t == Truncate(parts)
<1>1. /\ Scale \in Nat \ {0} /\ I128Max \in Nat /\ other \in Int
      /\ other < I128Max + 1 /\ other >= -(I128Max + 1)
  BY NumericDateConstants DEF I128
<1>2. /\ t \in Int
      /\ parts >= 0 => t * Scale <= parts /\ parts < t * Scale + Scale
      /\ parts < 0 => t * Scale >= parts /\ parts > t * Scale - Scale
  BY TruncateCutsTowardsZero
<1>3. other * Scale \in Int /\ t * Scale \in Int
  BY <1>1, <1>2
<1>4. other * Scale + Scale <= (I128Max + 1) * Scale
  BY <1>1, SecondsApart
<1>5. other * Scale >= -(I128Max + 1) * Scale
  <2>1. CASE other = -(I128Max + 1)
    BY <1>1, <2>1
  <2>2. CASE other > -(I128Max + 1)
    <3>1. -(I128Max + 1) \in Int /\ -(I128Max + 1) < other
      BY <1>1, <2>2
    <3>2. (-(I128Max + 1)) * Scale + Scale <= other * Scale
      BY <1>1, <3>1, SecondsApart
    <3> QED BY <1>1, <1>3, <3>1, <3>2
  <2> QED BY <1>1, <2>1, <2>2
<1>6. /\ t < other => t * Scale + Scale <= other * Scale
      /\ other < t => other * Scale + Scale <= t * Scale
  BY <1>1, <1>2, SecondsApart
<1>7. (I128Max + 1) * Scale \in Int /\ -(I128Max + 1) * Scale \in Int
  BY <1>1
<1> HIDE DEF t
<1> DEFINE top == (I128Max + 1) * Scale
           bottom == -(I128Max + 1) * Scale
           o == other * Scale
           u == t * Scale
<1>8. /\ top \in Int /\ bottom \in Int /\ o \in Int /\ u \in Int
      /\ o + Scale <= top /\ o >= bottom
      /\ parts >= 0 => u <= parts /\ parts < u + Scale
      /\ parts < 0 => u >= parts /\ parts > u - Scale
      /\ t < other => u + Scale <= o
      /\ other < t => o + Scale <= u
      /\ t = other => u = o
  BY <1>2, <1>3, <1>4, <1>5, <1>6, <1>7
<1>9. CompareFloatToInteger(parts, other) =
        IF parts >= top THEN "Greater"
        ELSE IF parts < bottom THEN "Less"
        ELSE IF t # other THEN Cmp(t, other)
        ELSE IF parts = o THEN "Equal"
        ELSE IF parts < 0 THEN "Less" ELSE "Greater"
  BY DEF CompareFloatToInteger, t
<1> HIDE DEF top, bottom, o, u
<1>10. ASSUME parts < top, parts >= bottom
       PROVE  CompareFloatToInteger(parts, other) =
                IF t # other THEN Cmp(t, other)
                ELSE IF parts = o THEN "Equal"
                ELSE IF parts < 0 THEN "Less" ELSE "Greater"
  BY <1>1, <1>8, <1>9, <1>10
<1>11. CASE parts >= top
  <2>1. CompareFloatToInteger(parts, other) = "Greater"
    BY <1>8, <1>9, <1>11
  <2> QED BY <1>1, <1>8, <1>11, <2>1 DEF Cmp, o
<1>12. CASE parts < bottom
  <2>1. CompareFloatToInteger(parts, other) = "Less"
    BY <1>1, <1>8, <1>9, <1>12
  <2> QED BY <1>1, <1>8, <1>12, <2>1 DEF Cmp, o
<1>13. CASE parts < top /\ parts >= bottom
  BY <1>1, <1>2, <1>8, <1>10, <1>13 DEF Cmp, o
<1> QED BY <1>8, <1>11, <1>12, <1>13

(* What a finite date is.                                                  *)
LEMMA FiniteDate ==
  ASSUME NEW d \in NumericDate, d.kind # "NotFinite"
  PROVE  /\ d.kind \in {"Integer", "Float"}
         /\ d.at \in Int
         /\ d.kind = "Integer" => d.at \in I128
<1>1. I128 \subseteq Int
  BY NumericDateConstants DEF I128
<1>2. CASE d \in [kind : {"Integer"}, at : I128]
  BY <1>1, <1>2
<1>3. CASE d \in [kind : {"Float"}, at : Int]
  BY <1>3
<1>4. CASE d = NotFinite
  BY <1>4 DEF NotFinite
<1> QED BY <1>2, <1>3, <1>4 DEF NumericDate

(* So do any two finite dates, in either form.                             *)
LEMMA CompareIsExact ==
  ASSUME NEW d \in NumericDate, NEW e \in NumericDate,
         d.kind # "NotFinite", e.kind # "NotFinite"
  PROVE  /\ Instant(d) \in Int
         /\ Compare(d, e) = Cmp(Instant(d), Instant(e))
<1>1. Scale \in Nat \ {0} /\ I128 \subseteq Int
  BY NumericDateConstants DEF I128
<1>2. /\ d.kind \in {"Integer", "Float"} /\ d.at \in Int
      /\ d.kind = "Integer" => d.at \in I128
      /\ e.kind \in {"Integer", "Float"} /\ e.at \in Int
      /\ e.kind = "Integer" => e.at \in I128
  BY FiniteDate
<1>3. d.at * Scale \in Int /\ e.at * Scale \in Int
  BY <1>1, <1>2
<1>4. Instant(d) \in Int
  BY <1>2, <1>3 DEF Instant
<1>5. CASE d.kind = "Integer" /\ e.kind = "Integer"
  BY <1>2, <1>4, <1>5, CmpSeconds DEF Compare, Instant
<1>6. CASE d.kind = "Float" /\ e.kind = "Float"
  BY <1>4, <1>6 DEF Compare, Instant
<1>7. CASE d.kind = "Float" /\ e.kind = "Integer"
  BY <1>2, <1>4, <1>7, CompareFloatToIntegerIsExact DEF Compare, Instant
<1>8. CASE d.kind = "Integer" /\ e.kind = "Float"
  <2>1. Compare(d, e) = Reverse(Cmp(e.at, d.at * Scale))
    BY <1>2, <1>8, CompareFloatToIntegerIsExact DEF Compare
  <2>2. Reverse(Cmp(e.at, d.at * Scale)) = Cmp(d.at * Scale, e.at)
    BY <1>2, <1>3 DEF Reverse, Cmp
  <2> QED BY <1>4, <1>8, <2>1, <2>2 DEF Instant
<1> QED BY <1>2, <1>4, <1>5, <1>6, <1>7, <1>8

-----------------------------------------------------------------------------
(* The clock.                                                              *)

(* A remainder is determined by what it must satisfy.                      *)
LEMMA RemainderIsUnique ==
  ASSUME NEW n \in Int, NEW x \in Int, NEW y \in Int,
         0 <= y, y < Scale, n = x * Scale + y
  PROVE  n % Scale = y
<1>1. Scale \in Nat \ {0}
  BY NumericDateConstants
<1> DEFINE q == n \div Scale
           r == n % Scale
<1>2. /\ q \in Int /\ r \in Int /\ 0 <= r /\ r < Scale
      /\ n = Scale * q + r
  BY <1>1, DivMod
<1>3. Scale * q = q * Scale /\ q * Scale \in Int /\ x * Scale \in Int
  BY <1>1, <1>2
<1>4. /\ q < x => q * Scale + Scale <= x * Scale
      /\ x < q => x * Scale + Scale <= q * Scale
  BY <1>2, SecondsApart
<1>5. q = x => q * Scale = x * Scale
  OBVIOUS
<1> HIDE DEF q, r
<1>6. q < x \/ q = x \/ x < q
  BY <1>2
<1>7. r = y
  BY <1>1, <1>2, <1>3, <1>4, <1>5, <1>6
<1> QED BY <1>7 DEF r

(* The clock is read as the last whole second that has begun, before the   *)
(* epoch as well as after it.                                              *)
LEMMA SystemNowIsTheSecond ==
  ASSUME NEW c \in Int
  PROVE  /\ SystemNow(c) \in Int
         /\ c % Scale \in Int /\ 0 <= c % Scale /\ c % Scale < Scale
         /\ SystemNow(c) * Scale = c - (c % Scale)
<1>1. Scale \in Nat \ {0}
  BY NumericDateConstants
<1>2. c % Scale \in Int /\ 0 <= c % Scale /\ c % Scale < Scale
  BY <1>1, DivMod
<1>3. CASE c >= 0
  <2> DEFINE q == c \div Scale
             m == c % Scale
  <2>1. q \in Int /\ c = Scale * q + m
    BY <1>1, DivMod
  <2>2. SystemNow(c) = q
    BY <1>3 DEF SystemNow
  <2>3. Scale * q = q * Scale /\ q * Scale \in Int
    BY <1>1, <2>1
  <2> HIDE DEF q
  <2> QED BY <1>2, <2>1, <2>2, <2>3
<1>4. CASE c < 0
  <2> DEFINE q == (-c) \div Scale
             r == (-c) % Scale
             m == c % Scale
  <2>1. -c \in Int
    OBVIOUS
  <2>2. /\ q \in Int /\ r \in Int /\ 0 <= r /\ r < Scale
        /\ -c = Scale * q + r
    BY <1>1, <2>1, DivMod
  <2>3. SystemNow(c) = -q - (IF r # 0 THEN 1 ELSE 0)
    BY <1>4 DEF SystemNow
  <2>4. /\ Scale * q \in Int
        /\ (-q) * Scale = -(Scale * q)
        /\ (-q - 1) * Scale = -(Scale * q) - Scale
    BY <1>1, <2>2
  <2> HIDE DEF q, r
  <2>5. CASE r = 0
    <3>1. -q \in Int /\ c = (-q) * Scale + 0
      BY <2>2, <2>4, <2>5
    <3>2. m = 0
      BY <1>1, <3>1, RemainderIsUnique
    <3>3. SystemNow(c) = -q
      BY <2>2, <2>3, <2>5
    <3>4. (-q) * Scale \in Int
      BY <1>1, <2>2
    <3> HIDE DEF m
    <3>5. (-q) * Scale = c - m
      BY <3>1, <3>2, <3>4
    <3>6. SystemNow(c) * Scale = c - (c % Scale)
      BY <3>3, <3>5 DEF m
    <3> QED BY <1>2, <3>1, <3>3, <3>6
  <2>6. CASE r # 0
    <3>1. /\ -q - 1 \in Int /\ Scale - r \in Int
          /\ 0 <= Scale - r /\ Scale - r < Scale
          /\ c = (-q - 1) * Scale + (Scale - r)
      BY <1>1, <2>2, <2>4, <2>6
    <3>2. m = Scale - r
      BY <3>1, RemainderIsUnique
    <3>3. SystemNow(c) = -q - 1
      BY <2>2, <2>3, <2>6
    <3>4. (-q - 1) * Scale \in Int
      BY <1>1, <2>2
    <3> HIDE DEF m
    <3>5. (-q - 1) * Scale = c - m
      BY <1>1, <2>2, <3>1, <3>2, <3>4
    <3>6. SystemNow(c) * Scale = c - (c % Scale)
      BY <3>3, <3>5 DEF m
    <3> QED BY <1>2, <3>1, <3>3, <3>6
  <2> QED BY <2>5, <2>6
<1> QED BY <1>3, <1>4

(* It never goes back while the clock does not.                            *)
LEMMA SystemNowIsMonotone ==
  ASSUME NEW b \in Int, NEW c \in Int, b <= c
  PROVE  SystemNow(b) <= SystemNow(c)
<1>1. Scale \in Nat \ {0}
  BY NumericDateConstants
<1> DEFINE x == SystemNow(b)
           y == SystemNow(c)
           s == b % Scale
           r == c % Scale
<1>2. /\ x \in Int /\ s \in Int /\ 0 <= s /\ s < Scale /\ x * Scale = b - s
      /\ y \in Int /\ r \in Int /\ 0 <= r /\ r < Scale /\ y * Scale = c - r
  BY SystemNowIsTheSecond
<1>3. y < x => y * Scale + Scale <= x * Scale
  BY <1>2, SecondsApart
<1> HIDE DEF x, y, s, r
<1>4. ~ (y < x)
  BY <1>1, <1>2, <1>3
<1>5. x <= y
  BY <1>2, <1>4
<1> QED BY <1>5 DEF x, y

(* The clock stays where an i64 or a u64 of seconds can follow it.         *)
LEMMA SystemNowInRange ==
  ASSUME NEW c \in MinClock .. MaxClock
  PROVE  c \in Int /\ SystemNow(c) \in -U64Max .. U64Max
<1>1. /\ Scale \in Nat \ {0} /\ U64Max \in Nat
      /\ MinClock \in Int /\ MaxClock \in Int /\ c \in Int
      /\ -U64Max * Scale <= c /\ c <= U64Max * Scale
  BY NumericDateConstants, CwtConstants
<1> DEFINE n == SystemNow(c)
           r == c % Scale
           top == U64Max * Scale
           bottom == (-U64Max) * Scale
<1>2. n \in Int /\ r \in Int /\ 0 <= r /\ r < Scale /\ n * Scale = c - r
  BY <1>1, SystemNowIsTheSecond
<1>3. /\ -U64Max \in Int
      /\ n < -U64Max => n * Scale + Scale <= (-U64Max) * Scale
      /\ U64Max < n => U64Max * Scale + Scale <= n * Scale
  BY <1>1, <1>2, SecondsApart
<1>4. top \in Int /\ bottom \in Int /\ bottom <= c /\ c <= top
  BY <1>1
<1> HIDE DEF n, r, top, bottom
<1>5. ~ (n < -U64Max) /\ ~ (U64Max < n)
  BY <1>1, <1>2, <1>3, <1>4 DEF top, bottom
<1>6. n \in -U64Max .. U64Max
  BY <1>1, <1>2, <1>5
<1> QED BY <1>1, <1>6 DEF n

(* Comparing a date with the validator's time, leeway included.            *)
LEMMA CompareWithNow ==
  ASSUME NEW d \in NumericDate, ValidDate(d),
         NEW n \in -U64Max .. U64Max, NEW s \in 0 .. MaxClockSkew
  PROVE  /\ Instant(d) \in Int /\ n * Scale \in Int /\ s * Scale \in Int
         /\ Compare(d, Integer(n - s)) =
              Cmp(Instant(d), n * Scale - s * Scale)
         /\ Compare(d, Integer(n + s)) =
              Cmp(Instant(d), n * Scale + s * Scale)
<1>1. /\ Scale \in Nat \ {0} /\ U64Max \in Nat /\ I128Max \in Nat
      /\ MaxClockSkew \in Nat /\ U64Max + MaxClockSkew <= I128Max
      /\ n \in Int /\ s \in Int
  BY NumericDateConstants, CwtConstants
<1>2. n - s \in I128 /\ n + s \in I128
  BY <1>1 DEF I128
<1>3. \A x \in I128 : /\ Integer(x) \in NumericDate
                      /\ Integer(x).kind # "NotFinite"
                      /\ Instant(Integer(x)) = x * Scale
  BY DEF Integer, NumericDate, Instant
<1>4. d.kind # "NotFinite"
  BY DEF ValidDate
<1>5. /\ Instant(d) \in Int
      /\ Compare(d, Integer(n - s)) = Cmp(Instant(d), (n - s) * Scale)
      /\ Compare(d, Integer(n + s)) = Cmp(Instant(d), (n + s) * Scale)
  BY <1>2, <1>3, <1>4, CompareIsExact
<1>6. /\ n * Scale \in Int /\ s * Scale \in Int
      /\ (n - s) * Scale = n * Scale - s * Scale
      /\ (n + s) * Scale = n * Scale + s * Scale
  BY <1>1
<1> QED BY <1>5, <1>6

-----------------------------------------------------------------------------
(* The types of the claims object, the claims map and the clock.           *)

(* Reading a value of the right kind gives a field of the right type.      *)
LEMMA ReadTypes ==
  ASSUME NEW value \in Value \cup {None}
  PROVE  /\ IsText(value) => TextFrom(value) \in Name \cup {None}
         /\ IsBytes(value) => BytesFrom(value) \in Name \cup {None}
         /\ IsDate(value) => DateFrom(value) \in NumericDate \cup {None}
         /\ IsAudience(value) => AudienceFrom(value) \in Audience \cup {None}
<1>1. CASE value = None
  BY <1>1 DEF IsText, IsBytes, IsDate, IsAudience, TextFrom, BytesFrom,
              DateFrom, AudienceFrom
<1>2. CASE value # None
  <2>1. value \in Value
    BY <1>2
  <2>2. IsText(value) => TextFrom(value) \in Name
    BY <1>2, <2>1 DEF Value, Scalar, NaN, IsText, TextFrom
  <2>3. IsBytes(value) => BytesFrom(value) \in Name
    BY <1>2, <2>1 DEF Value, Scalar, NaN, IsBytes, BytesFrom
  <2>4. CborInteger \subseteq I128
    BY NumericDateConstants DEF CborInteger, I128
  <2>5. IsDate(value) => DateFrom(value) \in NumericDate
    BY <1>2, <2>1, <2>4
    DEF Value, Scalar, NaN, IsDate, DateFrom, NumericDate, Integer, Float
  <2>6. IsAudience(value) => AudienceFrom(value) \in Audience
    <3>1. CASE value.t = "text"
      BY <1>2, <2>1, <3>1
      DEF Value, Scalar, NaN, AudienceFrom, Audience, One
    <3>2. ASSUME value.t # "text", IsAudience(value)
          PROVE  AudienceFrom(value) \in Audience
      <4>1. value.t = "array"
        BY <1>2, <3>2 DEF IsAudience, IsText
      <4>2. value.items \in Seq(Scalar)
        BY <2>1, <4>1 DEF Value, Scalar, NaN
      <4>3. \A i \in DOMAIN value.items : value.items[i].text \in Name
        <5>1. TAKE i \in DOMAIN value.items
        <5>2. value.items[i].t = "text"
          BY <1>2, <3>2 DEF IsAudience, IsText
        <5>3. value.items[i] \in Scalar
          BY <4>2
        <5> QED BY <5>2, <5>3 DEF Scalar, NaN
      <4>4. [i \in DOMAIN value.items |-> value.items[i].text] \in Seq(Name)
        BY <4>2, <4>3
      <4> QED BY <1>2, <3>2, <4>4 DEF AudienceFrom, Audience, Many
    <3> QED BY <3>1, <3>2
  <2> QED BY <2>2, <2>3, <2>5, <2>6
<1> QED BY <1>1, <1>2

(* Writing a field gives a value, dates CBOR can carry provided.           *)
LEMMA WriteTypes ==
  ASSUME NEW x \in Name \cup {None}, NEW d \in NumericDate \cup {None},
         d # None => ValidDate(d), NEW a \in Audience \cup {None}
  PROVE  /\ TextValue(x) \in Value \cup {None}
         /\ BytesValue(x) \in Value \cup {None}
         /\ DateValue(d) \in Value \cup {None}
         /\ AudienceValue(a) \in Value \cup {None}
<1>1. /\ TextValue(x) \in Value \cup {None}
      /\ BytesValue(x) \in Value \cup {None}
  BY DEF TextValue, BytesValue, Text, ByteString, Value, Scalar
<1>2. DateValue(d) \in Value \cup {None}
  <2>1. CASE d = None
    BY <2>1 DEF DateValue
  <2>2. CASE d # None
    <3>1. d \in NumericDate /\ d.kind # "NotFinite"
      BY <2>2 DEF ValidDate
    <3>2. d.kind \in {"Integer", "Float"} /\ d.at \in Int
      BY <3>1, FiniteDate
    <3>3. d.kind = "Integer" => d.at \in CborInteger
      BY <2>2 DEF ValidDate
    <3> QED BY <2>2, <3>2, <3>3
            DEF DateValue, Int_, Float_, Value, Scalar
  <2> QED BY <2>1, <2>2
<1>3. AudienceValue(a) \in Value \cup {None}
  <2>1. CASE a = None
    BY <2>1 DEF AudienceValue
  <2>2. CASE a # None /\ a.form = "one"
    BY <2>2 DEF Audience, AudienceValue, Text, Value, Scalar
  <2>3. CASE a # None /\ a.form # "one"
    <3>1. a.many \in Seq(Name)
      BY <2>3 DEF Audience
    <3>2. [i \in DOMAIN a.many |-> Text(a.many[i])] \in Seq(Scalar)
      BY <3>1 DEF Text, Scalar
    <3> QED BY <2>3, <3>2 DEF AudienceValue, ArrayOf, Value
  <2> QED BY <2>1, <2>2, <2>3
<1> QED BY <1>1, <1>2, <1>3

(* A decoded claims object has the types of its fields.                    *)
LEMMA FromMapType ==
  ASSUME NEW m \in ClaimsMap, HasClaims(m)
  PROVE  FromMap(m) \in Claims
<1>1. \A k \in Registered : m[k] \in Value \cup {None}
  BY DEF ClaimsMap
<1>2. /\ TextFrom(m["iss"]) \in Name \cup {None}
      /\ TextFrom(m["sub"]) \in Name \cup {None}
      /\ AudienceFrom(m["aud"]) \in Audience \cup {None}
      /\ DateFrom(m["exp"]) \in NumericDate \cup {None}
      /\ DateFrom(m["nbf"]) \in NumericDate \cup {None}
      /\ DateFrom(m["iat"]) \in NumericDate \cup {None}
      /\ BytesFrom(m["cti"]) \in Name \cup {None}
  BY <1>1, ReadTypes DEF Registered, HasClaims
<1>3. [k \in DOMAIN m |-> IF k \in Registered THEN None ELSE m[k]]
        \in ClaimsMap
  BY DEF ClaimsMap
<1> QED BY <1>2, <1>3 DEF FromMap, Claims

(* An encoded claims map has the type of claims maps.                      *)
LEMMA ToMapType ==
  ASSUME NEW c \in Claims, HasMap(c)
  PROVE  ToMap(c) \in ClaimsMap
<1>1. /\ c.extra \in ClaimsMap /\ DOMAIN c.extra = Registered \cup Private
      /\ c.issuer \in Name \cup {None} /\ c.subject \in Name \cup {None}
      /\ c.audience \in Audience \cup {None} /\ c.cwt_id \in Name \cup {None}
      /\ c.expiration \in NumericDate \cup {None}
      /\ c.not_before \in NumericDate \cup {None}
      /\ c.issued_at \in NumericDate \cup {None}
  BY DEF Claims, ClaimsMap
<1>2. /\ c.expiration # None => ValidDate(c.expiration)
      /\ c.not_before # None => ValidDate(c.not_before)
      /\ c.issued_at # None => ValidDate(c.issued_at)
  BY DEF HasMap, Dates
<1>3. /\ TextValue(c.issuer) \in Value \cup {None}
      /\ TextValue(c.subject) \in Value \cup {None}
      /\ AudienceValue(c.audience) \in Value \cup {None}
      /\ BytesValue(c.cwt_id) \in Value \cup {None}
  BY <1>1, WriteTypes
<1>4. /\ DateValue(c.expiration) \in Value \cup {None}
      /\ DateValue(c.not_before) \in Value \cup {None}
      /\ DateValue(c.issued_at) \in Value \cup {None}
  BY <1>1, <1>2, WriteTypes
<1>5. \A k \in DOMAIN c.extra : TypedPart(c)[k] \in Value \cup {None}
  BY <1>3, <1>4 DEF TypedPart
<1>6. \A k \in DOMAIN c.extra : c.extra[k] \in Value \cup {None}
  BY <1>1 DEF ClaimsMap
<1> QED BY <1>1, <1>5, <1>6 DEF ToMap, ClaimsMap

(* The claims object, the claims map and the clock always have their types *)
(* (cwt.rs, structs Claims and ClaimsMap).                                 *)
THEOREM TypeCorrect == Spec => []TypeOK
<1>1. Init => TypeOK
  <2>1. NoClaims \in ClaimsMap
    BY DEF NoClaims, ClaimsMap
  <2>2. NewClaims \in Claims
    BY <2>1 DEF NewClaims, Claims
  <2> QED BY <2>2 DEF Init, TypeOK
<1>2. TypeOK /\ [Next]_vars => TypeOK'
  <2> SUFFICES ASSUME TypeOK, [Next]_vars PROVE TypeOK'
    OBVIOUS
  <2> USE DEF TypeOK
  <2>1. CASE EditClaims
    BY <2>1, CwtConstants DEF EditClaims
  <2>2. CASE Encode
    BY <2>2, ToMapType DEF Encode
  <2>3. CASE Decode
    <3>1. map \in ClaimsMap /\ HasClaims(map)
      BY <2>3 DEF Decode
    <3> QED BY <2>3, <3>1, FromMapType DEF Decode
  <2>4. CASE Receive
    BY <2>4, CwtConstants DEF Receive
  <2>5. CASE Tick
    BY <2>5, CwtConstants DEF Tick
  <2>6. CASE SetClock
    BY <2>6 DEF SetClock
  <2>7. CASE UNCHANGED vars
    BY <2>7 DEF vars
  <2> QED BY <2>1, <2>2, <2>3, <2>4, <2>5, <2>6, <2>7 DEF Next
<1> QED BY <1>1, <1>2, PTL DEF Spec

-----------------------------------------------------------------------------
(* Acceptance.                                                             *)

(* What a validator reads, in exact arithmetic.                            *)
LEMMA ValidatorTime ==
  ASSUME TypeOK, NEW v \in Validator
  PROVE  /\ clock \in Int
         /\ Now(v) \in -U64Max .. U64Max
         /\ v.clock_skew_secs \in 0 .. MaxClockSkew
         /\ Second(v) = Now(v) * Scale
         /\ v.fixed_now = None => /\ Second(v) \in Int
                                  /\ Second(v) > clock - Scale
<1>1. /\ v.clock_skew_secs \in Nat /\ v.clock_skew_secs <= MaxClockSkew
      /\ v.fixed_now \in -U64Max .. U64Max \cup {None}
      /\ MaxClockSkew \in Nat
      /\ U64Max \in Nat /\ Scale \in Nat \ {0}
  BY NumericDateConstants, CwtConstants DEF Validator, ValidatorOptions
<1>2. clock \in Int /\ SystemNow(clock) \in -U64Max .. U64Max
  BY SystemNowInRange DEF TypeOK
<1>3. CASE v.fixed_now = None
  <2> DEFINE n == SystemNow(clock)
             r == clock % Scale
  <2>1. n \in Int /\ r \in Int /\ 0 <= r /\ r < Scale /\ n * Scale = clock - r
    BY <1>2, SystemNowIsTheSecond
  <2>2. Now(v) = n /\ Second(v) = clock - r
    BY <1>3 DEF Now, Second, Clock
  <2> HIDE DEF n, r
  <2>3. Second(v) \in Int /\ Second(v) > clock - Scale
    BY <1>1, <1>2, <2>1, <2>2
  <2> QED BY <1>1, <1>2, <2>1, <2>2, <2>3 DEF n
<1>4. CASE v.fixed_now # None
  <2> DEFINE f == v.fixed_now
  <2>1. f \in Int /\ f \in -U64Max .. U64Max
    BY <1>1, <1>4
  <2>2. f * Scale \in Int /\ f * Scale = f * Scale + 0
    BY <1>1, <2>1
  <2>3. (f * Scale) % Scale = 0
    BY <1>1, <2>1, <2>2, RemainderIsUnique
  <2>4. Now(v) = f /\ Second(v) = f * Scale - ((f * Scale) % Scale)
    BY <1>4 DEF Now, Second, Clock
  <2> HIDE DEF f
  <2>5. Second(v) = f * Scale
    BY <2>2, <2>3, <2>4
  <2> QED BY <1>1, <1>2, <1>4, <2>1, <2>4, <2>5
<1> QED BY <1>3, <1>4

(* The two comparisons of check_times, in exact arithmetic.                *)
LEMMA ChecksAreExact ==
  ASSUME TypeOK, NEW v \in Validator, NEW d \in NumericDate
  PROVE  /\ Second(v) \in Int /\ Leeway(v) \in Int
         /\ ValidDate(d) => Instant(d) \in Int
         /\ Expired(v, d) <=>
              ~ (ValidDate(d) /\ Instant(d) > Second(v) - Leeway(v))
         /\ InTheFuture(v, d) <=>
              ~ (ValidDate(d) /\ Instant(d) <= Second(v) + Leeway(v))
<1> DEFINE n == Now(v)
           s == v.clock_skew_secs
<1>1. /\ n \in -U64Max .. U64Max /\ s \in 0 .. MaxClockSkew
      /\ Second(v) = n * Scale /\ Leeway(v) = s * Scale
  BY ValidatorTime DEF Leeway
<1>2. n * Scale \in Int /\ s * Scale \in Int
  <2>1. Scale \in Nat \ {0} /\ n \in Int /\ s \in Int
    BY <1>1, NumericDateConstants, CwtConstants
  <2> QED BY <2>1
<1>3. ASSUME ValidDate(d)
      PROVE  /\ Instant(d) \in Int
             /\ Compare(d, Integer(n - s)) =
                  Cmp(Instant(d), Second(v) - Leeway(v))
             /\ Compare(d, Integer(n + s)) =
                  Cmp(Instant(d), Second(v) + Leeway(v))
  BY <1>1, <1>3, CompareWithNow
<1>4. ASSUME ~ ValidDate(d) PROVE Expired(v, d) /\ InTheFuture(v, d)
  BY <1>4 DEF Expired, InTheFuture
<1>5. ASSUME ValidDate(d)
      PROVE  /\ Expired(v, d) <=>
                  Cmp(Instant(d), Second(v) - Leeway(v)) # "Greater"
             /\ InTheFuture(v, d) <=>
                  Cmp(Instant(d), Second(v) + Leeway(v)) = "Greater"
  BY <1>3, <1>5 DEF Expired, InTheFuture
<1> HIDE DEF n, s
<1>6. \A x, y \in Int : Cmp(x, y) = "Greater" <=> x > y
  BY DEF Cmp
<1>7. /\ Second(v) - Leeway(v) \in Int /\ Second(v) + Leeway(v) \in Int
      /\ Second(v) \in Int /\ Leeway(v) \in Int
  BY <1>1, <1>2
<1> QED BY <1>3, <1>4, <1>5, <1>6, <1>7

(* Claims are accepted in their window and nowhere else (cwt.rs,           *)
(* check_times and NumericDate::compare), for every scale and width.       *)
THEOREM AcceptanceCorrect == Spec => []AcceptedExactlyInItsWindow
<1>1. TypeOK => AcceptedExactlyInItsWindow
  <2> SUFFICES ASSUME TypeOK, NEW v \in Validator
               PROVE  CheckTimes(v, claims.expiration, claims.not_before,
                                 claims.issued_at) <=> InWindow(v)
    BY DEF AcceptedExactlyInItsWindow, Validate
  <2>1. /\ claims.expiration \in NumericDate \cup {None}
        /\ claims.not_before \in NumericDate \cup {None}
        /\ claims.issued_at \in NumericDate \cup {None}
    BY DEF TypeOK, Claims
  <2>2. claims.expiration # None =>
          (~ Expired(v, claims.expiration) <=>
             /\ ValidDate(claims.expiration)
             /\ Instant(claims.expiration) > Second(v) - Leeway(v))
    BY <2>1, ChecksAreExact
  <2>3. \A d \in {claims.not_before, claims.issued_at} :
          (d # None => ~ InTheFuture(v, d)) <=>
            NotAfter(d, Second(v) + Leeway(v))
    BY <2>1, ChecksAreExact DEF NotAfter
  <2> QED BY <2>2, <2>3 DEF CheckTimes, InWindow
<1> QED BY <1>1, TypeCorrect, PTL

(* No token is accepted MAX_CLOCK_SKEW_SECS and a second after it expired  *)
(* (cwt.rs, Validator::new and check_times).                               *)
THEOREM LatenessBounded == Spec => []NeverAcceptedLate
<1>1. TypeOK => NeverAcceptedLate
  <2> SUFFICES ASSUME TypeOK, NEW v \in Validator, v.fixed_now = None,
                      claims.expiration # None, Validate(v, claims)
               PROVE  clock < Instant(claims.expiration)
                                + (MaxClockSkew + 1) * Scale
    BY DEF NeverAcceptedLate
  <2> DEFINE exp == claims.expiration
             s == v.clock_skew_secs
  <2>1. exp \in NumericDate
    BY DEF TypeOK, Claims
  <2>2. ~ Expired(v, exp)
    BY DEF Validate, CheckTimes
  <2>3. /\ ValidDate(exp) /\ Instant(exp) \in Int
        /\ Instant(exp) > Second(v) - Leeway(v)
    BY <2>1, <2>2, ChecksAreExact
  <2>4. /\ clock \in Int /\ Second(v) \in Int /\ Second(v) > clock - Scale
        /\ s \in 0 .. MaxClockSkew
    BY ValidatorTime
  <2>5. Scale \in Nat \ {0} /\ MaxClockSkew \in Nat
    BY NumericDateConstants, CwtConstants
  <2>6. s * Scale <= MaxClockSkew * Scale /\ s * Scale \in Int
    <3>1. s \in Int /\ (s = MaxClockSkew \/ s < MaxClockSkew)
      BY <2>4, <2>5
    <3>2. CASE s = MaxClockSkew
      BY <2>5, <3>2
    <3>3. CASE s < MaxClockSkew
      <4>1. s * Scale + Scale <= MaxClockSkew * Scale
        BY <2>5, <3>1, <3>3, SecondsApart
      <4>2. s * Scale \in Int /\ MaxClockSkew * Scale \in Int
        BY <2>5, <3>1
      <4> QED BY <2>5, <4>1, <4>2
    <3> QED BY <3>1, <3>2, <3>3
  <2>7. /\ (MaxClockSkew + 1) * Scale = MaxClockSkew * Scale + Scale
        /\ MaxClockSkew * Scale \in Int
    BY <2>5
  <2>8. Leeway(v) = s * Scale
    BY DEF Leeway
  <2> HIDE DEF exp, s
  <2>9. clock < Instant(exp) + (MaxClockSkew + 1) * Scale
    BY <2>3, <2>4, <2>5, <2>6, <2>7, <2>8
  <2> QED BY <2>9 DEF exp
<1> QED BY <1>1, TypeCorrect, PTL

(* A date and the same date as a float are checked alike (cwt.rs,          *)
(* NumericDate::compare).                                                  *)
LEMMA SameDateSameChecks ==
  ASSUME TypeOK, NEW v \in Validator, NEW d \in NumericDate \cup {None},
         d # None => ValidDate(d)
  PROVE  /\ SameDate(d) = None <=> d = None
         /\ d # None => /\ Expired(v, SameDate(d)) <=> Expired(v, d)
                        /\ InTheFuture(v, SameDate(d)) <=> InTheFuture(v, d)
<1>1. CASE d = None \/ d.kind # "Integer"
  BY <1>1 DEF SameDate
<1>2. CASE d # None /\ d.kind = "Integer"
  <2>1. d \in NumericDate /\ d.at \in Int /\ Scale \in Nat \ {0}
    BY <1>2, FiniteDate, NumericDateConstants
  <2>2. d.at * Scale \in Int
    BY <2>1
  <2>3. /\ SameDate(d) = Float(d.at * Scale)
        /\ Float(d.at * Scale) \in NumericDate
        /\ ValidDate(Float(d.at * Scale))
        /\ Instant(Float(d.at * Scale)) = Instant(d)
    BY <1>2, <2>2 DEF SameDate, Float, NumericDate, ValidDate, Instant
  <2>4. /\ Expired(v, SameDate(d)) <=> Expired(v, d)
        /\ InTheFuture(v, SameDate(d)) <=> InTheFuture(v, d)
    BY <1>2, <2>1, <2>3, ChecksAreExact
  <2>5. SameDate(d) # None
    BY <2>3, CwtConstants
  <2> QED BY <1>2, <2>4, <2>5
<1> QED BY <1>1, <1>2

(* Whole seconds mean the same as integers and as floats.                  *)
THEOREM FormCorrect == Spec => []FormDoesNotMatter
<1>1. TypeOK => FormDoesNotMatter
  <2> SUFFICES ASSUME TypeOK, \A d \in Dates(claims) : ValidDate(d),
                      NEW v \in Validator
               PROVE  Validate(v, claims) <=> Validate(v, AsFloats(claims))
    BY DEF FormDoesNotMatter
  <2> DEFINE e == claims.expiration
             n == claims.not_before
             i == claims.issued_at
             c == AsFloats(claims)
  <2>1. /\ e \in NumericDate \cup {None} /\ (e # None => ValidDate(e))
        /\ n \in NumericDate \cup {None} /\ (n # None => ValidDate(n))
        /\ i \in NumericDate \cup {None} /\ (i # None => ValidDate(i))
    BY DEF TypeOK, Claims, Dates
  <2>2. /\ c.expiration = SameDate(e) /\ c.not_before = SameDate(n)
        /\ c.issued_at = SameDate(i)
        /\ c.issuer = claims.issuer /\ c.audience = claims.audience
    BY DEF AsFloats, TypeOK, Claims
  <2>3. /\ SameDate(e) = None <=> e = None
        /\ e # None => (Expired(v, SameDate(e)) <=> Expired(v, e))
    BY <2>1, SameDateSameChecks
  <2>4. \A d \in {n, i} :
          /\ SameDate(d) = None <=> d = None
          /\ d # None => (InTheFuture(v, SameDate(d)) <=> InTheFuture(v, d))
    BY <2>1, SameDateSameChecks
  <2> HIDE DEF e, n, i, c
  <2>5. CheckTimes(v, e, n, i) <=>
          CheckTimes(v, SameDate(e), SameDate(n), SameDate(i))
    BY <2>3, <2>4 DEF CheckTimes
  <2> QED BY <2>2, <2>5 DEF Validate, e, n, i, c
<1> QED BY <1>1, TypeCorrect, PTL

(* More leeway never turns an accepted token away (cwt.rs, check_times).   *)
THEOREM LeewayCorrect == Spec => []MoreLeewayAcceptsMore
<1>1. TypeOK => MoreLeewayAcceptsMore
  <2> SUFFICES ASSUME TypeOK, NEW v \in Validator, NEW w \in Validator,
                      w = [v EXCEPT !.clock_skew_secs = w.clock_skew_secs],
                      v.clock_skew_secs <= w.clock_skew_secs,
                      Validate(v, claims)
               PROVE  Validate(w, claims)
    BY DEF MoreLeewayAcceptsMore
  <2> DEFINE s == v.clock_skew_secs
             r == w.clock_skew_secs
  <2>1. /\ w.fixed_now = v.fixed_now
        /\ w.allow_missing_expiration = v.allow_missing_expiration
        /\ w.expect_issued_in_the_past = v.expect_issued_in_the_past
        /\ w.expected_issuer = v.expected_issuer
        /\ w.expected_audience = v.expected_audience
    BY CwtConstants DEF Validator, ValidatorOptions
  <2>2. Second(w) = Second(v)
    BY <2>1 DEF Second, Clock
  <2>3. /\ s \in Int /\ r \in Int /\ Scale \in Nat \ {0}
        /\ Second(v) \in Int /\ Leeway(v) \in Int /\ Leeway(w) \in Int
    <3>1. s \in 0 .. MaxClockSkew /\ r \in 0 .. MaxClockSkew
      BY ValidatorTime
    <3>2. Scale \in Nat \ {0} /\ MaxClockSkew \in Nat
      BY NumericDateConstants, CwtConstants
    <3>3. NotFinite \in NumericDate
      BY DEF NumericDate
    <3> QED BY <3>1, <3>2, <3>3, ChecksAreExact
  <2>4. Leeway(v) <= Leeway(w)
    <3>1. CASE s = r
      BY <2>3, <3>1 DEF Leeway
    <3>2. CASE s < r
      <4>1. s * Scale + Scale <= r * Scale
        BY <2>3, <3>2, SecondsApart
      <4>2. Leeway(v) = s * Scale /\ Leeway(w) = r * Scale
        BY DEF Leeway
      <4> HIDE DEF s, r
      <4> QED BY <2>3, <4>1, <4>2
    <3> QED BY <2>3, <3>1, <3>2
  <2>5. ASSUME NEW d \in NumericDate
        PROVE  /\ Expired(w, d) => Expired(v, d)
               /\ InTheFuture(w, d) => InTheFuture(v, d)
    <3>1. /\ ValidDate(d) => Instant(d) \in Int
          /\ Expired(v, d) <=>
               ~ (ValidDate(d) /\ Instant(d) > Second(v) - Leeway(v))
          /\ InTheFuture(v, d) <=>
               ~ (ValidDate(d) /\ Instant(d) <= Second(v) + Leeway(v))
          /\ Expired(w, d) <=>
               ~ (ValidDate(d) /\ Instant(d) > Second(v) - Leeway(w))
          /\ InTheFuture(w, d) <=>
               ~ (ValidDate(d) /\ Instant(d) <= Second(v) + Leeway(w))
      BY <2>2, ChecksAreExact
    <3> QED BY <2>3, <2>4, <3>1
  <2>6. /\ claims.expiration \in NumericDate \cup {None}
        /\ claims.not_before \in NumericDate \cup {None}
        /\ claims.issued_at \in NumericDate \cup {None}
    BY DEF TypeOK, Claims
  <2>7. CheckTimes(v, claims.expiration, claims.not_before, claims.issued_at)
        /\ CheckIdentity(v, claims.issuer, claims.audience)
    BY DEF Validate
  <2>8. CheckTimes(w, claims.expiration, claims.not_before, claims.issued_at)
    BY <2>1, <2>5, <2>6, <2>7 DEF CheckTimes
  <2>9. CheckIdentity(w, claims.issuer, claims.audience)
    BY <2>1, <2>7 DEF CheckIdentity
  <2> QED BY <2>8, <2>9 DEF Validate
<1> QED BY <1>1, TypeCorrect, PTL

-----------------------------------------------------------------------------
(* Finality.                                                               *)

(* While the clock does not go back an expired token stays expired, and    *)
(* one that is usable does not become too early again (cwt.rs,             *)
(* Validator::now and check_times).                                        *)
THEOREM ExpiryCorrect == Spec => ExpiryIsFinal
<1> DEFINE Final ==
      \A v \in Validator : claims' = claims /\ clock' >= clock =>
        /\ claims.expiration # None /\ Expired(v, claims.expiration)
             => Expired(v, claims.expiration)'
        /\ claims.not_before # None /\ InTheFuture(v, claims.not_before)'
             => InTheFuture(v, claims.not_before)
<1>1. TypeOK /\ TypeOK' /\ [Next]_vars => [Final]_vars
  <2> SUFFICES ASSUME TypeOK, TypeOK', NEW v \in Validator,
                      claims' = claims, clock' >= clock
               PROVE  /\ claims.expiration # None /\ Expired(v, claims.expiration)
                           => Expired(v, claims.expiration)'
                      /\ claims.not_before # None
                           /\ InTheFuture(v, claims.not_before)'
                           => InTheFuture(v, claims.not_before)
    OBVIOUS
  <2> DEFINE n == IF v.fixed_now = None THEN SystemNow(clock) ELSE v.fixed_now
             m == IF v.fixed_now = None THEN SystemNow(clock') ELSE v.fixed_now
             s == v.clock_skew_secs
  <2>1. /\ s \in 0 .. MaxClockSkew /\ s \in Int
        /\ v.fixed_now \in -U64Max .. U64Max \cup {None}
        /\ Scale \in Nat \ {0} /\ U64Max \in Nat
    BY NumericDateConstants, CwtConstants DEF Validator, ValidatorOptions
  <2>2. /\ clock \in MinClock .. MaxClock /\ clock' \in MinClock .. MaxClock
        /\ clock \in Int /\ clock' \in Int
    BY SystemNowInRange DEF TypeOK
  <2>3. /\ SystemNow(clock) \in -U64Max .. U64Max
        /\ SystemNow(clock') \in -U64Max .. U64Max
        /\ SystemNow(clock) <= SystemNow(clock')
    BY <2>2, SystemNowInRange, SystemNowIsMonotone
  <2>4. n \in -U64Max .. U64Max /\ m \in -U64Max .. U64Max
    BY <2>1, <2>3
  <2>5. n <= m
    BY <2>1, <2>3, <2>4
  <2> HIDE DEF n, m, s
  <2>6. n * Scale \in Int /\ m * Scale \in Int /\ n * Scale <= m * Scale
    <3>1. n \in Int /\ m \in Int /\ (n = m \/ n < m)
      BY <2>1, <2>4, <2>5
    <3>2. n * Scale \in Int /\ m * Scale \in Int
      BY <2>1, <3>1
    <3>3. CASE n = m
      BY <3>2, <3>3
    <3>4. CASE n < m
      BY <2>1, <3>1, <3>2, <3>4, SecondsApart
    <3> QED BY <3>1, <3>2, <3>3, <3>4
  <2>7. ASSUME NEW d \in NumericDate, ValidDate(d)
        PROVE  /\ Compare(d, Integer(n - s)) # "Greater"
                    => Compare(d, Integer(m - s)) # "Greater"
               /\ Compare(d, Integer(m + s)) = "Greater"
                    => Compare(d, Integer(n + s)) = "Greater"
    <3> DEFINE i == Instant(d)
               a == n * Scale
               b == m * Scale
               l == s * Scale
    <3>1. /\ i \in Int /\ l \in Int
          /\ Compare(d, Integer(n - s)) = Cmp(i, a - l)
          /\ Compare(d, Integer(n + s)) = Cmp(i, a + l)
          /\ Compare(d, Integer(m - s)) = Cmp(i, b - l)
          /\ Compare(d, Integer(m + s)) = Cmp(i, b + l)
      BY <2>1, <2>4, <2>7, CompareWithNow
    <3>2. a \in Int /\ b \in Int /\ a <= b
      BY <2>6
    <3> HIDE DEF i, a, b, l
    <3> QED BY <3>1, <3>2 DEF Cmp
  <2>8. ASSUME NEW d \in NumericDate
        PROVE  /\ Expired(v, d) => Expired(v, d)'
               /\ InTheFuture(v, d)' => InTheFuture(v, d)
    BY <2>7 DEF Expired, InTheFuture, Now, n, m, s
  <2>9. /\ claims.expiration \in NumericDate \cup {None}
        /\ claims.not_before \in NumericDate \cup {None}
    BY DEF TypeOK, Claims
  <2>10. /\ claims.expiration # None =>
              (Expired(v, claims.expiration) => Expired(v, claims.expiration)')
         /\ claims.not_before # None =>
              (InTheFuture(v, claims.not_before)' =>
                 InTheFuture(v, claims.not_before))
    BY <2>8, <2>9 DEF Expired, InTheFuture
  <2> QED BY <2>10
<1> QED BY <1>1, TypeCorrect, PTL DEF Spec, ExpiryIsFinal

-----------------------------------------------------------------------------
(* The two ways to the claims.                                             *)

(* A claims map and the claims read from it get the same verdict (cwt.rs,  *)
(* validate_map and from_map with validate).                               *)
THEOREM PathsAgree == Spec => []TypedAndMapAgree
<1>1. TypedAndMapAgree
  <2> SUFFICES ASSUME map # None, HasClaims(map), NEW v \in Validator
               PROVE  ValidateMap(v, map) <=> Validate(v, FromMap(map))
    BY DEF TypedAndMapAgree
  <2> DEFINE c == FromMap(map)
  <2>1. /\ \A k \in {"exp", "nbf", "iat"} : IsDate(map[k])
        /\ IsText(map["iss"]) /\ IsAudience(map["aud"])
    BY DEF HasClaims
  <2>2. /\ c.expiration = DateFrom(map["exp"])
        /\ c.not_before = DateFrom(map["nbf"])
        /\ c.issued_at = DateFrom(map["iat"])
        /\ c.issuer = TextFrom(map["iss"])
        /\ c.audience = AudienceFrom(map["aud"])
    BY DEF FromMap
  <2> HIDE DEF c
  <2>3. ValidateMap(v, map) <=> Validate(v, c)
    BY <2>1, <2>2 DEF ValidateMap, Validate
  <2> QED BY <2>3 DEF c
<1> QED BY <1>1, PTL

(* What is written is of the kind that is read, and is read back.          *)
LEMMA WriteThenRead ==
  ASSUME NEW x \in Name \cup {None}, NEW d \in NumericDate \cup {None},
         d # None => ValidDate(d), NEW a \in Audience \cup {None}
  PROVE  /\ IsText(TextValue(x)) /\ TextFrom(TextValue(x)) = x
         /\ IsBytes(BytesValue(x)) /\ BytesFrom(BytesValue(x)) = x
         /\ IsDate(DateValue(d)) /\ DateFrom(DateValue(d)) = d
         /\ IsAudience(AudienceValue(a)) /\ AudienceFrom(AudienceValue(a)) = a
<1>1. None \notin Value
  BY CwtConstants
<1>2. /\ IsText(TextValue(x)) /\ TextFrom(TextValue(x)) = x
      /\ IsBytes(BytesValue(x)) /\ BytesFrom(BytesValue(x)) = x
  <2>1. CASE x = None
    BY <2>1 DEF TextValue, IsText, TextFrom, BytesValue, IsBytes, BytesFrom
  <2>2. CASE x # None
    <3>1. Text(x) # None /\ ByteString(x) # None
      BY <1>1, <2>2 DEF Text, ByteString, Value, Scalar
    <3> QED BY <2>2, <3>1 DEF TextValue, IsText, TextFrom, Text,
                              BytesValue, IsBytes, BytesFrom, ByteString
  <2> QED BY <2>1, <2>2
<1>3. IsDate(DateValue(d)) /\ DateFrom(DateValue(d)) = d
  <2>1. CASE d = None
    BY <2>1 DEF DateValue, IsDate, DateFrom
  <2>2. CASE d # None
    <3>1. d \in NumericDate /\ d.kind # "NotFinite"
      BY <2>2 DEF ValidDate
    <3>2. DateValue(d) # None
      BY <1>1, <2>2, WriteTypes, <3>1, FiniteDate
      DEF DateValue, Int_, Float_, ValidDate, Value, Scalar
    <3>3. CASE d \in [kind : {"Integer"}, at : I128]
      BY <2>2, <3>2, <3>3
      DEF DateValue, IsDate, DateFrom, Int_, Integer
    <3>4. CASE d \in [kind : {"Float"}, at : Int]
      BY <2>2, <3>2, <3>4
      DEF DateValue, IsDate, DateFrom, Float_, Float
    <3>5. d # NotFinite
      BY <3>1 DEF NotFinite
    <3> QED BY <3>1, <3>3, <3>4, <3>5 DEF NumericDate
  <2> QED BY <2>1, <2>2
<1>4. IsAudience(AudienceValue(a)) /\ AudienceFrom(AudienceValue(a)) = a
  <2>1. CASE a = None
    BY <2>1 DEF AudienceValue, IsAudience, IsText, AudienceFrom
  <2>2. CASE a # None /\ a \in [form : {"one"}, one : Name]
    <3>1. Text(a.one) # None
      BY <1>1, <2>2 DEF Text, Value, Scalar
    <3> QED BY <2>2, <3>1
            DEF AudienceValue, IsAudience, IsText, AudienceFrom, Text, One
  <2>3. CASE a # None /\ a \in [form : {"many"}, many : Seq(Name)]
    <3> DEFINE items == [i \in DOMAIN a.many |-> Text(a.many[i])]
    <3>1. AudienceValue(a) = ArrayOf(items)
      BY <2>3 DEF AudienceValue
    <3>2. items \in Seq(Scalar)
      BY <2>3 DEF Text, Scalar
    <3>3. ArrayOf(items) # None
      BY <1>1, <3>2 DEF ArrayOf, Value
    <3>4. \A i \in DOMAIN items : items[i] = Text(a.many[i])
      OBVIOUS
    <3>5. [i \in DOMAIN items |-> items[i].text] = a.many
      BY <2>3, <3>4 DEF Text
    <3>6. \A i \in DOMAIN items : items[i].t = "text"
      BY <3>4 DEF Text
    <3> HIDE DEF items
    <3>7. AudienceFrom(ArrayOf(items)) = Many(a.many)
      BY <3>3, <3>5 DEF AudienceFrom, ArrayOf
    <3>8. Many(a.many) = a
      BY <2>3 DEF Many
    <3>9. IsAudience(ArrayOf(items))
      BY <3>6 DEF IsAudience, ArrayOf
    <3> QED BY <3>1, <3>7, <3>8, <3>9
  <2> QED BY <2>1, <2>2, <2>3 DEF Audience
<1> QED BY <1>2, <1>3, <1>4

(* Encoding and decoding a claims object changes nothing (cwt.rs, to_map   *)
(* and from_map).                                                          *)
THEOREM RoundTripCorrect == Spec => []ClaimsRoundTrip
<1>1. TypeOK => ClaimsRoundTrip
  <2> DEFINE c == claims
             m == ToMap(claims)
  <2> SUFFICES ASSUME TypeOK, HasMap(c),
                      \A k \in PresentIn(c.extra) \cap Registered :
                        TypedPart(c)[k] # None
               PROVE  HasClaims(m) /\ FromMap(m) = c
    BY DEF ClaimsRoundTrip
  <2>1. /\ c \in Claims /\ c.extra \in ClaimsMap
        /\ DOMAIN c.extra = Registered \cup Private
        /\ c.issuer \in Name \cup {None} /\ c.subject \in Name \cup {None}
        /\ c.audience \in Audience \cup {None}
        /\ c.cwt_id \in Name \cup {None}
        /\ c.expiration \in NumericDate \cup {None}
        /\ c.not_before \in NumericDate \cup {None}
        /\ c.issued_at \in NumericDate \cup {None}
    BY DEF TypeOK, Claims, ClaimsMap
  <2>2. /\ c.expiration # None => ValidDate(c.expiration)
        /\ c.not_before # None => ValidDate(c.not_before)
        /\ c.issued_at # None => ValidDate(c.issued_at)
    BY DEF HasMap, Dates
  <2> HIDE DEF c
  <2>3. \A k \in Registered : c.extra[k] = None
    BY <2>1 DEF HasMap, PresentIn
  <2>4. \A k \in Registered : m[k] = TypedPart(c)[k]
    BY <2>1, <2>3 DEF ToMap, c
  <2>5. \A k \in Private \ Registered : m[k] = c.extra[k]
    BY <2>1 DEF ToMap, TypedPart, Registered, c
  <2>6. /\ m["iss"] = TextValue(c.issuer) /\ m["sub"] = TextValue(c.subject)
        /\ m["aud"] = AudienceValue(c.audience)
        /\ m["cti"] = BytesValue(c.cwt_id)
        /\ m["exp"] = DateValue(c.expiration)
        /\ m["nbf"] = DateValue(c.not_before)
        /\ m["iat"] = DateValue(c.issued_at)
    BY <2>1, <2>4 DEF TypedPart, Registered
  <2>7. DOMAIN m = Registered \cup Private
    BY <2>1 DEF ToMap, c
  <2> HIDE DEF m
  <2>8. HasClaims(m)
    BY <2>1, <2>2, <2>6, WriteThenRead DEF HasClaims
  <2>9. /\ TextFrom(m["iss"]) = c.issuer /\ TextFrom(m["sub"]) = c.subject
        /\ AudienceFrom(m["aud"]) = c.audience
        /\ BytesFrom(m["cti"]) = c.cwt_id
    BY <2>1, <2>6, WriteThenRead
  <2>10. /\ DateFrom(m["exp"]) = c.expiration
         /\ DateFrom(m["nbf"]) = c.not_before
         /\ DateFrom(m["iat"]) = c.issued_at
    BY <2>1, <2>2, <2>6, WriteThenRead
  <2>11. [k \in DOMAIN m |-> IF k \in Registered THEN None ELSE m[k]] = c.extra
    BY <2>1, <2>3, <2>5, <2>7 DEF ClaimsMap
  <2>12. FromMap(m) = c
    BY <2>1, <2>9, <2>10, <2>11 DEF FromMap, Claims
  <2> QED BY <2>8, <2>12
<1> QED BY <1>1, TypeCorrect, PTL
=============================================================================
