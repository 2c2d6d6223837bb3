----------------------------- MODULE NumericDate -----------------------------
(***************************************************************************)
(* CWT dates and the clock (src/src/cwt.rs).                               *)
(*                                                                         *)
(* Time is counted in parts of a second, Scale to the second, small enough *)
(* for every instant in play to be a whole number of parts: a finite f64   *)
(* and a nanosecond are such numbers for a suitable Scale.                 *)
(***************************************************************************)
EXTENDS Integers

CONSTANTS
  Scale,     \* parts in a second
  U64Max,    \* u64::MAX; CBOR integers reach from -1 - U64Max to U64Max
  I128Max    \* i128::MAX; an i128 reaches from -1 - I128Max to I128Max

ASSUME NumericDateConstants ==
  /\ Scale \in Nat \ {0}
  /\ U64Max \in Nat \ {0}
  /\ I128Max \in Nat /\ U64Max < I128Max

I128 == -1 - I128Max .. I128Max
CborInteger == -1 - U64Max .. U64Max

(* NumericDate: a number of seconds, as an integer or as a float.  The     *)
(* infinities and the NaNs, which the code treats alike, are NotFinite.    *)
Integer(seconds) == [kind |-> "Integer", at |-> seconds]
Float(parts) == [kind |-> "Float", at |-> parts]
NotFinite == [kind |-> "NotFinite", at |-> 0]
NumericDate ==
  [kind : {"Integer"}, at : I128] \cup [kind : {"Float"}, at : Int]
    \cup {NotFinite}

(* NumericDate::validate                                                   *)
ValidDate(d) ==
  /\ d.kind # "NotFinite"
  /\ d.kind = "Integer" => d.at \in CborInteger

-----------------------------------------------------------------------------
(* Comparison.                                                             *)
Cmp(x, y) == IF x < y THEN "Less" ELSE IF x = y THEN "Equal" ELSE "Greater"
Reverse(ordering) ==
  IF ordering = "Less" THEN "Greater"
  ELSE IF ordering = "Greater" THEN "Less" ELSE ordering

(* The cast of a float to i128 cuts the fraction off, towards zero.        *)
Truncate(parts) ==
  IF parts >= 0 THEN parts \div Scale ELSE -((-parts) \div Scale)

\* Faulty variant: forgets that a fraction is cut off towards zero.
CompareFloatToInteger_IgnoresFraction(parts, other) ==
  IF parts >= (I128Max + 1) * Scale THEN "Greater"
  ELSE IF parts < -(I128Max + 1) * Scale THEN "Less"
  ELSE Cmp(Truncate(parts), other)

(* compare_f64_to_i128: i128::MAX as a float is the next power of two.     *)
CompareFloatToInteger(parts, other) ==
  IF parts >= (I128Max + 1) * Scale THEN "Greater"
  ELSE IF parts < -(I128Max + 1) * Scale THEN "Less"
  ELSE IF Truncate(parts) # other THEN Cmp(Truncate(parts), other)
  ELSE IF parts = other * Scale THEN "Equal"
  ELSE IF parts < 0 THEN "Less" ELSE "Greater"

(* NumericDate::compare; "None" when a float is not finite.                *)
Compare(d, e) ==
  IF "NotFinite" \in {d.kind, e.kind} THEN "None"
  ELSE IF d.kind = e.kind THEN Cmp(d.at, e.at)
  ELSE IF d.kind = "Float" THEN CompareFloatToInteger(d.at, e.at)
  ELSE Reverse(CompareFloatToInteger(e.at, d.at))

-----------------------------------------------------------------------------
(* The clock: parts of a second since the epoch, negative before it.       *)

\* Faulty variant: reads the time before the epoch as the time after it.
SystemNow_Unsigned(clock) ==
  (IF clock >= 0 THEN clock ELSE -clock) \div Scale

(* Validator::now without a fixed time: whole seconds since the epoch, or  *)
(* the whole seconds before it, one more for a started second.             *)
SystemNow(clock) ==
  IF clock >= 0 THEN clock \div Scale
  ELSE -((-clock) \div Scale) - (IF (-clock) % Scale # 0 THEN 1 ELSE 0)

-----------------------------------------------------------------------------
(* The instant a finite date stands for: what the comparison must respect. *)
Instant(d) == IF d.kind = "Integer" THEN d.at * Scale ELSE d.at
=============================================================================
