------------------------------- MODULE MCCwt -------------------------------
(* Instances of CwtToken for TLC.                                          *)
EXTENDS CwtToken

OptDate == {None, Integer(0), Integer(1), Integer(-1), Float(0), Float(1),
            Float(-1), Float(3)}
(* Dates CBOR or an f64 cannot carry, and dates beyond an i128.            *)
OddDate == {NotFinite, Integer(U64Max + 1), Integer(-2 - U64Max),
            Float(2 * Scale * I128Max), Float(-2 * Scale * I128Max)}
Extra(k, value) == [NoClaims EXCEPT ![k] = value]

Of(iss, aud, exp, nbf, iat) ==
  [NewClaims EXCEPT !.issuer = iss, !.audience = aud, !.expiration = exp,
                    !.not_before = nbf, !.issued_at = iat]
a == One("a")
ab == Many(<<"b", "a">>)

MCClaimsEdit ==
  {Of(None, None, d, None, None) : d \in OptDate \cup OddDate}
    \cup {Of(None, None, Integer(2), d, None) : d \in OptDate \cup OddDate}
    \cup {Of(None, None, Integer(2), None, d) : d \in OptDate \cup OddDate}
    \cup {Of(None, None, Float(3), Float(-1), None)}
    \cup {Of(iss, aud, Integer(2), None, None) :
            iss \in {None, "a"}, aud \in {a, ab, Many(<< >>)}}
    \cup {[Of("a", a, Integer(2), Float(1), Float(-1)) EXCEPT
             !.subject = "b", !.cwt_id = "a", !.extra = e] :
            e \in {NoClaims, Extra("role", Text("b")),
                   Extra("exp", Int_(-1)), Extra("iss", Text("a"))}}
    \cup {[NewClaims EXCEPT !.extra = Extra("exp", Int_(2))]}

MCForeignMap ==
  {[NoClaims EXCEPT !["exp"] = exp] : exp \in {NaN, Text("a"), Float_(1)}}
    \cup {[NoClaims EXCEPT !["exp"] = Int_(2), !["nbf"] = nbf] :
            nbf \in {NaN, Int_(0), Float_(-1)}}
    \cup {[NoClaims EXCEPT !["exp"] = Int_(2), ![k] = value] :
            k \in {"iss", "aud"},
            value \in {Text("a"), Int_(3), ArrayOf(<<Text("b"), Text("a")>>),
                       ArrayOf(<<Text("a"), Int_(1)>>)}}
    \cup {[NoClaims EXCEPT !["exp"] = Int_(2), ![k] = NaN] :
            k \in {"sub", "iat", "cti", "role"}}

Asks(iss, aud, missing, past, skew, now) ==
  [expected_issuer |-> iss, expected_audience |-> aud,
   allow_missing_expiration |-> missing, expect_issued_in_the_past |-> past,
   clock_skew_secs |-> skew, fixed_now |-> now]
MCMinClock == -3
MCOptions ==
  {Asks(None, None, missing, past, skew, None) :
     missing \in BOOLEAN, past \in BOOLEAN, skew \in 0 .. 2}
    \cup {Asks(iss, "a", FALSE, TRUE, 0, None) : iss \in {None, "a"}}
    \cup {Asks("a", None, FALSE, TRUE, 1, now) : now \in {-1, 1}}
=============================================================================
