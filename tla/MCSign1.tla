------------------------------- MODULE MCSign1 -------------------------------
(* An instance of Sign1Message for TLC: in-process and remote signers.      *)
EXTENDS Sign1Message

CONSTANTS A1, A2, K1, K2, V, p1, p2, x1, x2, k1, k2

MCLabel == {"alg", "kid", "crit", "app"}
MCHeaderValue ==
  {A1, A2, K1, K2, V, Malformed, <<"app">>, << >>, <<"app", "app">>}

AlgHeader(a) == With(EmptyHeader, "alg", a)
AppHeader == With(EmptyHeader, "app", V)
CritHeader == With(With(EmptyHeader, "app", V), "crit", <<"app">>)
AbsentCritHeader == With(EmptyHeader, "crit", <<"app">>)
BadKidHeader == With(EmptyHeader, "kid", Malformed)

(* An algorithm that moves buckets, one that disagrees, a critical label   *)
(* some verifiers do not know, a crit naming an absent label, and labels   *)
(* that collide with the other bucket.                                     *)
MCProtectedEdit ==
  {EmptyHeader, AlgHeader(A1), CritHeader, AbsentCritHeader}
MCUnprotectedEdit == {EmptyHeader, AlgHeader(A1), AppHeader, BadKidHeader}
MCForeignRaw ==
  {[hdr |-> EmptyHeader, canon |-> FALSE],
   [hdr |-> AlgHeader(A1), canon |-> FALSE],
   [hdr |-> CritHeader, canon |-> FALSE]}

MCSigner == {[key |-> k1, alg |-> A1, kid |-> K1],
             [key |-> k2, alg |-> A2, kid |-> None],
             [key |-> k2, alg |-> None, kid |-> K2]}
MCVerifier == {[key |-> k1, alg |-> A1, understood |-> {"app"}],
               [key |-> k1, alg |-> None, understood |-> {}],
               [key |-> k2, alg |-> A2, understood |-> {}],
               [key |-> k2, alg |-> None, understood |-> {"app"}]}
=============================================================================
