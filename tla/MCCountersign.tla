---------------------------- MODULE MCCountersign ----------------------------
(* An instance of CounterSignature for TLC: two targets that differ in      *)
(* their bytes or in their body, and two keys.                              *)
EXTENDS CounterSignature

CONSTANTS A1, A2, K1, V, b1, b2, x1, k1, k2

MCLabel == {"alg", "kid", "crit", "app"}
MCHeaderValue == {A1, A2, K1, V, Malformed, <<"app">>, << >>}

AlgHeader(a) == With(EmptyHeader, "alg", a)
CritHeader == With(With(EmptyHeader, "app", V), "crit", <<"app">>)
AppHeader == With(EmptyHeader, "app", V)

MCProtectedEdit == {EmptyHeader, AlgHeader(A1), CritHeader}
MCUnprotectedEdit == {EmptyHeader, AlgHeader(A1), AppHeader}
MCForeignRaw == {[hdr |-> AlgHeader(A1), canon |-> FALSE]}

MCTarget == {[raw |-> EncodeProtected(AlgHeader(A1)), body |-> b1],
             [raw |-> EncodeProtected(AlgHeader(A1)), body |-> b2],
             [raw |-> [hdr |-> AlgHeader(A1), canon |-> FALSE], body |-> b1]}

MCSigner == {[key |-> k1, alg |-> A1, kid |-> K1],
             [key |-> k2, alg |-> None, kid |-> None]}
MCVerifier == {[key |-> k1, alg |-> A1, understood |-> {"app"}],
               [key |-> k2, alg |-> A2, understood |-> {}],
               [key |-> k2, alg |-> None, understood |-> {"app"}]}
=============================================================================
