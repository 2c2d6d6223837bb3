-------------------------------- MODULE MCSign --------------------------------
(* Instances of SignMessage for TLC: two slots, two signers, headers that  *)
(* move in and out of agreement with the bytes that were signed.           *)
EXTENDS SignMessage

CONSTANTS A1, K1, K2, V, p1, p2, x1, x2, k1, k2

MCLabel == {"alg", "kid", "crit", "app"}
MCHeaderValue == {A1, K1, K2, V, Malformed, <<"app">>}

KidHeader(k) == With(EmptyHeader, "kid", k)
CritHeader == With(With(EmptyHeader, "app", V), "crit", <<"app">>)
BadHeader == With(EmptyHeader, "crit", <<"app">>)

(* A critical label that some verifiers do not know, and a crit naming an  *)
(* absent label, which no layer may carry.                                 *)
MCBodyEdit == {EmptyHeader, CritHeader}
MCSlotEdit == {EmptyHeader, KidHeader(K2), CritHeader}
MCForeignRaw == {[hdr |-> EmptyHeader, canon |-> FALSE],
                 [hdr |-> CritHeader, canon |-> FALSE]}

(* The run with remote signers: headers that make set_signatures fail half *)
(* way; rounds that differ in their additional data.                       *)
MCRemoteBodyEdit == {EmptyHeader}
MCRemoteSlotEdit == {EmptyHeader, BadHeader}

MCSigner == {[key |-> k1, alg |-> A1, kid |-> K1],
             [key |-> k2, alg |-> None, kid |-> None]}
MCRemoteSigner == {[key |-> k1, alg |-> A1, kid |-> None]}
MCRemoteVerifier ==
  {[key |-> k1, alg |-> None, kid |-> None, understood |-> {"app"}]}
MCVerifier ==
  {[key |-> k1, alg |-> A1, kid |-> K1, understood |-> {"app"}],
   [key |-> k2, alg |-> None, kid |-> K2, understood |-> {"app"}],
   [key |-> k2, alg |-> None, kid |-> None, understood |-> {}]}
=============================================================================
