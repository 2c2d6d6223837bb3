------------------------------ MODULE CoseNonce ------------------------------
(***************************************************************************)
(* The AEAD nonce of an encrypted message (src/src/util.rs): a full IV, or *)
(* a Partial IV combined with the Base IV of the key.                      *)
(*                                                                         *)
(* A byte string is a sequence of bytes and a byte is one bit wide: the    *)
(* code combines bytes with XOR only, which never carries from one to the  *)
(* next.                                                                   *)
(***************************************************************************)
EXTENDS CoseHeader

Byte == {"0", "1"}

CONSTANTS
  NonceBytes    \* byte strings: nonces, IVs, Partial IVs, Base IVs

ASSUME NonceConstants ==
  NonceBytes \subseteq Seq(Byte) /\ None \notin NonceBytes

(* util::header_bytes: the protected bucket wins.                          *)
HeaderBytes(m, l) ==
  IF l \in Present(m.protected) THEN m.protected[l] ELSE Get(m.unprotected, l)

Xor(a, b) == [i \in DOMAIN a |-> IF a[i] = b[i] THEN "0" ELSE "1"]

\* Faulty variant: fills up with zeros on the right.
LeftPad_OnTheRight(piv, size) ==
  [i \in 1..size |-> IF i <= Len(piv) THEN piv[i] ELSE "0"]

(* A Partial IV is a big-endian number: it is filled up with zeros on the  *)
(* left.                                                                   *)
LeftPad(piv, size) ==
  LET zeros == size - Len(piv)
  IN [i \in 1..size |-> IF i <= zeros THEN "0" ELSE piv[i - zeros]]

(* util::nonce_from_header_values; None when it returns an error.  Of the  *)
(* two values, get_bytes refuses one that is not a byte string.            *)
Nonce(m, size, baseIv) ==
  LET iv == HeaderBytes(m, "iv")
      piv == HeaderBytes(m, "piv")
  IN IF ~ ({iv, piv} \subseteq NonceBytes \cup {None}) THEN None
     ELSE IF None \notin {iv, piv} THEN None
     ELSE IF piv = None
     THEN IF iv # None /\ Len(iv) = size THEN iv ELSE None
     ELSE IF baseIv # None /\ Len(baseIv) = size /\ Len(piv) <= size
     THEN Xor(LeftPad(piv, size), baseIv) ELSE None
=============================================================================
