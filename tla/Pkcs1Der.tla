------------------------------ MODULE Pkcs1Der ------------------------------
(***************************************************************************)
(* The DER documents RSA keys pass through (src/src/crypto.rs): what       *)
(* RingSigner makes of a COSE_Key for its backend, and what RingVerifier   *)
(* reads when it exports a key that was given as a document.               *)
(*                                                                         *)
(* Bytes are the numbers below Radix, so that a small radix meets every    *)
(* form of length and sign byte in short documents.  The code has          *)
(* Radix = 256 and WordBytes = 8, the bytes of a usize.                    *)
(***************************************************************************)
EXTENDS Integers, Sequences, SequencesExt, FiniteSetsExt

CONSTANTS
  Radix,      \* the values of a byte
  WordBytes,  \* std::mem::size_of::<usize>()
  IntegerTag, SequenceTag,
  DerNumber   \* the numbers of the instance: big-endian byte strings

(* What WordBytes bytes can say.                                           *)
UsizeValues ==
  LET Power[k \in 0 .. WordBytes] == IF k = 0 THEN 1 ELSE Radix * Power[k - 1]
  IN Power[WordBytes]

ASSUME DerConstants ==
  /\ Radix \in Nat /\ WordBytes \in Nat \ {0}
  /\ Radix % 2 = 0 /\ WordBytes < Radix \div 2
  /\ {IntegerTag, SequenceTag} \subseteq 0 .. Radix - 1
  /\ IntegerTag # SequenceTag
  /\ DerNumber \subseteq Seq(0 .. Radix - 1) \ {<< >>}
  /\ \A m, n \in DerNumber :   \* no document is longer than memory
       Len(m) + Len(n) + 2 * WordBytes + 30 < UsizeValues

HighBit == Radix \div 2    \* 0x80
From(bytes, i) == SubSeq(bytes, i, Len(bytes))

(* usize::to_be_bytes                                                      *)
ToBeBytes(n) ==
  LET Rest[k \in 0 .. WordBytes] == IF k = 0 THEN n ELSE Rest[k - 1] \div Radix
  IN [i \in 1 .. WordBytes |-> Rest[WordBytes - i] % Radix]

(* The number some bytes are, the most significant byte first.             *)
FromBeBytes(bytes) ==
  LET Read[i \in 0 .. Len(bytes)] ==
        IF i = 0 THEN 0 ELSE Read[i - 1] * Radix + bytes[i]
  IN Read[Len(bytes)]

(* Without leading zeros, of which one is kept when there is nothing else. *)
Stripped(bytes) ==
  From(bytes, Min({i \in DOMAIN bytes : bytes[i] # 0} \cup {Len(bytes)}))

DerLength(n) ==
  IF n < HighBit THEN <<n>>
  ELSE LET be == Stripped(ToBeBytes(n)) IN <<HighBit + Len(be)>> \o be

\* Faulty variant: a number with its high bit set gets no sign byte.
DerUnsignedInteger_Unsigned(value) ==
  LET magnitude == Stripped(value)
  IN <<IntegerTag>> \o DerLength(Len(magnitude)) \o magnitude

DerUnsignedInteger(value) ==
  LET magnitude == Stripped(value)
      content == IF magnitude # << >> /\ magnitude[1] >= HighBit
                 THEN <<0>> \o magnitude ELSE magnitude
  IN <<IntegerTag>> \o DerLength(Len(content)) \o content

(* A SEQUENCE of integers.                                                 *)
DerSequence(numbers) ==
  LET body == FlattenSeq([i \in DOMAIN numbers |-> DerUnsignedInteger(numbers[i])])
  IN <<SequenceTag>> \o DerLength(Len(body)) \o body

(* rsa_pkcs1_private_key_der: version 0, then n, e, d, p, q, dP, dQ, qInv. *)
RsaPkcs1PrivateKeyDer(fields) == DerSequence(<<<<0>>>> \o fields)

-----------------------------------------------------------------------------
BadDer == [ok |-> FALSE]

(* der_read_length: the long form needs not be the shortest.               *)
DerReadLength(input) ==
  IF input = << >> THEN BadDer
  ELSE LET count == input[1] % HighBit
           rest == From(input, 2)
       IN IF input[1] < HighBit
          THEN [ok |-> TRUE, len |-> input[1], rest |-> rest]
          ELSE IF count = 0 \/ count > WordBytes \/ Len(rest) < count
          THEN BadDer
          ELSE [ok |-> TRUE, rest |-> From(rest, count + 1),
                len |-> FromBeBytes(SubSeq(rest, 1, count))]

DerTakeTlv(input, tag) ==
  IF input = << >> \/ input[1] # tag THEN BadDer
  ELSE LET l == DerReadLength(From(input, 2))
       IN IF ~ l.ok \/ Len(l.rest) < l.len THEN BadDer
          ELSE [ok |-> TRUE, val |-> SubSeq(l.rest, 1, l.len),
                rest |-> From(l.rest, l.len + 1)]

(* der_integer_magnitude: one leading zero is the sign byte.               *)
DerIntegerMagnitude(bytes) ==
  IF Len(bytes) > 1 /\ bytes[1] = 0 THEN Tail(bytes) ELSE bytes

RsaPublicKeyFromDer(der) ==
  LET seq == DerTakeTlv(der, SequenceTag)
      n == IF seq.ok THEN DerTakeTlv(seq.val, IntegerTag) ELSE seq
      e == IF n.ok THEN DerTakeTlv(n.rest, IntegerTag) ELSE n
  IN IF e.ok /\ seq.rest = << >> /\ e.rest = << >>
     THEN [ok |-> TRUE, n |-> DerIntegerMagnitude(n.val),
           e |-> DerIntegerMagnitude(e.val)]
     ELSE BadDer

-----------------------------------------------------------------------------
(* What DER says of a number: two's complement, in the fewest octets.      *)
IsMinimalPositive(content) ==
  /\ content # << >> /\ content[1] < HighBit
  /\ Len(content) > 1 => content[1] # 0 \/ content[2] >= HighBit

(* The integers of a document, read one after the other.                   *)
IntegersOf(der, count) ==
  LET Read[i \in 0 .. count] ==
        IF i = 0 THEN DerTakeTlv(DerTakeTlv(der, SequenceTag).val, IntegerTag)
        ELSE IF Read[i - 1].ok THEN DerTakeTlv(Read[i - 1].rest, IntegerTag)
        ELSE BadDer
  IN [i \in 1 .. count |-> Read[i - 1]]

(* A number written once into each of the eight fields of a private key.   *)
PrivateFields(m) ==
  {[j \in 1 .. 8 |-> IF i = j THEN m ELSE <<1>>] : i \in 1 .. 8}

(* Whatever numbers an RSA key has, they pass through their documents.     *)
NumbersSurviveDer ==
  /\ \A m \in DerNumber : \A fields \in PrivateFields(m) :
       LET read == IntegersOf(RsaPkcs1PrivateKeyDer(fields), 9)
       IN /\ \A i \in 1 .. 9 : read[i].ok /\ IsMinimalPositive(read[i].val)
          /\ read[9].rest = << >> /\ FromBeBytes(read[1].val) = 0
          /\ \A i \in 1 .. 8 : FromBeBytes(read[i + 1].val) = FromBeBytes(fields[i])
  /\ \A n, e \in DerNumber :
       LET der == DerSequence(<<n, e>>)
       IN /\ RsaPublicKeyFromDer(der) =
               [ok |-> TRUE, n |-> Stripped(n), e |-> Stripped(e)]
          /\ ~ RsaPublicKeyFromDer(Front(der)).ok
          /\ \A b \in {0, IntegerTag} : ~ RsaPublicKeyFromDer(Append(der, b)).ok
=============================================================================
