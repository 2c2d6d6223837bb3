--------------------------- MODULE KeyRingProofs ---------------------------
(***************************************************************************)
(* Proofs about KeyRing, for every choice of its constants: no provider    *)
(* does with a secret what no key permitted, an exported key restores its  *)
(* provider, and key sets travel whole.  And about StrictCbor, whose proof *)
(* stands on the same lemmas about rows: a parse stays within its limits.  *)
(***************************************************************************)
EXTENDS KeyRing, ParseAnswer, TLAPS, FiniteSetTheorems, SequenceTheorems

-----------------------------------------------------------------------------
(* The readable members of an encoded set.                                 *)

LEMMA RowOf ==
  ASSUME NEW n \in Nat, NEW f, f = [i \in 1 .. n |-> f[i]]
  PROVE  IsRow(f) /\ Len(f) = n
<1>1. f \in [1 .. n -> {f[i] : i \in 1 .. n}]
  OBVIOUS
<1>2. f \in Seq({f[i] : i \in 1 .. n}) /\ Len(f) = n /\ DOMAIN f = 1 .. n
  BY <1>1
<1> QED
  BY <1>2 DEF IsRow

LEMMA CountTo ==
  ASSUME NEW n \in Nat
  PROVE  IsFiniteSet(1 .. n) /\ Cardinality(1 .. n) = n
BY FS_Interval

(* Counting the members of a finite set of numbers up to each of them      *)
(* numbers them without gaps.                                              *)
LEMMA RanksCount ==
  ASSUME NEW n \in Nat, NEW at \in SUBSET (1 .. n)
  PROVE  /\ IsFiniteSet(at) /\ Cardinality(at) \in Nat
         /\ \A j \in 1 .. Cardinality(at) :
              \E i \in at : Cardinality({k \in at : k <= i}) = j
         /\ \A i \in at : Cardinality({k \in at : k <= i}) \in 1 .. Cardinality(at)
         /\ \A i, j \in at : Cardinality({k \in at : k <= i})
                               = Cardinality({k \in at : k <= j}) => i = j
<1> DEFINE Upto(i) == {k \in at : k <= i}
           c == Cardinality(at)
           rank == [i \in at |-> Cardinality(Upto(i))]
<1>1. IsFiniteSet(at) /\ c \in Nat
  <2>1. IsFiniteSet(1 .. n)
    BY CountTo
  <2> QED
    BY <2>1, FS_Subset, FS_CardinalityType
<1>2. ASSUME NEW i \in at
      PROVE  IsFiniteSet(Upto(i)) /\ rank[i] \in 1 .. c
  <2>1. Upto(i) \subseteq at /\ i \in Upto(i)
    OBVIOUS
  <2>2. IsFiniteSet(Upto(i)) /\ Cardinality(Upto(i)) \in Nat
        /\ Cardinality(Upto(i)) <= c
    BY <1>1, <2>1, FS_Subset, FS_CardinalityType
  <2>3. Cardinality(Upto(i)) # 0
    BY <2>1, <2>2, FS_EmptySet
  <2> HIDE DEF Upto, c
  <2> QED
    BY <1>1, <2>2, <2>3
<1>3. ASSUME NEW i \in at, NEW j \in at, i < j
      PROVE  rank[i] < rank[j]
  <2>1. Upto(i) \subseteq Upto(j) /\ j \in Upto(j) /\ j \notin Upto(i)
    <3>1. i \in Int /\ j \in Int /\ \A k \in at : k \in Int
      OBVIOUS
    <3>2. \A k \in at : k <= i => k <= j
      BY <1>3, <3>1
    <3>3. ~ (j <= i) /\ j <= j
      BY <1>3, <3>1
    <3> QED
      BY <3>2, <3>3
  <2>2. IsFiniteSet(Upto(j))
    BY <1>2
  <2> HIDE DEF Upto
  <2>3. Cardinality(Upto(i)) <= Cardinality(Upto(j))
        /\ Cardinality(Upto(j)) # Cardinality(Upto(i))
    BY <2>1, <2>2, FS_Subset
  <2>4. Cardinality(Upto(i)) \in Nat /\ Cardinality(Upto(j)) \in Nat
    BY <1>1, <1>2
  <2> QED
    BY <2>3, <2>4
<1>4. \A i, j \in at : rank[i] = rank[j] => i = j
  <2> SUFFICES ASSUME NEW i \in at, NEW j \in at, rank[i] = rank[j], i # j
               PROVE  FALSE
    OBVIOUS
  <2>1. i < j \/ j < i
    OBVIOUS
  <2>2. rank[i] \in Nat /\ rank[j] \in Nat
    BY <1>1, <1>2
  <2> HIDE DEF rank
  <2> QED
    BY <1>3, <2>1, <2>2
<1>5. rank \in Injection(at, 1 .. c)
  <2>1. rank \in [at -> 1 .. c]
    BY <1>2
  <2> HIDE DEF rank
  <2> QED
    BY <1>4, <2>1 DEF Injection, IsInjective
<1>6. IsFiniteSet(1 .. c) /\ Cardinality(1 .. c) = c
  BY <1>1, CountTo
<1>7. rank \in Surjection(at, 1 .. c)
  BY <1>5, <1>6, FS_Injection
<1>8. \A j \in 1 .. c : \E i \in at : rank[i] = j
  BY <1>7 DEF Surjection
<1> QED
  BY <1>1, <1>2, <1>4, <1>8

(* Readable keeps exactly the members that can be read, and a row of       *)
(* nothing else as it is.                                                  *)
LEMMA ReadableKeeps ==
  ASSUME NEW ms, IsRow(ms)
  PROVE  LET kept == Readable(ms)
             at == {i \in DOMAIN ms : ReadMember(ms[i])}
         IN /\ IsRow(kept)
            /\ \A j \in DOMAIN kept : \E i \in at : kept[j] = ms[i]
            /\ \A i \in at : \E j \in DOMAIN kept : kept[j] = ms[i]
            /\ (\A i \in DOMAIN ms : ReadMember(ms[i])) =>
                 /\ DOMAIN kept = DOMAIN ms
                 /\ \A i \in DOMAIN ms : kept[i] = ms[i]
<1> DEFINE kept == Readable(ms)
           at == {i \in DOMAIN ms : ReadMember(ms[i])}
           c == Cardinality(at)
           Rank(i) == Cardinality({k \in at : k <= i})
           nth(j) == CHOOSE i \in at : Rank(i) = j
<1>1. Len(ms) \in Nat /\ DOMAIN ms = 1 .. Len(ms) /\ at \in SUBSET (1 .. Len(ms))
  BY DEF IsRow
<1>2. kept = [j \in 1 .. c |-> ms[nth(j)]]
  BY DEF Readable
<1> HIDE DEF at
<1>3. /\ IsFiniteSet(at) /\ c \in Nat
      /\ \A j \in 1 .. c : \E i \in at : Rank(i) = j
      /\ \A i \in at : Rank(i) \in 1 .. c
      /\ \A i, j \in at : Rank(i) = Rank(j) => i = j
  BY <1>1, RanksCount
<1> HIDE DEF c, Rank, kept
<1>4. ASSUME NEW j \in 1 .. c
      PROVE  nth(j) \in at /\ Rank(nth(j)) = j
  BY <1>3
<1>5. ASSUME NEW i \in at
      PROVE  nth(Rank(i)) = i
  BY <1>3, <1>4
<1> HIDE DEF nth
<1>6. DOMAIN kept = 1 .. c /\ \A j \in 1 .. c : kept[j] = ms[nth(j)]
  BY <1>2
<1>7. IsRow(kept)
  <2>1. kept = [j \in 1 .. c |-> kept[j]]
    BY <1>2, <1>6
  <2> QED
    BY <1>3, <2>1, RowOf
<1>8. \A j \in DOMAIN kept : \E i \in at : kept[j] = ms[i]
  BY <1>4, <1>6
<1>9. \A i \in at : \E j \in DOMAIN kept : kept[j] = ms[i]
  BY <1>3, <1>5, <1>6
<1>10. ASSUME at = 1 .. Len(ms)
       PROVE  c = Len(ms) /\ \A i \in 1 .. Len(ms) : kept[i] = ms[i]
  <2>1. c = Len(ms)
    <3>1. Cardinality(1 .. Len(ms)) = Len(ms)
      BY <1>1, CountTo
    <3> QED
      BY <1>10, <3>1 DEF c
  <2>2. ASSUME NEW i \in 1 .. Len(ms)
        PROVE  Rank(i) = i
    <3>1. {k \in at : k <= i} = 1 .. i
      BY <1>10
    <3>2. Cardinality(1 .. i) = i
      BY <1>1, CountTo
    <3> QED
      BY <3>1, <3>2 DEF Rank
  <2> QED
    BY <1>5, <1>6, <1>10, <2>1, <2>2
<1>11. (\A i \in DOMAIN ms : ReadMember(ms[i])) => at = 1 .. Len(ms)
  BY <1>1 DEF at
<1>12. (\A i \in DOMAIN ms : ReadMember(ms[i])) =>
         /\ DOMAIN kept = DOMAIN ms
         /\ \A i \in DOMAIN ms : kept[i] = ms[i]
  BY <1>1, <1>6, <1>10, <1>11
<1> QED
  BY <1>7, <1>8, <1>9, <1>12 DEF kept, at

-----------------------------------------------------------------------------
(* Decoded sets.                                                           *)

LEMMA KeysOfRow ==
  ASSUME NEW ms, IsRow(ms)
  PROVE  /\ IsRow(KeysOf(ms)) /\ DOMAIN KeysOf(ms) = DOMAIN ms
         /\ \A i \in DOMAIN ms : KeysOf(ms)[i] = ms[i].key
<1> DEFINE ks == KeysOf(ms)
<1>1. Len(ms) \in Nat /\ DOMAIN ms = 1 .. Len(ms)
  BY DEF IsRow
<1>2. ks = [i \in DOMAIN ms |-> ms[i].key]
  BY DEF KeysOf, KeyOf
<1> HIDE DEF ks
<1>3. ks = [i \in 1 .. Len(ms) |-> ks[i]]
  BY <1>1, <1>2
<1>4. IsRow(ks)
  BY <1>1, <1>3, RowOf
<1> QED
  BY <1>2, <1>4 DEF ks

(* A set that was read holds the keys of the readable members.             *)
HoldsTheReadable(ks, ms) ==
  /\ IsRow(ks)
  /\ \A j \in DOMAIN ks : \E i \in DOMAIN ms :
       ReadMember(ms[i]) /\ ks[j] = ms[i].key
  /\ \A i \in DOMAIN ms : ReadMember(ms[i]) =>
       \E j \in DOMAIN ks : ks[j] = ms[i].key

LEMMA ReadSet ==
  ASSUME NEW ms, IsRow(ms)
  PROVE  /\ FromSlice(ms).ok => HoldsTheReadable(FromSlice(ms).keys, ms)
         /\ FromSliceStrict(ms).ok =>
              /\ HoldsTheReadable(FromSliceStrict(ms).keys, ms)
              /\ FromSlice(ms) = FromSliceStrict(ms)
<1> DEFINE kept == Readable(ms)
           good == kept # << >> /\ \A i \in DOMAIN ms : ms[i].form # "broken"
           all == ms # << >> /\ \A i \in DOMAIN ms : ReadMember(ms[i])
           ks == KeysOf(kept)
           as == KeysOf(ms)
<1>1. /\ FromSlice(ms) = IF good THEN [ok |-> TRUE, keys |-> ks] ELSE Refused
      /\ FromSliceStrict(ms) = IF all THEN [ok |-> TRUE, keys |-> as] ELSE Refused
  BY DEF FromSlice, FromSliceStrict
<1>2. Refused.ok = FALSE
  BY DEF Refused
<1>3. /\ IsRow(kept)
      /\ \A j \in DOMAIN kept : \E i \in DOMAIN ms :
           ReadMember(ms[i]) /\ kept[j] = ms[i]
      /\ \A i \in DOMAIN ms : ReadMember(ms[i]) =>
           \E j \in DOMAIN kept : kept[j] = ms[i]
      /\ (\A i \in DOMAIN ms : ReadMember(ms[i])) =>
           /\ DOMAIN kept = DOMAIN ms
           /\ \A i \in DOMAIN ms : kept[i] = ms[i]
  BY ReadableKeeps
<1>4. /\ IsRow(ks) /\ DOMAIN ks = DOMAIN kept
      /\ \A j \in DOMAIN kept : ks[j] = kept[j].key
  <2> HIDE DEF kept
  <2> QED
    BY <1>3, KeysOfRow
<1>5. HoldsTheReadable(ks, ms)
  <2> HIDE DEF kept, ks
  <2> QED
    BY <1>3, <1>4 DEF HoldsTheReadable
<1>6. ASSUME all
      PROVE  good /\ ks = as /\ HoldsTheReadable(as, ms)
  <2>1. \A i \in DOMAIN ms : ms[i].form # "broken"
    BY <1>6 DEF ReadMember
  <2>2. DOMAIN kept = DOMAIN ms /\ \A i \in DOMAIN ms : kept[i] = ms[i]
    BY <1>3, <1>6, SMTT(30)
  <2>3. kept = ms
    <3> HIDE DEF kept
    <3> QED
      BY <1>3, <2>2 DEF IsRow
  <2> HIDE DEF kept
  <2> QED
    BY <1>5, <1>6, <2>1, <2>3
<1> HIDE DEF good, all, ks, as
<1>7. ASSUME FromSlice(ms).ok
      PROVE  FromSlice(ms).keys = ks
  BY <1>1, <1>2, <1>7
<1>8. ASSUME FromSliceStrict(ms).ok
      PROVE  all /\ FromSliceStrict(ms).keys = as
             /\ FromSlice(ms) = FromSliceStrict(ms)
  <2>1. all
    BY <1>1, <1>2, <1>8
  <2> QED
    BY <1>1, <1>6, <2>1
<1> QED
  BY <1>5, <1>6, <1>7, <1>8

(* What an encoded set holds is what was encoded.                          *)
LEMMA SentSet ==
  ASSUME NEW ks, IsRow(ks), ToVec(ks).ok
  PROVE  LET ms == ToVec(ks).ms
         IN /\ IsRow(ms) /\ DOMAIN ms = DOMAIN ks
            /\ \A i \in DOMAIN ks : ms[i].key = ks[i]
            /\ FromSliceStrict(ms) = [ok |-> TRUE, keys |-> ks]
            /\ FromSlice(ms) = [ok |-> TRUE, keys |-> ks]
<1> DEFINE ms == [i \in DOMAIN ks |-> Member(ks[i])]
           fits == ks # << >> /\ \A i \in DOMAIN ks : ValidKey(ks[i])
<1>1. ToVec(ks) = IF fits THEN [ok |-> TRUE, ms |-> ms] ELSE Refused
  BY DEF ToVec
<1>2. Refused.ok = FALSE
  BY DEF Refused
<1>3. fits /\ ToVec(ks).ms = ms
  <2> HIDE DEF fits, ms
  <2> QED
    BY <1>1, <1>2
<1>4. Len(ks) \in Nat /\ DOMAIN ks = 1 .. Len(ks)
      /\ ks = [i \in DOMAIN ks |-> ks[i]]
  BY DEF IsRow
<1>5. DOMAIN ms = DOMAIN ks
      /\ \A i \in DOMAIN ks : ms[i].key = ks[i] /\ ms[i].form = "map"
  BY DEF Member
<1>6. IsRow(ms)
  <2>1. ms = [i \in 1 .. Len(ks) |-> ms[i]]
    BY <1>4
  <2> HIDE DEF ms
  <2> QED
    BY <1>4, <2>1, RowOf
<1> HIDE DEF ms
<1>7. \A i \in DOMAIN ms : ReadMember(ms[i])
  BY <1>3, <1>5 DEF ReadMember
<1>8. ms # << >>
  <2>1. DOMAIN ks # {}
    BY <1>3, <1>4
  <2> QED
    BY <1>5, <2>1
<1>9. KeysOf(ms) = ks
  <2>1. KeysOf(ms) = [i \in DOMAIN ks |-> ms[i].key]
    BY <1>5 DEF KeysOf, KeyOf
  <2> QED
    BY <1>4, <1>5, <2>1
<1>10. FromSliceStrict(ms) = [ok |-> TRUE, keys |-> ks]
  BY <1>7, <1>8, <1>9 DEF FromSliceStrict
<1>11. FromSlice(ms) = FromSliceStrict(ms)
  BY <1>6, <1>10, ReadSet
<1> QED
  BY <1>3, <1>5, <1>6, <1>10, <1>11

-----------------------------------------------------------------------------
(* How the set and the bytes come about.                                   *)

LEMMA AppendedRow ==
  ASSUME NEW ks, IsRow(ks), NEW k
  PROVE  /\ IsRow(Append(ks, k))
         /\ \A i \in DOMAIN Append(ks, k) :
              Append(ks, k)[i] = k \/ \E j \in DOMAIN ks : Append(ks, k)[i] = ks[j]
<1> DEFINE n == Len(ks)
           S == {ks[i] : i \in DOMAIN ks} \cup {k}
           more == Append(ks, k)
<1>1. n \in Nat /\ DOMAIN ks = 1 .. n /\ ks = [i \in 1 .. n |-> ks[i]]
  BY DEF IsRow
<1>2. ks \in [1 .. n -> S]
  BY <1>1
<1>3. ks \in Seq(S) /\ k \in S
  BY <1>1, <1>2
<1> HIDE DEF S
<1>4. /\ more \in Seq(S) /\ Len(more) = n + 1
      /\ \A i \in 1 .. n + 1 : more[i] = IF i = n + 1 THEN k ELSE ks[i]
  BY <1>3
<1> HIDE DEF more
<1>5. DOMAIN more = 1 .. n + 1 /\ more = [i \in 1 .. n + 1 |-> more[i]]
  BY <1>4
<1>6. n + 1 \in Nat
  BY <1>1
<1>7. IsRow(more)
  BY <1>5, <1>6, RowOf
<1>8. ASSUME NEW i \in DOMAIN more, i # n + 1
      PROVE  i \in DOMAIN ks /\ more[i] = ks[i]
  BY <1>1, <1>4, <1>5, <1>8
<1> QED
  BY <1>4, <1>5, <1>7, <1>8 DEF more

(* origin tells truly how the set and the bytes last came about.           *)
OriginOK ==
  /\ IsRow(keys) /\ IsRow(wire)
  /\ origin = "lenient" => FromSlice(wire).ok /\ keys = FromSlice(wire).keys
  /\ origin = "strict" =>
       FromSliceStrict(wire).ok /\ keys = FromSliceStrict(wire).keys
  /\ origin = "sent" => ToVec(keys).ok /\ wire = ToVec(keys).ms

LEMMA OriginCorrect == Spec => []OriginOK
<1>1. Init => OriginOK
  <2>1. Len(<< >>) = 0 /\ << >> = [i \in 1 .. 0 |-> << >>[i]]
    OBVIOUS
  <2>2. IsRow(<< >>)
    BY <2>1, RowOf
  <2> QED
    BY <2>2 DEF Init, OriginOK
<1>2. ASSUME OriginOK, [Next]_vars
      PROVE  OriginOK'
  <2>1. ASSUME UNCHANGED <<keys, wire, origin>>
        PROVE  OriginOK'
    BY <1>2, <2>1 DEF OriginOK
  <2>2. CASE WriteKey \/ EditKey \/ Import \/ MakeRaw \/ SetBaseIv \/ Export
               \/ TakeKey \/ UNCHANGED vars
    BY <2>1, <2>2 DEF WriteKey, EditKey, Import, MakeRaw, SetBaseIv, Export,
                      TakeKey, vars
  <2>3. CASE AddKey
    BY <1>2, <2>3, AppendedRow DEF AddKey, OriginOK
  <2>4. CASE SendSet
    BY <1>2, <2>4, SentSet DEF SendSet, OriginOK
  <2>5. CASE Deliver
    BY <1>2, <2>5, KeyRingConstants DEF Deliver, OriginOK
  <2>6. CASE Receive
    BY <1>2, <2>6, ReadSet DEF Receive, OriginOK, HoldsTheReadable
  <2> QED
    BY <1>2, <2>2, <2>3, <2>4, <2>5, <2>6 DEF Next
<1> QED
  BY <1>1, <1>2, PTL DEF Spec

(* A set that was read holds all the good keys that were sent and no       *)
(* others, and a set that was sent is read back as it is (key.rs,          *)
(* KeySet::from_slice, from_slice_strict and to_vec).                      *)
THEOREM SetsCorrect == Spec => []SetsTravelWhole
<1>1. ASSUME OriginOK, origin \in {"lenient", "strict"}
      PROVE  /\ HoldsTheReadable(keys, wire)
             /\ origin = "strict" => FromSlice(wire).keys = keys
  BY <1>1, ReadSet DEF OriginOK
<1>2. ASSUME HoldsTheReadable(keys, wire), NEW kid \in Kid
      PROVE  Lookup(keys, kid) =
               {wire[i].key : i \in {j \in DOMAIN wire :
                  ReadMember(wire[j]) /\ wire[j].key["kid"] = kid}}
  BY <1>2 DEF HoldsTheReadable, Lookup
<1>3. ASSUME HoldsTheReadable(keys, wire), NEW i \in DOMAIN keys
      PROVE  ValidKey(keys[i])
  BY <1>3 DEF HoldsTheReadable, ReadMember
<1>4. ASSUME OriginOK, origin = "sent",
             NEW read \in {FromSlice(wire), FromSliceStrict(wire)}
      PROVE  read = [ok |-> TRUE, keys |-> keys]
  BY <1>4, SentSet DEF OriginOK
<1>5. OriginOK => SetsTravelWhole
  BY <1>1, <1>2, <1>3, <1>4 DEF SetsTravelWhole
<1> QED
  BY <1>5, OriginCorrect, PTL

-----------------------------------------------------------------------------
(* Keys, providers and what is permitted.                                  *)

(* What a key of the algorithm is for, whoever uses it.                    *)
OpsOf(alg) ==
  IF alg \in HmacAlg THEN MacOps ELSE IF alg \in AeadAlg THEN AeadOps
  ELSE SignatureOps

KeyTyped(k) ==
  /\ k = [p \in Param |-> k[p]]
  /\ \A p \in Material : k[p] \in {None, Malformed} \/ k[p] \in Bytes

(* Everything a key lets be done with a secret is among the permissions,   *)
(* as far as it is an operation for keys of its algorithm.                 *)
GrantedBy(g, op, s) == op \in g[s] \/ (op = "verify" /\ "sign" \in g[s])
KeyGranted(g, k) ==
  \A s \in SecretsOf(k), op \in PermittedBy(k) \cap OpsOf(k["alg"]) :
    GrantedBy(g, op, s)

(* What every provider is made of, and a raw one but for the length of a   *)
(* point.                                                                  *)
ProviderTyped(p) ==
  /\ p = [make |-> p.make, alg |-> p.alg, kid |-> p.kid, ops |-> p.ops,
          base_iv |-> p.base_iv, material |-> p.material]
  /\ p.make \in Maker /\ p.alg \in Supported(p.make)
  /\ p.kid # Malformed /\ p.base_iv # Malformed
  /\ p.make \notin Encryptors => p.base_iv = None
  /\ p.make \in Signers \cup Verifiers => p.ops = None
  /\ OpsAllow(p.ops, Purpose(p.make))
  /\ p.material = Keep(p.material, Parts(p.make, p.alg))
  /\ HasBytes(p.material, Parts(p.make, p.alg))

WellMade ==
  provider # None =>
    /\ ProviderTyped(provider)
    /\ (raw /\ provider.make = "RingVerifier") \/
         LengthsFit(provider.make, provider.material, provider.alg)

(* The keys at hand, in the set and on the wire.                           *)
KeysGranted ==
  /\ KeyTyped(key) /\ KeyGranted(granted, key)
  /\ \A i \in DOMAIN keys : KeyTyped(keys[i]) /\ KeyGranted(granted, keys[i])
  /\ \A i \in DOMAIN wire :
       KeyTyped(wire[i].key) /\ KeyGranted(granted, wire[i].key)

Granted == granted = [s \in Secret |-> granted[s]]

Safe == Granted /\ KeysGranted /\ WellMade /\ NoUnentitledUse

(* Permissions are only ever added, and a key that is written adds its own. *)
LEMMA GrantAdds ==
  ASSUME NEW g, NEW ks
  PROVE  /\ Grant(g, ks) = [s \in Secret |-> Grant(g, ks)[s]]
         /\ \A s \in Secret : g[s] \subseteq Grant(g, ks)[s]
         /\ \A k \in ks : \A s \in SecretsOf(k) \cap Secret :
              PermittedBy(k) \subseteq Grant(g, ks)[s]
BY DEF Grant

LEMMA SecretsAre ==
  ASSUME NEW k, \A p \in Material : k[p] \in {None, Malformed} \/ k[p] \in Bytes
  PROVE  SecretsOf(k) \subseteq Secret
BY DEF SecretsOf, Owner, Bytes

LEMMA StillGranted ==
  ASSUME NEW g, NEW h, \A s \in Secret : g[s] \subseteq h[s],
         NEW k, KeyTyped(k), KeyGranted(g, k)
  PROVE  KeyGranted(h, k)
<1>1. SecretsOf(k) \subseteq Secret
  BY SecretsAre DEF KeyTyped
<1> QED
  BY <1>1 DEF KeyGranted, GrantedBy

LEMMA WrittenGranted ==
  ASSUME NEW g, NEW ks, NEW k \in ks, KeyTyped(k)
  PROVE  KeyGranted(Grant(g, ks), k)
<1>1. SecretsOf(k) \subseteq Secret
  BY SecretsAre DEF KeyTyped
<1> QED
  BY <1>1, GrantAdds DEF KeyGranted, GrantedBy

(* Which operations key_ops permit, one by one.                            *)
LEMMA OneOpAllowed ==
  ASSUME NEW k, NEW op \in Op
  PROVE  OpsAllow(k["key_ops"], {op}) <=> op \in PermittedBy(k)
BY KeyConstants DEF OpsAllow, PermittedBy

LEMMA MakerKinds ==
  ASSUME NEW make \in Maker
  PROVE  /\ Supported(make) \subseteq Alg
         /\ Purpose(make) \subseteq Op
         /\ make = "RingMacer" =>
              /\ make \notin Encryptors \cup Signers \cup Verifiers
              /\ Purpose(make) = MacOps /\ Supported(make) = HmacAlg
         /\ make \in Encryptors =>
              /\ make \notin Signers \cup Verifiers
              /\ Purpose(make) = AeadOps /\ Supported(make) \subseteq AeadAlg
         /\ make \in Signers =>
              make \notin Encryptors \cup Verifiers /\ Purpose(make) = {"sign"}
         /\ make \in Verifiers =>
              make \notin Encryptors \cup Signers /\ Purpose(make) = {"verify"}
         /\ make \in Signers \cup Verifiers =>
              Supported(make) \subseteq Ed25519Alg \cup EcdsaAlg \cup RsaAlg
         /\ make \in Signers \cup Verifiers \cup Encryptors \cup {"RingMacer"}
BY DEF Maker, Encryptors, Signers, Verifiers, Supported, Purpose, MacOps, AeadOps,
       SignatureOps, Op, Alg, HmacAlg, AeadAlg, Ed25519Alg, EcdsaAlg, RsaAlg

LEMMA Families ==
  ASSUME NEW alg
  PROVE  /\ alg \in HmacAlg => OpsOf(alg) = MacOps
         /\ alg \in AeadAlg => OpsOf(alg) = AeadOps
         /\ alg \in Ed25519Alg \cup EcdsaAlg \cup RsaAlg =>
              /\ OpsOf(alg) = SignatureOps
              /\ alg \notin HmacAlg \cup AeadAlg
         /\ alg = None => OpsOf(alg) = SignatureOps
         /\ alg \in Alg => alg # None
         /\ alg \in Ed25519Alg => alg \notin EcdsaAlg \cup RsaAlg
         /\ alg \in EcdsaAlg => alg \notin RsaAlg
         /\ "Ed25519" \in Ed25519Alg
BY KeyConstants DEF OpsOf, HmacAlg, AeadAlg, Ed25519Alg, EcdsaAlg, RsaAlg, Alg

LEMMA PartsAre ==
  ASSUME NEW make \in Maker, NEW alg \in Supported(make)
  PROVE  /\ Parts(make, alg) \subseteq Material
         /\ make \notin Signers \cup Verifiers => Parts(make, alg) = {"k"}
         /\ make \in Signers \cup Verifiers => "k" \notin Parts(make, alg)
         /\ make \in Verifiers => Parts(make, alg) \subseteq Public
         /\ make \in Signers => "d" \in Parts(make, alg)
         /\ make \in Signers \cup Verifiers /\ alg \in Ed25519Alg =>
              Parts(make, alg) \cap Public = {"x"}
         /\ make \in Signers \cup Verifiers /\ alg \in EcdsaAlg =>
              Parts(make, alg) \cap Public = {"x", "y"}
         /\ make \in Signers \cup Verifiers /\ alg \in RsaAlg =>
              Parts(make, alg) \cap Public = {"n", "e"}
<1>1. CASE make \notin Signers \cup Verifiers
  BY <1>1 DEF Parts, Material, Private, Signers, Verifiers
<1>2. CASE make \in Signers \cup Verifiers
  <2>1. alg \in Ed25519Alg \/ alg \in EcdsaAlg \/ alg \in RsaAlg
    BY <1>2, MakerKinds
  <2>2. CASE alg \in Ed25519Alg
    <3>1. alg \notin EcdsaAlg \cup RsaAlg
      BY <2>2, Families
    <3> QED
      BY <1>2, <2>2, <3>1 DEF Parts, Material, Private, Public, Signers, Verifiers
  <2>3. CASE alg \in EcdsaAlg
    <3>1. alg \notin Ed25519Alg \cup RsaAlg
      BY <2>3, Families
    <3> QED
      BY <1>2, <2>3, <3>1 DEF Parts, Material, Private, Public, Signers, Verifiers
  <2>4. CASE alg \in RsaAlg
    <3>1. alg \notin Ed25519Alg \cup EcdsaAlg
      BY <2>4, Families
    <3> QED
      BY <1>2, <2>4, <3>1 DEF Parts, Material, Private, Public, Signers, Verifiers
  <2> QED
    BY <2>1, <2>2, <2>3, <2>4
<1> QED
  BY <1>1, <1>2

-----------------------------------------------------------------------------
(* Making a provider of a key.                                             *)

(* What from_cose_key takes as the algorithm, and the key as it uses it.   *)
AlgTaken(make, k) ==
  IF k["alg"] = None /\ make \in {"Ed25519Signer", "Ed25519Verifier"}
  THEN "Ed25519" ELSE k["alg"]
KeyTaken(make, k) ==
  IF ComputesX(make) /\ k["d"] \in Bytes THEN WithX(k) ELSE k

LEMMA MadeOf ==
  ASSUME NEW make, NEW k
  PROVE  LET alg == AlgTaken(make, k)
             full == KeyTaken(make, k)
             ops == IF make \in Signers \cup Verifiers THEN None ELSE k["key_ops"]
             fits == /\ OpsAllow(k["key_ops"], Purpose(make))
                     /\ alg \in Supported(make)
                     /\ KeyTypeFits(make, k, alg)
                     /\ k["kid"] # Malformed
                     /\ make \in Encryptors => k["base_iv"] # Malformed
                     /\ Complete(make, full, alg)
         IN /\ FromCoseKey(make, k).ok <=> fits
            /\ fits => FromCoseKey(make, k).provider =
                         Provider(make, full, alg, ops, Parts(make, alg))
<1> DEFINE alg == AlgTaken(make, k)
           full == KeyTaken(make, k)
           ops == IF make \in Signers \cup Verifiers THEN None ELSE k["key_ops"]
           fits == /\ OpsAllow(k["key_ops"], Purpose(make))
                   /\ alg \in Supported(make)
                   /\ KeyTypeFits(make, k, alg)
                   /\ k["kid"] # Malformed
                   /\ make \in Encryptors => k["base_iv"] # Malformed
                   /\ Complete(make, full, alg)
           made == Provider(make, full, alg, ops, Parts(make, alg))
<1>1. FromCoseKey(make, k) = IF fits THEN [ok |-> TRUE, provider |-> made] ELSE Refused
  BY DEF FromCoseKey, AlgTaken, KeyTaken
<1>2. Refused.ok = FALSE
  BY DEF Refused
<1>3. FromCoseKey(make, k).ok <=> fits
  <2> HIDE DEF fits, made
  <2> QED
    BY <1>1, <1>2
<1>4. fits => FromCoseKey(make, k).provider = made
  <2> HIDE DEF fits, made
  <2> QED
    BY <1>1
<1> QED
  BY <1>3, <1>4

(* The key that is used belongs to nobody else.                            *)
LEMMA TakenSecrets ==
  ASSUME NEW make, NEW k, KeyTyped(k)
  PROVE  LET full == KeyTaken(make, k)
         IN /\ \A p \in Material : full[p] \in Bytes => Owner(full[p]) \in SecretsOf(k)
            /\ full["kid"] = k["kid"] /\ full["base_iv"] = k["base_iv"]
<1> DEFINE full == KeyTaken(make, k)
<1>1. k = [p \in Param |-> k[p]]
      /\ \A p \in Material : k[p] \in {None, Malformed} \/ k[p] \in Bytes
  BY DEF KeyTyped
<1>2. \A p \in Material : k[p] \in Bytes => Owner(k[p]) \in SecretsOf(k)
  BY KeyConstants DEF SecretsOf
<1>3. ASSUME full # k
      PROVE  k["d"] \in Bytes /\ full = [k EXCEPT !["x"] = <<Owner(k["d"]), "x", 32>>]
  BY <1>3 DEF KeyTaken, WithX
<1>4. CASE full # k
  <2>1. DOMAIN k = Param /\ "x" \in Param /\ "kid" \in Param /\ "base_iv" \in Param
        /\ Material \subseteq Param
    BY <1>1 DEF Param, Material, Public
  <2>2. /\ full["x"] = <<Owner(k["d"]), "x", 32>>
        /\ \A p \in Param : p # "x" => full[p] = k[p]
    BY <1>3, <1>4, <2>1
  <2>3. Owner(full["x"]) = Owner(k["d"])
    BY <2>2 DEF Owner
  <2>4. Owner(k["d"]) \in SecretsOf(k)
    BY <1>2, <1>3, <1>4 DEF Material, Private
  <2> QED
    BY <1>2, <2>1, <2>2, <2>3, <2>4
<1>5. CASE full = k
  BY <1>2, <1>5
<1> QED
  BY <1>4, <1>5

LEMMA ProviderParts ==
  ASSUME NEW make, NEW k, NEW alg, NEW ops, NEW parts
  PROVE  LET p == Provider(make, k, alg, ops, parts)
         IN /\ p.make = make /\ p.alg = alg /\ p.ops = ops /\ p.kid = k["kid"]
            /\ p.base_iv = IF make \in Encryptors THEN k["base_iv"] ELSE None
            /\ \A q \in Material : p.material[q] = IF q \in parts THEN k[q] ELSE None
            /\ p.material = Keep(p.material, parts)
            /\ p = [make |-> p.make, alg |-> p.alg, kid |-> p.kid, ops |-> p.ops,
                    base_iv |-> p.base_iv, material |-> p.material]
BY DEF Provider, Keep

(* The lengths concern only the parts that were taken.                     *)
LEMMA LengthsKept ==
  ASSUME NEW make \in Maker, NEW alg \in Supported(make), NEW m, NEW k,
         \A q \in Parts(make, alg) : m[q] = k[q],
         LengthsFit(make, k, alg)
  PROVE  LengthsFit(make, m, alg)
<1>1. make \in Encryptors => "k" \in Parts(make, alg)
  BY MakerKinds, PartsAre
<1>2. alg \in EcdsaAlg => make \in Signers \cup Verifiers
  BY MakerKinds, Families DEF EcdsaAlg, HmacAlg, AeadAlg
<1>3. alg \in EcdsaAlg => "x" \in Parts(make, alg) /\ "y" \in Parts(make, alg)
  BY <1>2, PartsAre
<1>4. alg \in Ed25519Alg /\ make \in Signers => "x" \in Parts(make, alg)
  BY PartsAre
<1>5. make \in Signers => "d" \in Parts(make, alg)
  BY PartsAre
<1>6. make = "Ed25519Verifier" => alg \in Ed25519Alg /\ make \in Verifiers
  BY DEF Supported, Verifiers
<1>7. make = "Ed25519Verifier" => "x" \in Parts(make, alg)
  BY <1>6, PartsAre
<1> QED
  BY <1>1, <1>3, <1>4, <1>5, <1>7 DEF LengthsFit

LEMMA ImportedIsWellMade ==
  ASSUME NEW make \in Maker, NEW k, KeyTyped(k), FromCoseKey(make, k).ok
  PROVE  LET p == FromCoseKey(make, k).provider
         IN /\ ProviderTyped(p)
            /\ LengthsFit(p.make, p.material, p.alg)
            /\ SecretsOf(p.material) \subseteq SecretsOf(k)
            /\ \A op \in Op : Performs(p, op) =>
                 op \in PermittedBy(k) \cap OpsOf(k["alg"])
<1> DEFINE alg == AlgTaken(make, k)
           full == KeyTaken(make, k)
           ops == IF make \in Signers \cup Verifiers THEN None ELSE k["key_ops"]
           parts == Parts(make, alg)
           made == Provider(make, full, alg, ops, parts)
           p == FromCoseKey(make, k).provider
<1>1. /\ OpsAllow(k["key_ops"], Purpose(make))
      /\ alg \in Supported(make)
      /\ k["kid"] # Malformed
      /\ make \in Encryptors => k["base_iv"] # Malformed
      /\ Complete(make, full, alg)
      /\ p = made
  BY MadeOf
<1>2. HasBytes(full, parts) /\ LengthsFit(make, full, alg)
  BY <1>1 DEF Complete
<1>3. /\ \A q \in Material : full[q] \in Bytes => Owner(full[q]) \in SecretsOf(k)
      /\ full["kid"] = k["kid"] /\ full["base_iv"] = k["base_iv"]
  BY TakenSecrets
<1>4. parts \subseteq Material
  BY <1>1, PartsAre
<1> HIDE DEF alg, full, parts
<1>5. /\ p.make = make /\ p.alg = alg /\ p.ops = ops /\ p.kid = full["kid"]
      /\ p.base_iv = IF make \in Encryptors THEN full["base_iv"] ELSE None
      /\ \A q \in Material : p.material[q] = IF q \in parts THEN full[q] ELSE None
      /\ p.material = Keep(p.material, parts)
      /\ p = [make |-> p.make, alg |-> p.alg, kid |-> p.kid, ops |-> p.ops,
              base_iv |-> p.base_iv, material |-> p.material]
  <2>1. p = made
    BY <1>1
  <2> QED
    BY <2>1, ProviderParts
<1> HIDE DEF p, made
<1>6. OpsAllow(p.ops, Purpose(p.make))
  <2>1. CASE make \in Signers \cup Verifiers
    BY <1>5, <2>1 DEF OpsAllow
  <2>2. CASE make \notin Signers \cup Verifiers
    BY <1>1, <1>5, <2>2
  <2> QED
    BY <2>1, <2>2
<1>7. HasBytes(p.material, Parts(p.make, p.alg))
  BY <1>2, <1>4, <1>5 DEF HasBytes, parts
<1>8. p.base_iv # Malformed /\ p.kid # Malformed
  BY <1>1, <1>3, <1>5, KeyConstants
<1>9. ProviderTyped(p)
  <2>1. p.material = Keep(p.material, Parts(p.make, p.alg))
    BY <1>5 DEF parts
  <2>2. p.make \in Signers \cup Verifiers => p.ops = None
    BY <1>5
  <2>3. p.make \notin Encryptors => p.base_iv = None
    BY <1>5
  <2>4. p.make \in Maker /\ p.alg \in Supported(p.make)
    BY <1>1, <1>5
  <2> QED
    BY <1>5, <1>6, <1>7, <1>8, <2>1, <2>2, <2>3, <2>4 DEF ProviderTyped
<1>10. LengthsFit(p.make, p.material, p.alg)
  <2>1. \A q \in Parts(make, alg) : p.material[q] = full[q]
    BY <1>4, <1>5 DEF parts
  <2>2. LengthsFit(make, p.material, alg)
    BY <1>1, <1>2, <2>1, LengthsKept
  <2> QED
    BY <1>5, <2>2
<1>11. SecretsOf(p.material) \subseteq SecretsOf(k)
  <2> SUFFICES ASSUME NEW q \in Material, p.material[q] \notin {None, Malformed}
               PROVE  Owner(p.material[q]) \in SecretsOf(k)
    BY DEF SecretsOf
  <2>1. q \in parts /\ p.material[q] = full[q]
    BY <1>5
  <2>2. full[q] \in Bytes
    BY <1>2, <2>1 DEF HasBytes
  <2> QED
    BY <1>3, <2>1, <2>2
<1>12. ASSUME NEW op \in Op, Performs(p, op)
       PROVE  op \in PermittedBy(k) \cap OpsOf(k["alg"])
  <2>1. op \in Purpose(make) /\ OpsAllow(p.ops, {op})
    BY <1>5, <1>12 DEF Performs
  <2>2. CASE make \in Signers \cup Verifiers
    <3>1. Purpose(make) = {op} /\ op \in SignatureOps
      BY <2>1, <2>2, MakerKinds DEF SignatureOps
    <3>2. op \in PermittedBy(k)
      BY <1>1, <3>1, OneOpAllowed
    <3>3. k["alg"] = None \/ k["alg"] \in Ed25519Alg \cup EcdsaAlg \cup RsaAlg
      BY <1>1, <2>2, MakerKinds DEF alg, AlgTaken
    <3>4. OpsOf(k["alg"]) = SignatureOps
      BY <3>3, Families
    <3> QED
      BY <3>1, <3>2, <3>4
  <2>3. CASE make \notin Signers \cup Verifiers
    <3>1. p.ops = k["key_ops"]
      BY <1>5, <2>3
    <3>2. op \in PermittedBy(k)
      BY <2>1, <3>1, OneOpAllowed
    <3>3. k["alg"] = alg
      BY <2>3 DEF alg, AlgTaken, Signers, Verifiers
    <3>4. OpsOf(k["alg"]) = Purpose(make)
      BY <1>1, <2>3, <3>3, MakerKinds, Families
    <3> QED
      BY <2>1, <3>2, <3>4
  <2> QED
    BY <2>2, <2>3
<1> QED
  BY <1>9, <1>10, <1>11, <1>12 DEF p

-----------------------------------------------------------------------------
(* Giving a key back.                                                      *)

NotGivenBack(p) ==
  \/ p.make = "RingSigner" /\ p.alg \in RsaAlg
  \/ KeyType(p) = "EC2" /\
     \E c \in {"x", "y"} : Length(p.material[c]) # CoordinateLen(p.alg)

LEMMA GivenBack ==
  ASSUME NEW p
  PROVE  LET out == ToCoseKey(p).key
         IN /\ ToCoseKey(p).ok <=> ~ NotGivenBack(p)
            /\ ~ NotGivenBack(p) =>
                 /\ out = [q \in Param |-> out[q]]
                 /\ out["kty"] = KeyType(p) /\ out["crv"] = CurveParam(p)
                 /\ out["alg"] = p.alg /\ out["kid"] = p.kid
                 /\ out["base_iv"] = p.base_iv
                 /\ out["key_ops"] = ExportedOps(p)
                 /\ \A q \in Public \cup {"k"} : out[q] = p.material[q]
                 /\ \A q \in {"d", "rsa private"} : out[q] = None
<1> DEFINE Of(q) ==
             CASE q = "kty" -> KeyType(p) [] q = "alg" -> p.alg [] q = "kid" -> p.kid
               [] q = "crv" -> CurveParam(p) [] q = "base_iv" -> p.base_iv
               [] q = "key_ops" -> ExportedOps(p)
               [] q \in Public \cup {"k"} -> p.material[q] [] OTHER -> None
           key0 == [q \in Param |-> Of(q)]
           out == ToCoseKey(p).key
<1>1. ToCoseKey(p) =
        IF NotGivenBack(p) THEN Refused ELSE [ok |-> TRUE, key |-> key0]
  BY DEF ToCoseKey, NotGivenBack
<1>2. Refused.ok = FALSE
  BY DEF Refused
<1>3. /\ ToCoseKey(p).ok <=> ~ NotGivenBack(p)
      /\ ~ NotGivenBack(p) => out = key0
  <2> HIDE DEF key0
  <2> QED
    BY <1>1, <1>2
<1>4. /\ Of("kty") = KeyType(p) /\ Of("alg") = p.alg /\ Of("kid") = p.kid
      /\ Of("crv") = CurveParam(p) /\ Of("base_iv") = p.base_iv
      /\ Of("key_ops") = ExportedOps(p)
  BY DEF Public
<1>5. \A q \in Public \cup {"k"} : Of(q) = p.material[q]
  BY DEF Public
<1>6. \A q \in {"d", "rsa private"} : Of(q) = None
  BY DEF Public
<1>7. /\ {"kty", "alg", "kid", "crv", "base_iv", "key_ops"} \subseteq Param
      /\ Public \cup {"k"} \subseteq Param /\ {"d", "rsa private"} \subseteq Param
  BY DEF Param, Material, Private
<1> HIDE DEF Of
<1>8. \A q \in Param : key0[q] = Of(q)
  OBVIOUS
<1>9. key0 = [q \in Param |-> key0[q]]
  BY <1>8
<1> HIDE DEF key0, out
<1>10. ASSUME ~ NotGivenBack(p)
       PROVE  /\ out = [q \in Param |-> out[q]]
              /\ \A q \in Param : out[q] = Of(q)
  BY <1>3, <1>8, <1>9, <1>10
<1> QED
  BY <1>3, <1>4, <1>5, <1>6, <1>7, <1>10 DEF out

(* The exported key holds no other secret, and permits nothing that the    *)
(* provider does not do, but for the verification of what it signs.        *)
LEMMA ExportedPermitsLess ==
  ASSUME NEW p, ProviderTyped(p), ToCoseKey(p).ok
  PROVE  LET out == ToCoseKey(p).key
         IN /\ KeyTyped(out)
            /\ SecretsOf(out) \subseteq SecretsOf(p.material)
            /\ \A op \in PermittedBy(out) \cap OpsOf(out["alg"]) :
                 Performs(p, op) \/ (op = "verify" /\ Performs(p, "sign"))
<1> DEFINE out == ToCoseKey(p).key
           m == p.material
<1>1. /\ out = [q \in Param |-> out[q]]
      /\ out["alg"] = p.alg /\ out["key_ops"] = ExportedOps(p)
      /\ \A q \in Public \cup {"k"} : out[q] = m[q]
      /\ \A q \in {"d", "rsa private"} : out[q] = None
  BY GivenBack
<1>2. /\ p.make \in Maker /\ p.alg \in Supported(p.make)
      /\ p.make \in Signers \cup Verifiers => p.ops = None
      /\ p.material = Keep(p.material, Parts(p.make, p.alg))
      /\ HasBytes(p.material, Parts(p.make, p.alg))
  BY DEF ProviderTyped
<1>3. \A q \in Material : m[q] = None \/ m[q] \in Bytes
  BY <1>2 DEF Keep, HasBytes
<1>4. Material = Public \cup {"k"} \cup {"d", "rsa private"}
  BY DEF Material, Private
<1> HIDE DEF out, m
<1>5. KeyTyped(out)
  BY <1>1, <1>3, <1>4 DEF KeyTyped
<1>6. SecretsOf(out) \subseteq SecretsOf(m)
  <2> SUFFICES ASSUME NEW q \in Material, out[q] \notin {None, Malformed}
               PROVE  Owner(out[q]) \in SecretsOf(m)
    BY DEF SecretsOf
  <2>1. out[q] = m[q]
    BY <1>1, <1>4
  <2> QED
    BY <2>1 DEF SecretsOf
<1>7. ASSUME NEW op \in PermittedBy(out) \cap OpsOf(p.alg)
      PROVE  Performs(p, op) \/ (op = "verify" /\ Performs(p, "sign"))
  <2>1. CASE p.make \in Signers \cup Verifiers
    <3>1. ExportedOps(p) = {"verify"} /\ {"verify"} \in SUBSET Op
      BY <2>1 DEF ExportedOps, Op, SignatureOps
    <3>2. op = "verify"
      BY <1>1, <3>1, KeyConstants DEF PermittedBy
    <3>3. \A o \in Purpose(p.make) : Performs(p, o)
      BY <1>2, <2>1 DEF Performs, OpsAllow
    <3> QED
      BY <1>2, <2>1, <3>2, <3>3, MakerKinds
  <2>2. CASE p.make \notin Signers \cup Verifiers
    <3>1. out["key_ops"] = p.ops
      BY <1>1, <2>2 DEF ExportedOps
    <3>2. op \in Op
      BY DEF PermittedBy
    <3>3. OpsAllow(p.ops, {op})
      BY <3>1, <3>2, OneOpAllowed
    <3>4. OpsOf(p.alg) = Purpose(p.make)
      BY <1>2, <2>2, MakerKinds, Families
    <3> QED
      BY <3>3, <3>4 DEF Performs
  <2> QED
    BY <2>1, <2>2
<1> QED
  BY <1>1, <1>5, <1>6, <1>7 DEF out, m

(* The provider made of a provider's own key is the same one, and that of  *)
(* a signer's key verifies for it.                                         *)
LEMMA ImportsWhatItGave ==
  ASSUME NEW p, ProviderTyped(p), ToCoseKey(p).ok,
         (p.make = "RingVerifier") \/ LengthsFit(p.make, p.material, p.alg)
  PROVE  LET out == ToCoseKey(p).key
             make == IF p.make \in Signers THEN VerifierFor(p.make) ELSE p.make
             back == FromCoseKey(make, out)
         IN /\ back.ok /\ Same(p, back.provider)
            /\ make = p.make =>
                 back.provider.make = p.make /\ back.provider.ops = p.ops
<1> DEFINE out == ToCoseKey(p).key
           make == IF p.make \in Signers THEN VerifierFor(p.make) ELSE p.make
           alg == p.alg
           m == p.material
           back == FromCoseKey(make, out)
           ops == IF make \in Signers \cup Verifiers THEN None ELSE out["key_ops"]
           b == Provider(make, out, alg, ops, Parts(make, alg))
<1>1. /\ ~ NotGivenBack(p)
      /\ out["kty"] = KeyType(p) /\ out["crv"] = CurveParam(p)
      /\ out["alg"] = alg /\ out["kid"] = p.kid /\ out["base_iv"] = p.base_iv
      /\ out["key_ops"] = ExportedOps(p)
      /\ \A q \in Public \cup {"k"} : out[q] = m[q]
  BY GivenBack
<1>2. /\ p.make \in Maker /\ alg \in Supported(p.make)
      /\ p.kid # Malformed /\ p.base_iv # Malformed
      /\ p.make \notin Encryptors => p.base_iv = None
      /\ p.make \in Signers \cup Verifiers => p.ops = None
      /\ OpsAllow(p.ops, Purpose(p.make))
      /\ m = Keep(m, Parts(p.make, alg))
      /\ HasBytes(m, Parts(p.make, alg))
  BY DEF ProviderTyped
<1>3. alg \in Alg /\ alg # None
  BY <1>2, MakerKinds, Families
<1>4. /\ make \in Maker /\ alg \in Supported(make) /\ make \notin Signers
      /\ make \in Verifiers <=> p.make \in Signers \cup Verifiers
      /\ p.make \notin Signers => make = p.make
      /\ p.make \in Signers => make \in Verifiers
      /\ make = "Ed25519Verifier" => p.make \in {"Ed25519Signer", "Ed25519Verifier"}
      /\ make \in Encryptors <=> p.make \in Encryptors
  BY <1>2 DEF VerifierFor, Maker, Supported, Signers, Verifiers, Encryptors
<1>5. /\ Parts(make, alg) \subseteq Public \cup {"k"}
      /\ Parts(make, alg) \subseteq Parts(p.make, alg)
      /\ \A q \in Public \cup {"k"} :
           q \in Parts(p.make, alg) => q \in Parts(make, alg)
  <2>1. CASE make = p.make
    <3>1. make \in Verifiers \/ make \notin Signers \cup Verifiers
      BY <1>4
    <3> QED
      BY <1>2, <1>4, <2>1, <3>1, PartsAre
  <2>2. CASE make # p.make
    <3>1. p.make \in Signers /\ make \in Verifiers
      BY <1>4, <2>2
    <3>2. alg \in Ed25519Alg \cup EcdsaAlg \cup RsaAlg
      BY <1>2, <3>1, MakerKinds
    <3>3. Parts(make, alg) \cap Public = Parts(p.make, alg) \cap Public
      BY <1>2, <1>4, <3>1, <3>2, PartsAre
    <3>4. "k" \notin Parts(p.make, alg) /\ Parts(make, alg) \subseteq Public
      BY <1>2, <1>4, <3>1, PartsAre
    <3> QED
      BY <3>3, <3>4
  <2> QED
    BY <2>1, <2>2
<1> HIDE DEF out, make, alg, m, back
<1>6. AlgTaken(make, out) = alg /\ KeyTaken(make, out) = out
  <2>1. AlgTaken(make, out) = alg
    BY <1>1, <1>3 DEF AlgTaken
  <2>2. ~ ComputesX(make)
    BY <1>4 DEF ComputesX, Signers
  <2> QED
    BY <2>1, <2>2 DEF KeyTaken
<1>7. OpsAllow(out["key_ops"], Purpose(make))
  <2>1. CASE p.make \in Signers \cup Verifiers
    <3>1. out["key_ops"] = {"verify"} /\ Purpose(make) = {"verify"}
      BY <1>1, <1>4, <2>1, MakerKinds DEF ExportedOps
    <3>2. {"verify"} \notin {None, Malformed}
      BY KeyConstants DEF Op, SignatureOps
    <3> QED
      BY <3>1, <3>2 DEF OpsAllow
  <2>2. CASE p.make \notin Signers \cup Verifiers
    BY <1>1, <1>2, <1>4, <2>2 DEF ExportedOps
  <2> QED
    BY <2>1, <2>2
<1>8. KeyTypeFits(make, out, alg)
  <2>1. CASE p.make \notin Signers \cup Verifiers
    BY <1>1, <1>4, <2>1 DEF KeyTypeFits, KeyType
  <2>2. CASE p.make \in Signers \cup Verifiers
    <3>1. alg \in Ed25519Alg \/ alg \in EcdsaAlg \/ alg \in RsaAlg
      BY <1>2, <2>2, MakerKinds
    <3>2. /\ alg \in Ed25519Alg => KeyType(p) = "OKP" /\ CurveParam(p) = "Ed25519"
          /\ alg \in EcdsaAlg => KeyType(p) = "EC2" /\ CurveParam(p) = CurveOf(alg)
          /\ alg \in RsaAlg => KeyType(p) = "RSA"
      BY <2>2, Families DEF KeyType, CurveParam, alg
    <3> QED
      BY <1>1, <1>4, <2>2, <3>1, <3>2 DEF KeyTypeFits
  <2> QED
    BY <2>1, <2>2
<1>9. HasBytes(out, Parts(make, alg))
  BY <1>1, <1>2, <1>5 DEF HasBytes
<1>10. LengthsFit(make, out, alg)
  <2>1. ASSUME alg \in EcdsaAlg
        PROVE  \A c \in {"x", "y"} : Length(out[c]) = CoordinateLen(alg)
    <3>1. p.make \in Signers \cup Verifiers
      BY <1>2, <2>1, MakerKinds, Families DEF EcdsaAlg, HmacAlg, AeadAlg
    <3>2. KeyType(p) = "EC2"
      BY <2>1, <3>1, Families DEF KeyType, alg
    <3> QED
      BY <1>1, <3>2 DEF NotGivenBack, Public, alg, m
  <2>2. ASSUME make \in Encryptors
        PROVE  Length(out["k"]) = AeadKeyLen(alg)
    <3>1. p.make \in Encryptors /\ p.make # "RingVerifier"
      BY <1>4, <2>2 DEF Encryptors
    <3> QED
      BY <1>1, <3>1 DEF LengthsFit, alg, m
  <2>3. ASSUME make = "Ed25519Verifier"
        PROVE  Length(out["x"]) = 32
    <3>1. p.make \in {"Ed25519Signer", "Ed25519Verifier"} /\ p.make # "RingVerifier"
      BY <1>4, <2>3
    <3>2. alg \in Ed25519Alg
      BY <1>2, <3>1 DEF Supported
    <3>3. Length(m["x"]) = 32
      BY <3>1, <3>2 DEF LengthsFit, Signers, alg, m
    <3> QED
      BY <1>1, <3>3 DEF Public
  <2> QED
    BY <1>4, <2>1, <2>2, <2>3 DEF LengthsFit
<1>11. Complete(make, out, alg)
  BY <1>4, <1>9, <1>10 DEF Complete
<1>12. out["kid"] # Malformed /\ out["base_iv"] # Malformed
  BY <1>1, <1>2
<1> HIDE DEF b
<1>13. back.ok /\ back.provider = b
  BY <1>4, <1>6, <1>7, <1>8, <1>11, <1>12, MadeOf DEF back, b
<1>14. /\ b.make = make /\ b.alg = alg /\ b.ops = ops /\ b.kid = out["kid"]
       /\ b.base_iv = IF make \in Encryptors THEN out["base_iv"] ELSE None
       /\ \A q \in Material :
            b.material[q] = IF q \in Parts(make, alg) THEN out[q] ELSE None
  BY ProviderParts DEF b
<1>15. Same(p, b)
  <2>1. Public \cup {"k"} \subseteq Material
    BY DEF Material, Private
  <2>2. \A q \in Material : q \notin Parts(p.make, alg) => m[q] = None
    BY <1>2 DEF Keep
  <2>3. \A q \in Public \cup {"k"} : m[q] = b.material[q]
    BY <1>1, <1>5, <1>14, <2>1, <2>2
  <2>4. p.base_iv = b.base_iv
    BY <1>1, <1>2, <1>4, <1>14
  <2> QED
    BY <1>1, <1>14, <2>3, <2>4 DEF Same, alg, m
<1>16. ASSUME make = p.make
       PROVE  b.make = p.make /\ b.ops = p.ops
  <2>1. CASE p.make \in Signers \cup Verifiers
    BY <1>2, <1>14, <1>16, <2>1
  <2>2. CASE p.make \notin Signers \cup Verifiers
    BY <1>1, <1>14, <1>16, <2>2 DEF ExportedOps
  <2> QED
    BY <2>1, <2>2
<1> QED
  BY <1>13, <1>15, <1>16 DEF back, out, make

-----------------------------------------------------------------------------
(* The invariant: what is at hand, in the set and on the wire permits      *)
(* nothing that was not permitted, and every provider is well made.        *)

LEMMA HandKeysTyped ==
  ASSUME NEW k, IsKey(k)
  PROVE  KeyTyped(k)
BY DEF IsKey, KeyTyped

LEMMA EditedTyped ==
  ASSUME NEW k, KeyTyped(k), NEW e \in KeyEdit
  PROVE  KeyTyped(KeySetTo(k, e[1], e[2]))
<1>1. e[1] \in {"key_ops", "kid", "kty"}
  BY KeyRingConstants
<1>2. k = [p \in Param |-> k[p]]
      /\ \A p \in Material : k[p] \in {None, Malformed} \/ k[p] \in Bytes
  BY DEF KeyTyped
<1> DEFINE q == KeySetTo(k, e[1], e[2])
<1>3. q = [p \in Param |-> q[p]] /\ \A p \in Param : p # e[1] => q[p] = k[p]
  BY <1>2 DEF KeySetTo
<1>4. Material \subseteq Param /\ e[1] \notin Material
  BY <1>1 DEF Param, Material, Private, Public
<1> HIDE DEF q
<1>5. \A p \in Material : q[p] = k[p]
  BY <1>3, <1>4
<1>6. KeyTyped(q)
  BY <1>2, <1>3, <1>5 DEF KeyTyped
<1> QED
  BY <1>6 DEF q

LEMMA RawTyped ==
  ASSUME NEW p \in RawProvider
  PROVE  /\ ProviderTyped(p)
         /\ p.make = "RingVerifier" \/ LengthsFit(p.make, p.material, p.alg)
         /\ \A op \in Op : Performs(p, op) => op \in Purpose(p.make)
         /\ SecretsOf(p.material) \subseteq Secret
<1>1. /\ p \in [make : Maker, alg : Supported(p.make), kid : Kid \cup {None},
                ops : {None}, base_iv : {None},
                material : [Material -> Bytes \cup {None}]]
      /\ p.material = Keep(p.material, Parts(p.make, p.alg))
      /\ HasBytes(p.material, Parts(p.make, p.alg))
      /\ p.make = "RingVerifier" \/ LengthsFit(p.make, p.material, p.alg)
  BY KeyRingConstants DEF IsRaw
<1>2. p.kid # Malformed /\ None # Malformed
  BY <1>1, KeyConstants
<1>3. OpsAllow(p.ops, Purpose(p.make))
  BY <1>1 DEF OpsAllow
<1>4. /\ p = [make |-> p.make, alg |-> p.alg, kid |-> p.kid, ops |-> p.ops,
              base_iv |-> p.base_iv, material |-> p.material]
      /\ p.make \in Maker /\ p.alg \in Supported(p.make)
      /\ p.ops = None /\ p.base_iv = None
      /\ p.material \in [Material -> Bytes \cup {None}]
  BY <1>1
<1>5. ProviderTyped(p)
  BY <1>1, <1>2, <1>3, <1>4 DEF ProviderTyped
<1>6. SecretsOf(p.material) \subseteq Secret
  <2>1. \A q \in Material : p.material[q] \in {None, Malformed} \/ p.material[q] \in Bytes
    BY <1>4
  <2> QED
    BY <2>1, SecretsAre
<1> QED
  BY <1>1, <1>5, <1>6 DEF Performs

LEMMA ProviderSecrets ==
  ASSUME NEW p, ProviderTyped(p)
  PROVE  SecretsOf(p.material) \subseteq Secret
<1>1. /\ p.make \in Maker /\ p.alg \in Supported(p.make)
      /\ p.material = Keep(p.material, Parts(p.make, p.alg))
      /\ HasBytes(p.material, Parts(p.make, p.alg))
  BY DEF ProviderTyped
<1>2. \A q \in Material : p.material[q] \in {None, Malformed} \/ p.material[q] \in Bytes
  BY <1>1 DEF Keep, HasBytes
<1> QED
  BY <1>2, SecretsAre

(* Nothing that was permitted is forgotten.                                *)
LEMMA PermissionsGrow ==
  ASSUME Granted, [Next]_vars
  PROVE  Granted' /\ \A s \in Secret : granted[s] \subseteq granted'[s]
<1>1. CASE WriteKey
  <2>1. PICK k \in HandKey : granted' = Grant(granted, {k})
    BY <1>1 DEF WriteKey
  <2> QED
    BY <2>1, GrantAdds DEF Granted
<1>2. CASE EditKey
  <2>1. granted' = Grant(granted, {key'})
    BY <1>2 DEF EditKey
  <2> QED
    BY <2>1, GrantAdds DEF Granted
<1>3. CASE Deliver
  <2>1. PICK ms \in ForeignSet :
          granted' = Grant(granted, {ms[i].key : i \in DOMAIN ms})
    BY <1>3 DEF Deliver
  <2> QED
    BY <2>1, GrantAdds DEF Granted
<1>4. CASE MakeRaw
  BY <1>4 DEF MakeRaw, Granted
<1>5. CASE \/ Import \/ SetBaseIv \/ Export \/ AddKey \/ SendSet \/ Receive \/ TakeKey
           \/ UNCHANGED vars
  <2>1. granted' = granted
    BY <1>5 DEF Import, SetBaseIv, Export, AddKey, SendSet, Receive, TakeKey, vars
  <2> QED
    BY <2>1 DEF Granted
<1> QED
  BY <1>1, <1>2, <1>3, <1>4, <1>5 DEF Next

LEMMA InitSafe == Init => Safe
<1> SUFFICES ASSUME Init
             PROVE  Safe
  OBVIOUS
<1>1. /\ key \in HandKey /\ granted = Grant([s \in Secret |-> {}], {key})
      /\ provider = None /\ keys = << >> /\ wire = << >>
  BY DEF Init
<1>2. KeyTyped(key)
  BY <1>1, HandKeysTyped, KeyRingConstants
<1>3. KeyGranted(granted, key)
  BY <1>1, <1>2, WrittenGranted
<1>4. Granted
  BY <1>1, GrantAdds DEF Granted
<1> QED
  BY <1>1, <1>2, <1>3, <1>4 DEF Safe, KeysGranted, WellMade, NoUnentitledUse

LEMMA KeysStayGranted ==
  ASSUME OriginOK, Safe, [Next]_vars
  PROVE  KeysGranted'
<1> DEFINE Good(k) == KeyTyped(k) /\ KeyGranted(granted', k)
<1>1. \A s \in Secret : granted[s] \subseteq granted'[s]
  BY PermissionsGrow DEF Safe
<1>2. ASSUME NEW k, KeyTyped(k), KeyGranted(granted, k)
      PROVE  Good(k)
  BY <1>1, <1>2, StillGranted
<1>3. /\ Good(key) /\ \A i \in DOMAIN keys : Good(keys[i])
      /\ \A i \in DOMAIN wire : Good(wire[i].key)
  BY <1>2 DEF Safe, KeysGranted
<1>4. ASSUME Good(key'), \A i \in DOMAIN keys' : Good(keys'[i]),
             \A i \in DOMAIN wire' : Good(wire'[i].key)
      PROVE  KeysGranted'
  BY <1>4 DEF KeysGranted
<1>5. IsRow(keys) /\ IsRow(wire)
  BY DEF OriginOK
<1>6. CASE WriteKey
  <2>1. PICK k \in HandKey : key' = k /\ granted' = Grant(granted, {k})
                             /\ UNCHANGED <<keys, wire>>
    BY <1>6 DEF WriteKey
  <2>2. KeyTyped(k)
    BY HandKeysTyped, KeyRingConstants
  <2>3. Good(key')
    BY <2>1, <2>2, WrittenGranted
  <2> QED
    BY <1>3, <1>4, <2>1, <2>3
<1>7. CASE EditKey
  <2>1. PICK e \in KeyEdit : key' = KeySetTo(key, e[1], e[2])
                             /\ granted' = Grant(granted, {key'})
                             /\ UNCHANGED <<keys, wire>>
    BY <1>7 DEF EditKey
  <2>2. KeyTyped(key')
    BY <1>3, <2>1, EditedTyped
  <2>3. Good(key')
    BY <2>1, <2>2, WrittenGranted
  <2> QED
    BY <1>3, <1>4, <2>1, <2>3
<1>8. CASE Deliver
  <2>1. PICK ms \in ForeignSet :
          /\ wire' = ms /\ granted' = Grant(granted, {ms[i].key : i \in DOMAIN ms})
          /\ UNCHANGED <<key, keys>>
    BY <1>8 DEF Deliver
  <2>2. ASSUME NEW i \in DOMAIN ms
        PROVE  Good(ms[i].key)
    <3>1. KeyTyped(ms[i].key)
      BY HandKeysTyped, KeyRingConstants
    <3>2. ms[i].key \in {ms[j].key : j \in DOMAIN ms}
      OBVIOUS
    <3> QED
      BY <2>1, <3>1, <3>2, WrittenGranted
  <2> QED
    BY <1>3, <1>4, <2>1, <2>2
<1>9. CASE Export
  <2>1. /\ provider # None /\ ToCoseKey(provider).ok
        /\ key' = ToCoseKey(provider).key /\ UNCHANGED <<keys, wire, granted>>
    BY <1>9 DEF Export
  <2>2. ProviderTyped(provider)
    BY <2>1 DEF Safe, WellMade
  <2>3. /\ KeyTyped(key')
        /\ SecretsOf(key') \subseteq SecretsOf(provider.material)
        /\ \A op \in PermittedBy(key') \cap OpsOf(key'["alg"]) :
             Performs(provider, op) \/ (op = "verify" /\ Performs(provider, "sign"))
    BY <2>1, <2>2, ExportedPermitsLess
  <2>4. \A op \in Op, s \in SecretsOf(provider.material) :
          Performs(provider, op) => GrantedBy(granted, op, s)
    BY <2>1 DEF Safe, NoUnentitledUse, Entitled, GrantedBy
  <2>5. ASSUME NEW s \in SecretsOf(key'),
               NEW op \in PermittedBy(key') \cap OpsOf(key'["alg"])
        PROVE  GrantedBy(granted, op, s)
    <3>1. op \in Op /\ "sign" \in Op /\ s \in SecretsOf(provider.material)
      BY <2>3 DEF PermittedBy, Op, SignatureOps
    <3>2. CASE Performs(provider, op)
      BY <2>4, <3>1, <3>2
    <3>3. CASE op = "verify" /\ Performs(provider, "sign")
      <4>1. GrantedBy(granted, "sign", s)
        BY <2>4, <3>1, <3>3
      <4> QED
        BY <3>3, <4>1 DEF GrantedBy
    <3> QED
      BY <2>3, <3>2, <3>3
  <2>6. Good(key')
    BY <2>1, <2>3, <2>5 DEF KeyGranted
  <2> QED
    BY <1>3, <1>4, <2>1, <2>6
<1>10. CASE AddKey
  <2>1. keys' = Append(keys, key) /\ UNCHANGED <<key, wire>>
    BY <1>10 DEF AddKey
  <2>2. \A i \in DOMAIN keys' : keys'[i] = key \/ \E j \in DOMAIN keys : keys'[i] = keys[j]
    BY <1>5, <2>1, AppendedRow
  <2> HIDE DEF Good
  <2> QED
    BY <1>3, <1>4, <2>1, <2>2
<1>11. CASE SendSet
  <2>1. ToVec(keys).ok /\ wire' = ToVec(keys).ms /\ UNCHANGED <<key, keys>>
    BY <1>11 DEF SendSet
  <2>2. DOMAIN wire' = DOMAIN keys /\ \A i \in DOMAIN keys : wire'[i].key = keys[i]
    BY <1>5, <2>1, SentSet
  <2> HIDE DEF Good
  <2> QED
    BY <1>3, <1>4, <2>1, <2>2
<1>12. CASE Receive
  <2>1. HoldsTheReadable(keys', wire) /\ UNCHANGED <<key, wire>>
    BY <1>5, <1>12, ReadSet DEF Receive
  <2>2. \A j \in DOMAIN keys' : \E i \in DOMAIN wire : keys'[j] = wire[i].key
    BY <2>1 DEF HoldsTheReadable
  <2> HIDE DEF Good
  <2> QED
    BY <1>3, <1>4, <2>1, <2>2
<1>13. CASE TakeKey
  <2>1. PICK kid \in Kid : key' \in Lookup(keys, kid) /\ UNCHANGED <<keys, wire>>
    BY <1>13 DEF TakeKey
  <2>2. \E i \in DOMAIN keys : key' = keys[i]
    BY <2>1 DEF Lookup
  <2> HIDE DEF Good
  <2> QED
    BY <1>3, <1>4, <2>1, <2>2
<1>14. CASE Import \/ MakeRaw \/ SetBaseIv \/ UNCHANGED vars
  <2>1. UNCHANGED <<key, keys, wire>>
    BY <1>14 DEF Import, MakeRaw, SetBaseIv, vars
  <2> QED
    BY <1>3, <1>4, <2>1
<1> QED
  BY <1>6, <1>7, <1>8, <1>9, <1>10, <1>11, <1>12, <1>13, <1>14 DEF Next

LEMMA ProviderStaysWellMade ==
  ASSUME Safe, [Next]_vars
  PROVE  WellMade' /\ NoUnentitledUse'
<1>1. Granted' /\ \A s \in Secret : granted[s] \subseteq granted'[s]
  BY PermissionsGrow DEF Safe
<1>2. ASSUME provider # None
      PROVE  /\ ProviderTyped(provider)
             /\ (raw /\ provider.make = "RingVerifier") \/
                  LengthsFit(provider.make, provider.material, provider.alg)
             /\ SecretsOf(provider.material) \subseteq Secret
             /\ \A op \in Op, s \in SecretsOf(provider.material) :
                  Performs(provider, op) => GrantedBy(granted, op, s)
  BY <1>2, ProviderSecrets DEF Safe, WellMade, NoUnentitledUse, Entitled, GrantedBy
<1>3. CASE UNCHANGED <<provider, raw>>
  <2>1. WellMade'
    BY <1>3 DEF Safe, WellMade
  <2>2. NoUnentitledUse'
    BY <1>1, <1>2, <1>3 DEF NoUnentitledUse, Entitled, GrantedBy
  <2> QED
    BY <2>1, <2>2
<1>4. CASE Import
  <2>1. PICK make \in Maker : /\ FromCoseKey(make, key).ok
                              /\ provider' = FromCoseKey(make, key).provider
                              /\ UNCHANGED granted
    BY <1>4 DEF Import
  <2>2. KeyTyped(key) /\ KeyGranted(granted, key)
    BY DEF Safe, KeysGranted
  <2>3. /\ ProviderTyped(provider')
        /\ LengthsFit(provider'.make, provider'.material, provider'.alg)
        /\ SecretsOf(provider'.material) \subseteq SecretsOf(key)
        /\ \A op \in Op : Performs(provider', op) =>
             op \in PermittedBy(key) \cap OpsOf(key["alg"])
    BY <2>1, <2>2, ImportedIsWellMade
  <2>4. WellMade'
    BY <2>3 DEF WellMade
  <2>5. NoUnentitledUse'
    BY <2>1, <2>2, <2>3 DEF NoUnentitledUse, Entitled, KeyGranted, GrantedBy
  <2> QED
    BY <2>4, <2>5
<1>5. CASE MakeRaw
  <2>1. PICK p \in RawProvider :
          /\ provider' = p /\ raw' = TRUE
          /\ granted' = [s \in Secret |->
               granted[s] \cup IF s \in SecretsOf(p.material) THEN Purpose(p.make) ELSE {}]
    BY <1>5 DEF MakeRaw
  <2>2. /\ ProviderTyped(p)
        /\ p.make = "RingVerifier" \/ LengthsFit(p.make, p.material, p.alg)
        /\ \A op \in Op : Performs(p, op) => op \in Purpose(p.make)
        /\ SecretsOf(p.material) \subseteq Secret
    BY RawTyped
  <2>3. WellMade'
    BY <2>1, <2>2 DEF WellMade
  <2>4. \A s \in SecretsOf(p.material) : Purpose(p.make) \subseteq granted'[s]
    BY <2>1, <2>2
  <2>5. NoUnentitledUse'
    BY <2>1, <2>2, <2>4 DEF NoUnentitledUse, Entitled
  <2> QED
    BY <2>3, <2>5
<1>6. CASE SetBaseIv
  <2>1. PICK iv \in BaseIv :
          /\ provider # None /\ provider.make \in Encryptors
          /\ provider' = [provider EXCEPT !.base_iv = iv] /\ UNCHANGED <<raw, granted>>
    BY <1>6 DEF SetBaseIv
  <2>2. ProviderTyped(provider)
    BY <1>2, <2>1
  <2>3. provider = [make |-> provider.make, alg |-> provider.alg, kid |-> provider.kid,
                    ops |-> provider.ops, base_iv |-> provider.base_iv,
                    material |-> provider.material]
    BY <2>2 DEF ProviderTyped
  <2>4. provider' = [make |-> provider.make, alg |-> provider.alg, kid |-> provider.kid,
                     ops |-> provider.ops, base_iv |-> iv,
                     material |-> provider.material]
    BY <2>1, <2>3
  <2>5. /\ provider'.make = provider.make /\ provider'.alg = provider.alg
        /\ provider'.kid = provider.kid /\ provider'.ops = provider.ops
        /\ provider'.base_iv = iv /\ provider'.material = provider.material
    BY <2>4
  <2>6. iv # Malformed
    BY KeyConstants
  <2>7. ProviderTyped(provider')
    BY <2>1, <2>2, <2>4, <2>5, <2>6 DEF ProviderTyped
  <2>8. WellMade'
    BY <1>2, <2>1, <2>5, <2>7 DEF WellMade
  <2>9. \A op : Performs(provider', op) <=> Performs(provider, op)
    BY <2>5 DEF Performs
  <2>10. NoUnentitledUse'
    BY <1>2, <2>1, <2>5, <2>9 DEF NoUnentitledUse, Entitled, GrantedBy
  <2> QED
    BY <2>8, <2>10
<1>7. CASE \/ WriteKey \/ EditKey \/ Export \/ AddKey \/ SendSet \/ Deliver \/ Receive
           \/ TakeKey \/ UNCHANGED vars
  <2>1. UNCHANGED <<provider, raw>>
    BY <1>7 DEF WriteKey, EditKey, Export, AddKey, SendSet, Deliver, Receive, TakeKey, vars
  <2> QED
    BY <1>3, <2>1
<1> QED
  BY <1>4, <1>5, <1>6, <1>7 DEF Next

LEMMA SafeCorrect == Spec => []Safe
<1>1. ASSUME OriginOK, Safe, [Next]_vars
      PROVE  Safe'
  <2>1. Granted'
    BY <1>1, PermissionsGrow DEF Safe
  <2> QED
    BY <1>1, <2>1, KeysStayGranted, ProviderStaysWellMade DEF Safe
<1> QED
  BY <1>1, InitSafe, OriginCorrect, PTL DEF Spec

-----------------------------------------------------------------------------
(* Whatever imports, exports, edits and sets a key went through, no        *)
(* provider does with a secret what nobody permitted (key.rs and the       *)
(* from_cose_key and to_cose_key of crypto.rs, aes_gcm.rs, ed25519.rs).    *)
THEOREM UseIsEntitled == Spec => []NoUnentitledUse
BY SafeCorrect, PTL DEF Safe

(* What to_cose_key gives, from_cose_key makes the same provider of, and   *)
(* only the RSA signer among the imported ones gives nothing.              *)
THEOREM ExportCorrect == Spec => []ExportedKeyRestoresTheProvider
<1> DEFINE out == ToCoseKey(provider)
           make == IF provider.make \in Signers THEN VerifierFor(provider.make)
                                                ELSE provider.make
           back == FromCoseKey(make, out.key)
           rsaSigner == provider.make = "RingSigner" /\ provider.alg \in RsaAlg
<1> SUFFICES ASSUME Safe, provider # None
             PROVE  /\ ~ raw => (out.ok <=> ~ rsaSigner)
                    /\ out.ok => /\ back.ok /\ Same(provider, back.provider)
                                 /\ \A op \in Purpose(make) :
                                      make = provider.make =>
                                        (Performs(back.provider, op)
                                           <=> Performs(provider, op))
  <2>1. Safe => ExportedKeyRestoresTheProvider
    BY DEF ExportedKeyRestoresTheProvider
  <2> QED
    BY <2>1, SafeCorrect, PTL
<1>1. /\ ProviderTyped(provider)
      /\ (raw /\ provider.make = "RingVerifier") \/
           LengthsFit(provider.make, provider.material, provider.alg)
  BY DEF Safe, WellMade
<1>2. provider.make \in Maker /\ provider.alg \in Supported(provider.make)
  BY <1>1 DEF ProviderTyped
<1>3. ASSUME ~ raw
      PROVE  out.ok <=> ~ rsaSigner
  <2>1. out.ok <=> ~ NotGivenBack(provider)
    BY GivenBack
  <2>2. ASSUME KeyType(provider) = "EC2"
        PROVE  provider.alg \in EcdsaAlg
    <3>1. provider.make \in Signers \cup Verifiers /\ provider.alg \notin Ed25519Alg
      BY <2>2, Families DEF KeyType
    <3>2. provider.alg \in EcdsaAlg \/ provider.alg \in RsaAlg
      BY <1>2, <3>1, MakerKinds
    <3>3. provider.alg \notin EcdsaAlg => KeyType(provider) = "RSA"
      BY <3>1 DEF KeyType
    <3> QED
      BY <2>2, <3>2, <3>3
  <2>3. ASSUME KeyType(provider) = "EC2", NEW c \in {"x", "y"}
        PROVE  Length(provider.material[c]) = CoordinateLen(provider.alg)
    BY <1>1, <1>3, <2>2, <2>3 DEF LengthsFit
  <2> QED
    BY <2>1, <2>3 DEF NotGivenBack
<1>4. ASSUME out.ok
      PROVE  /\ back.ok /\ Same(provider, back.provider)
             /\ make = provider.make =>
                  /\ back.provider.make = provider.make
                  /\ back.provider.ops = provider.ops
  <2>1. provider.make = "RingVerifier" \/
          LengthsFit(provider.make, provider.material, provider.alg)
    BY <1>1
  <2> QED
    BY <1>1, <1>4, <2>1, ImportsWhatItGave
<1> QED
  BY <1>3, <1>4 DEF Performs

-----------------------------------------------------------------------------
(* The DER documents of RSA keys. What the model computes by recursive     *)
(* functions is a choice among the functions that satisfy an equation:     *)
(* the lemmas show first that there is one, by induction, which rests on   *)
(* the least member every set of natural numbers has.                      *)

(* A number is put together again from quotient and remainder.             *)
LEMMA DivMod ==
  ASSUME NEW a \in Nat, NEW r \in Nat \ {0}
  PROVE  /\ a \div r \in Nat /\ a % r \in 0 .. r - 1
         /\ a = r * (a \div r) + (a % r)
<1>1. a \div r \in Int /\ a % r \in 0 .. r - 1
  OBVIOUS
<1>2. a = r * (a \div r) + (a % r)
  OBVIOUS
<1>3. a \div r \in Nat
  OBVIOUS
<1> QED BY <1>1, <1>2, <1>3

(* Every set of natural numbers that is not empty has a least member: the  *)
(* sets 0 .. x are well-founded under strict inclusion.                    *)
LEMMA LeastNatural ==
  ASSUME NEW T \in SUBSET Nat, T # {}
  PROVE  \E x \in T : \A y \in T : x <= y
<1> DEFINE I == {0 .. x : x \in T}
           R == StrictSubsetOrdering(Nat)
           F == FiniteSubsetsOf(Nat)
<1>1. I \subseteq F
  <2> SUFFICES ASSUME NEW x \in T PROVE 0 .. x \in F
    OBVIOUS
  <2>1. IsFiniteSet(0 .. x)
    BY FS_Interval
  <2> QED BY <2>1 DEF FiniteSubsetsOf
<1>2. I # {}
  OBVIOUS
<1>3. IsWellFoundedOn(R, F)
  BY FS_StrictSubsetOrderingWellFounded
<1> HIDE DEF I, R, F
<1>4. PICK s \in I : \A t \in I : ~ (<<t, s>> \in R)
  BY <1>1, <1>2, <1>3, WFMin
<1>5. PICK x \in T : s = 0 .. x
  BY DEF I
<1>6. \A y \in T : x <= y
  <2> SUFFICES ASSUME NEW y \in T, ~ (x <= y) PROVE FALSE
    OBVIOUS
  <2>0. y < x
    OBVIOUS
  <2>1. 0 .. y \in I
    BY DEF I
  <2>2. 0 .. y \subseteq 0 .. x /\ 0 .. x \subseteq Nat /\ x \in 0 .. x /\ x \notin 0 .. y
    BY <2>0
  <2>3. <<0 .. y, s>> \in R
    BY <2>2, <1>5 DEF R, StrictSubsetOrdering
  <2> QED BY <2>1, <2>3, <1>4
<1>. QED
  BY <1>6

(* Induction over the natural numbers, stated of a set.                    *)
LEMMA NatInduct ==
  ASSUME NEW S, 0 \in S, \A n \in Nat : n \in S => n + 1 \in S
  PROVE  Nat \subseteq S
<1> DEFINE T == Nat \ S
<1> SUFFICES ASSUME T # {} PROVE FALSE
  OBVIOUS
<1>1. PICK x \in T : \A y \in T : x <= y
  BY LeastNatural
<1>2. x # 0 /\ x - 1 \in Nat /\ x - 1 \notin T
  BY <1>1
<1> QED
  BY <1>2

(* Induction up to a number.                                               *)
LEMMA UpInduct ==
  ASSUME NEW n \in Nat, NEW S, 0 \in S,
         \A k \in 0 .. n - 1 : k \in S => k + 1 \in S
  PROVE  0 .. n \subseteq S
<1> DEFINE T == {k \in Nat : k <= n => k \in S}
<1>1. Nat \subseteq T
  <2>1. 0 \in T
    OBVIOUS
  <2>2. \A k \in Nat : k \in T => k + 1 \in T
    OBVIOUS
  <2> QED
    BY <2>1, <2>2, NatInduct
<1> QED
  BY <1>1

(* A function may be defined by recursion on the numbers up to n.          *)
Recurs(f, n, S, a, G) ==
  /\ f \in [0 .. n -> S] /\ f[0] = a
  /\ \A i \in 1 .. n : f[i] = G[<<i, f[i - 1]>>]

(* Such a function exists, for a step given as a function G.               *)
LEMMA Recursion ==
  ASSUME NEW n \in Nat, NEW S, NEW a \in S, NEW G \in [Nat \X S -> S]
  PROVE  \E f : Recurs(f, n, S, a, G)
<1> DEFINE Good(k, f) == /\ f \in [0 .. k -> S] /\ f[0] = a
                         /\ \A i \in 1 .. k : f[i] = G[<<i, f[i - 1]>>]
           T == {k \in Nat : \E f : Good(k, f)}
<1>1. 0 \in T
  <2> DEFINE f == [i \in 0 .. 0 |-> a]
  <2>1. f \in [0 .. 0 -> S] /\ f[0] = a /\ 1 .. 0 = {}
    OBVIOUS
  <2>2. Good(0, f)
    BY <2>1
  <2> HIDE DEF Good, f
  <2> QED
    BY <2>2
<1>2. ASSUME NEW k \in 0 .. n - 1, k \in T
      PROVE  k + 1 \in T
  <2>1. PICK f : Good(k, f)
    BY <1>2
  <2> DEFINE g == [i \in 0 .. k + 1 |-> IF i = k + 1 THEN G[<<k + 1, f[k]>>]
                                                    ELSE f[i]]
  <2>2. f[k] \in S /\ G[<<k + 1, f[k]>>] \in S
    BY <2>1
  <2>3. g \in [0 .. k + 1 -> S] /\ g[0] = a
    BY <2>1, <2>2
  <2>4. ASSUME NEW i \in 1 .. k + 1 PROVE g[i] = G[<<i, g[i - 1]>>]
    <3>1. i - 1 \in 0 .. k /\ i - 1 # k + 1 /\ g[i - 1] = f[i - 1]
      OBVIOUS
    <3>2. CASE i = k + 1
      BY <3>1, <3>2, SMTT(30)
    <3>3. CASE i # k + 1
      <4>1. i \in 1 .. k /\ g[i] = f[i]
        BY <3>3
      <4> HIDE DEF g
      <4> QED
        BY <2>1, <3>1, <4>1
    <3> QED
      BY <3>2, <3>3
  <2>5. Good(k + 1, g)
    BY <2>3, <2>4
  <2> HIDE DEF Good, g
  <2> QED
    BY <2>5
<1>3. n \in T
  <2> HIDE DEF T
  <2> QED
    BY <1>1, <1>2, UpInduct
<1>4. PICK f : Good(n, f)
  BY <1>3
<1> QED
  BY <1>4 DEF Recurs

(* What a byte may be.                                                     *)
Byte == 0 .. Radix - 1

(* What the assumptions say of bytes, words and tags.                      *)
LEMMA ByteFacts ==
  /\ Radix \in Nat \ {0} /\ WordBytes \in Nat \ {0} /\ Byte \subseteq Nat
  /\ HighBit \in Nat /\ Radix = 2 * HighBit /\ WordBytes < HighBit
  /\ IntegerTag \in Byte /\ SequenceTag \in Byte /\ 0 \in Byte /\ 1 \in Byte
  /\ HighBit # 0
<1>1. Radix \in Nat /\ WordBytes \in Nat \ {0} /\ Radix % 2 = 0
      /\ WordBytes < Radix \div 2 /\ IntegerTag \in Byte /\ SequenceTag \in Byte
  BY DerConstants DEF Byte
<1>2. Radix = 2 * (Radix \div 2)
  BY <1>1
<1> QED
  BY <1>1, <1>2 DEF Byte, HighBit

(* Division by the radix.                                                  *)
LEMMA ByRadix ==
  \A x \in Nat : /\ x \div Radix \in Nat /\ x % Radix \in Nat /\ x % Radix \in Byte
                 /\ x = Radix * (x \div Radix) + (x % Radix)
<1> SUFFICES ASSUME NEW x \in Nat
             PROVE  /\ x \div Radix \in Nat /\ x % Radix \in Nat /\ x % Radix \in Byte
                    /\ x = Radix * (x \div Radix) + (x % Radix)
  OBVIOUS
<1>1. Radix \in Nat \ {0} /\ Byte \subseteq Nat
  BY ByteFacts
<1>2. /\ x \div Radix \in Nat /\ x % Radix \in 0 .. Radix - 1
      /\ x = Radix * (x \div Radix) + (x % Radix)
  BY <1>1, DivMod
<1> QED
  BY <1>1, <1>2 DEF Byte

(* The powers of the radix up to what a word holds.                        *)
LEMMA UsizeValuesIs ==
  \E P \in [0 .. WordBytes -> Nat] :
    /\ P[0] = 1 /\ \A k \in 1 .. WordBytes : P[k] = Radix * P[k - 1]
    /\ UsizeValues = P[WordBytes]
<1> DEFINE G == [x \in Nat \X Nat |-> Radix * x[2]]
           Eq(f) == f = [k \in 0 .. WordBytes |-> IF k = 0 THEN 1 ELSE Radix * f[k - 1]]
           P == CHOOSE f : Eq(f)
<1>0. Radix \in Nat /\ WordBytes \in Nat /\ 1 \in Nat
  BY ByteFacts
<1>1. G \in [Nat \X Nat -> Nat] /\ \A i, m \in Nat : G[<<i, m>>] = Radix * m
  BY <1>0
<1> HIDE DEF G
<1>10. \E g : Recurs(g, WordBytes, Nat, 1, G)
  BY <1>0, <1>1, Recursion
<1>2. PICK g \in [0 .. WordBytes -> Nat] :
        g[0] = 1 /\ \A i \in 1 .. WordBytes : g[i] = G[<<i, g[i - 1]>>]
  BY <1>10 DEF Recurs
<1>3. Eq(g)
  <2>1. ASSUME NEW k \in 0 .. WordBytes
        PROVE  g[k] = IF k = 0 THEN 1 ELSE Radix * g[k - 1]
    <3>1. CASE k = 0
      BY <1>2, <3>1
    <3>2. CASE k # 0
      <4>1. k \in 1 .. WordBytes /\ k - 1 \in 0 .. WordBytes /\ g[k - 1] \in Nat /\ k \in Nat
        BY <1>0, <1>2, <3>2
      <4> QED
        BY <1>1, <1>2, <3>2, <4>1
    <3> QED
      BY <3>1, <3>2
  <2> QED
    BY <1>2, <2>1
<1>4. Eq(P)
  <2> HIDE DEF Eq
  <2> QED
    BY <1>3
<1>5. UsizeValues = P[WordBytes]
  BY DEF UsizeValues
<1> HIDE DEF P
<1>6. P[0] = 1 /\ \A k \in 1 .. WordBytes : P[k] = Radix * P[k - 1]
  BY <1>0, <1>4
<1>7. 0 .. WordBytes \subseteq {k \in 0 .. WordBytes : P[k] \in Nat}
  <2> DEFINE S == {k \in 0 .. WordBytes : P[k] \in Nat}
  <2>1. 0 \in S
    BY <1>0, <1>6
  <2>2. ASSUME NEW k \in 0 .. WordBytes - 1, k \in S PROVE k + 1 \in S
    <3>1. k + 1 \in 1 .. WordBytes /\ k + 1 \in 0 .. WordBytes /\ (k + 1) - 1 = k
      BY <1>0
    <3>2. P[k + 1] = Radix * P[k]
      BY <1>6, <3>1
    <3> QED
      BY <1>0, <2>2, <3>1, <3>2
  <2> HIDE DEF S
  <2> QED
    BY <1>0, <2>1, <2>2, UpInduct DEF S
<1>8. P \in [0 .. WordBytes -> Nat]
  BY <1>4, <1>7
<1> QED
  BY <1>5, <1>6, <1>8

(* Horner's scheme over a byte string.                                     *)
LEMMA FromBeBytesIs ==
  ASSUME NEW bytes \in Seq(Byte)
  PROVE  \E R \in [0 .. Len(bytes) -> Nat] :
           /\ R[0] = 0
           /\ \A i \in 1 .. Len(bytes) : R[i] = R[i - 1] * Radix + bytes[i]
           /\ FromBeBytes(bytes) = R[Len(bytes)]
<1> DEFINE n == Len(bytes)
           G == [x \in Nat \X Nat |->
                   IF x[1] \in 1 .. n THEN x[2] * Radix + bytes[x[1]] ELSE 0]
           Eq(f) == f = [i \in 0 .. n |->
                           IF i = 0 THEN 0 ELSE f[i - 1] * Radix + bytes[i]]
           R == CHOOSE f : Eq(f)
<1>1. /\ Radix \in Nat /\ n \in Nat /\ 0 \in Nat
      /\ \A i \in 1 .. n : bytes[i] \in Nat
      /\ \A m \in Nat : m * Radix \in Nat
  <2>1. Radix \in Nat /\ Byte \subseteq Nat
    BY ByteFacts
  <2>2. n \in Nat /\ \A i \in 1 .. n : bytes[i] \in Byte
    OBVIOUS
  <2>3. \A m \in Nat : m * Radix \in Nat
    BY <2>1
  <2> HIDE DEF n
  <2>4. \A i \in 1 .. n : bytes[i] \in Nat
    BY <2>1, <2>2
  <2> QED
    BY <2>1, <2>2, <2>3, <2>4
<1>2. FromBeBytes(bytes) = R[n]
  BY DEF FromBeBytes
<1>3. /\ G \in [Nat \X Nat -> Nat]
      /\ \A i \in 1 .. n : \A m \in Nat : G[<<i, m>>] = m * Radix + bytes[i]
  <2> HIDE DEF n
  <2>1. ASSUME NEW i \in Nat, NEW m \in Nat
        PROVE  (IF i \in 1 .. n THEN m * Radix + bytes[i] ELSE 0) \in Nat
    BY <1>1
  <2>2. 1 .. n \subseteq Nat
    BY <1>1
  <2> QED
    BY <2>1, <2>2
<1> HIDE DEF G, n
<1>4. \E g : Recurs(g, n, Nat, 0, G)
  BY <1>1, <1>3, Recursion
<1>5. PICK g \in [0 .. n -> Nat] :
        g[0] = 0 /\ \A i \in 1 .. n : g[i] = G[<<i, g[i - 1]>>]
  BY <1>4 DEF Recurs
<1>6. Eq(g)
  <2>1. ASSUME NEW i \in 0 .. n
        PROVE  g[i] = IF i = 0 THEN 0 ELSE g[i - 1] * Radix + bytes[i]
    <3>1. CASE i = 0
      BY <1>5, <3>1
    <3>2. CASE i # 0
      <4>1. i \in 1 .. n /\ i - 1 \in 0 .. n /\ g[i - 1] \in Nat
        BY <1>1, <1>5, <3>2
      <4> QED
        BY <1>3, <1>5, <3>2, <4>1
    <3> QED
      BY <3>1, <3>2
  <2> QED
    BY <1>5, <2>1
<1>7. Eq(R)
  <2> HIDE DEF Eq
  <2> QED
    BY <1>6
<1> HIDE DEF R
<1>8. R[0] = 0 /\ \A i \in 1 .. n : R[i] = R[i - 1] * Radix + bytes[i]
  BY <1>1, <1>7
<1>9. 0 .. n \subseteq {i \in 0 .. n : R[i] \in Nat}
  <2> DEFINE S == {i \in 0 .. n : R[i] \in Nat}
  <2>1. 0 \in S
    BY <1>1, <1>8
  <2>2. ASSUME NEW i \in 0 .. n - 1, i \in S PROVE i + 1 \in S
    <3>1. i + 1 \in 1 .. n /\ i + 1 \in 0 .. n /\ (i + 1) - 1 = i
      BY <1>1
    <3>2. R[i + 1] = R[i] * Radix + bytes[i + 1]
      BY <1>8, <3>1
    <3>3. R[i] * Radix \in Nat /\ bytes[i + 1] \in Nat
      BY <1>1, <2>2, <3>1
    <3> QED
      BY <3>1, <3>2, <3>3
  <2> HIDE DEF S
  <2> QED
    BY <1>1, <2>1, <2>2, UpInduct DEF S
<1>10. R \in [0 .. n -> Nat]
  BY <1>7, <1>9
<1> QED
  BY <1>2, <1>8, <1>10 DEF n

(* A number divided by the radix again and again.                          *)
LEMMA ToBeBytesIs ==
  ASSUME NEW m \in Nat
  PROVE  \E R \in [0 .. WordBytes -> Nat] :
           /\ R[0] = m
           /\ \A k \in 1 .. WordBytes : R[k] = R[k - 1] \div Radix
           /\ ToBeBytes(m) = [i \in 1 .. WordBytes |-> R[WordBytes - i] % Radix]
<1> DEFINE G == [x \in Nat \X Nat |-> x[2] \div Radix]
           Eq(f) == f = [k \in 0 .. WordBytes |->
                           IF k = 0 THEN m ELSE f[k - 1] \div Radix]
           R == CHOOSE f : Eq(f)
<1>1. Radix \in Nat \ {0} /\ WordBytes \in Nat
  BY ByteFacts
<1>2. ToBeBytes(m) = [i \in 1 .. WordBytes |-> R[WordBytes - i] % Radix]
  BY DEF ToBeBytes
<1>3. /\ G \in [Nat \X Nat -> Nat]
      /\ \A i, x \in Nat : G[<<i, x>>] = x \div Radix /\ x \div Radix \in Nat
  <2>1. \A x \in Nat : x \div Radix \in Nat
    BY <1>1, DivMod
  <2> QED
    BY <2>1
<1> HIDE DEF G
<1>4. \E g : Recurs(g, WordBytes, Nat, m, G)
  BY <1>1, <1>3, Recursion
<1>5. PICK g \in [0 .. WordBytes -> Nat] :
        g[0] = m /\ \A i \in 1 .. WordBytes : g[i] = G[<<i, g[i - 1]>>]
  BY <1>4 DEF Recurs
<1>6. Eq(g)
  <2>1. ASSUME NEW i \in 0 .. WordBytes
        PROVE  g[i] = IF i = 0 THEN m ELSE g[i - 1] \div Radix
    <3>1. CASE i = 0
      BY <1>5, <3>1
    <3>2. CASE i # 0
      <4>1. i \in Nat /\ i \in 1 .. WordBytes /\ i - 1 \in 0 .. WordBytes
            /\ g[i - 1] \in Nat
        BY <1>1, <1>5, <3>2
      <4> QED
        BY <1>3, <1>5, <3>2, <4>1
    <3> QED
      BY <3>1, <3>2
  <2> QED
    BY <1>5, <2>1
<1>7. Eq(R)
  <2> HIDE DEF Eq
  <2> QED
    BY <1>6
<1> HIDE DEF R
<1>8. R[0] = m /\ \A i \in 1 .. WordBytes : R[i] = R[i - 1] \div Radix
  BY <1>1, <1>7
<1>9. 0 .. WordBytes \subseteq {i \in 0 .. WordBytes : R[i] \in Nat}
  <2> DEFINE S == {i \in 0 .. WordBytes : R[i] \in Nat}
  <2>1. 0 \in S
    BY <1>1, <1>8
  <2>2. ASSUME NEW i \in 0 .. WordBytes - 1, i \in S PROVE i + 1 \in S
    <3>1. i + 1 \in 1 .. WordBytes /\ i + 1 \in 0 .. WordBytes /\ (i + 1) - 1 = i
      BY <1>1
    <3>2. R[i + 1] = R[i] \div Radix /\ i \in Nat
      BY <1>8, <3>1
    <3> QED
      BY <1>3, <2>2, <3>1, <3>2
  <2> HIDE DEF S
  <2> QED
    BY <1>1, <2>1, <2>2, UpInduct DEF S
<1>10. R \in [0 .. WordBytes -> Nat]
  BY <1>7, <1>9
<1> QED
  BY <1>2, <1>8, <1>10

(* Whatever follows Horner's scheme computes the number.                   *)
LEMMA FromBeBytesBy ==
  ASSUME NEW bytes \in Seq(Byte), NEW H, H[0] = 0,
         \A i \in 1 .. Len(bytes) : H[i] = H[i - 1] * Radix + bytes[i]
  PROVE  FromBeBytes(bytes) = H[Len(bytes)]
<1> DEFINE n == Len(bytes)
<1>1. PICK R \in [0 .. n -> Nat] :
        /\ R[0] = 0 /\ \A i \in 1 .. n : R[i] = R[i - 1] * Radix + bytes[i]
        /\ FromBeBytes(bytes) = R[n]
  BY FromBeBytesIs
<1> DEFINE T == {i \in 0 .. n : R[i] = H[i]}
<1>2. n \in Nat
  OBVIOUS
<1> HIDE DEF n
<1>3. 0 \in T
  BY <1>1, <1>2
<1>4. ASSUME NEW i \in 0 .. n - 1, i \in T PROVE i + 1 \in T
  <2>1. i + 1 \in 1 .. n /\ i + 1 \in 0 .. n /\ (i + 1) - 1 = i
    BY <1>2
  <2>2. H[i + 1] = H[i] * Radix + bytes[i + 1]
    BY <2>1 DEF n
  <2>3. R[i + 1] = R[i] * Radix + bytes[i + 1]
    BY <1>1, <2>1
  <2> QED
    BY <1>4, <2>1, <2>2, <2>3
<1>5. n \in T
  <2>1. 0 .. n \subseteq T
    <3> HIDE DEF T
    <3> QED
      BY <1>2, <1>3, <1>4, UpInduct
  <2> QED
    BY <1>2, <2>1
<1> QED
  BY <1>1, <1>5 DEF n

(* A usize becomes as many bytes as a word has.                            *)
LEMMA ToBeBytesTyped ==
  ASSUME NEW m \in Nat
  PROVE  ToBeBytes(m) \in Seq(Byte) /\ Len(ToBeBytes(m)) = WordBytes
<1>1. PICK R \in [0 .. WordBytes -> Nat] :
        ToBeBytes(m) = [i \in 1 .. WordBytes |-> R[WordBytes - i] % Radix]
  BY ToBeBytesIs
<1>2. Radix \in Nat \ {0} /\ WordBytes \in Nat
  BY ByteFacts
<1>3. ASSUME NEW i \in 1 .. WordBytes PROVE R[WordBytes - i] % Radix \in Byte
  <2>1. WordBytes - i \in 0 .. WordBytes
    BY <1>2
  <2> QED
    BY <1>2, <2>1, DivMod DEF Byte
<1>4. ToBeBytes(m) \in [1 .. WordBytes -> Byte]
  BY <1>1, <1>3
<1> QED
  BY <1>2, <1>4

(* A usize is what its bytes say.                                          *)
LEMMA WordRoundTrip ==
  ASSUME NEW m \in Nat, m < UsizeValues
  PROVE  FromBeBytes(ToBeBytes(m)) = m
<1>1. PICK R \in [0 .. WordBytes -> Nat] :
        /\ R[0] = m
        /\ \A k \in 1 .. WordBytes : R[k] = R[k - 1] \div Radix
        /\ ToBeBytes(m) = [i \in 1 .. WordBytes |-> R[WordBytes - i] % Radix]
  BY ToBeBytesIs
<1>2. PICK P \in [0 .. WordBytes -> Nat] :
        /\ P[0] = 1 /\ \A k \in 1 .. WordBytes : P[k] = Radix * P[k - 1]
        /\ UsizeValues = P[WordBytes]
  BY UsizeValuesIs
<1>3. Radix \in Nat \ {0} /\ WordBytes \in Nat
  BY ByteFacts
<1>4. R[WordBytes] = 0
  <2> DEFINE T == {k \in 0 .. WordBytes : R[k] * P[k] <= m}
  <2>1. 0 \in T
    BY <1>1, <1>2, <1>3
  <2>2. ASSUME NEW k \in 0 .. WordBytes - 1, k \in T PROVE k + 1 \in T
    <3>1. k + 1 \in 1 .. WordBytes /\ k + 1 \in 0 .. WordBytes /\ (k + 1) - 1 = k
          /\ k \in 0 .. WordBytes
      BY <1>3
    <3>2. R[k + 1] = R[k] \div Radix /\ P[k + 1] = Radix * P[k]
      BY <1>1, <1>2, <3>1
    <3> DEFINE q == R[k] \div Radix
               p == P[k]
    <3>3. q \in Nat /\ p \in Nat /\ R[k] \in Nat /\ Radix * q \in Nat
          /\ Radix * q <= R[k]
      <4>1. R[k] \in Nat /\ p \in Nat
        BY <3>1
      <4>2. q \in Nat /\ R[k] % Radix \in Nat
            /\ R[k] = Radix * q + (R[k] % Radix)
        <5> QED
          BY <4>1, ByRadix
      <4>3. Radix * q \in Nat
        <5> HIDE DEF q
        <5> QED
          BY <1>3, <4>2
      <4> HIDE DEF q, p
      <4> QED
        BY <4>1, <4>2, <4>3
    <3>4. q * (Radix * p) = (Radix * q) * p
      <4> HIDE DEF p, q
      <4> QED
        BY <1>3, <3>3
    <3>5. (Radix * q) * p <= R[k] * p
      <4>1. \A a, b, c \in Nat : a <= b => a * c <= b * c
        OBVIOUS
      <4>2. Radix * q \in Nat
        BY <1>3, <3>3
      <4> HIDE DEF p, q
      <4> QED
        BY <3>3, <4>1, <4>2
    <3>6. R[k + 1] * P[k + 1] <= R[k] * p
      BY <3>2, <3>4, <3>5
    <3>7. R[k + 1] * P[k + 1] \in Nat /\ R[k] * p \in Nat
      <4>1. R[k + 1] \in Nat /\ P[k + 1] \in Nat
        BY <3>1
      <4> HIDE DEF p
      <4> QED
        BY <3>3, <4>1
    <3>8. R[k] * p <= m
      BY <2>2
    <3> QED
      BY <3>1, <3>6, <3>7, <3>8
  <2>3. WordBytes \in T
    <3>1. 0 .. WordBytes \subseteq T
      <4> HIDE DEF T
      <4> QED
        BY <1>3, <2>1, <2>2, UpInduct
    <3> QED
      BY <1>3, <3>1
  <2>4. R[WordBytes] \in Nat /\ P[WordBytes] \in Nat
        /\ R[WordBytes] * P[WordBytes] < P[WordBytes]
    BY <1>2, <1>3, <2>3
  <2>5. \A a, b \in Nat : a * b < b => a = 0
    OBVIOUS
  <2> QED
    BY <2>4, <2>5
<1> DEFINE H == [i \in 0 .. WordBytes |-> R[WordBytes - i]]
<1>5. H[0] = 0 /\ H[WordBytes] = m
  BY <1>1, <1>3, <1>4
<1>6. ASSUME NEW i \in 1 .. WordBytes
      PROVE  H[i] = H[i - 1] * Radix + ToBeBytes(m)[i]
  <2>1. /\ i \in 0 .. WordBytes /\ i - 1 \in 0 .. WordBytes
        /\ WordBytes - (i - 1) \in 1 .. WordBytes /\ WordBytes - i \in 0 .. WordBytes
        /\ (WordBytes - (i - 1)) - 1 = WordBytes - i
    BY <1>3
  <2>2. R[WordBytes - (i - 1)] = R[WordBytes - i] \div Radix
    BY <1>1, <2>1
  <2>3. R[WordBytes - i] \in Nat
    BY <2>1
  <2>4. R[WordBytes - i] = Radix * (R[WordBytes - i] \div Radix) + (R[WordBytes - i] % Radix)
        /\ R[WordBytes - i] \div Radix \in Nat
    BY <1>3, <2>3, DivMod
  <2>5. H[i] = R[WordBytes - i] /\ H[i - 1] = R[WordBytes - i] \div Radix
    BY <2>1, <2>2
  <2>6. ToBeBytes(m)[i] = R[WordBytes - i] % Radix
    BY <1>1
  <2>7. Radix * (R[WordBytes - i] \div Radix) = (R[WordBytes - i] \div Radix) * Radix
    BY <1>3, <2>4
  <2> HIDE DEF H
  <2> QED
    BY <2>4, <2>5, <2>6, <2>7
<1> HIDE DEF H
<1> QED
  BY <1>5, <1>6, ToBeBytesTyped, FromBeBytesBy

(* What is left of a byte string from some place on.                       *)
LEMMA FromIs ==
  ASSUME NEW s \in Seq(Byte), NEW k \in 0 .. Len(s)
  PROVE  /\ From(s, k + 1) \in Seq(Byte) /\ Len(From(s, k + 1)) = Len(s) - k
         /\ \A i \in 1 .. Len(s) - k : From(s, k + 1)[i] = s[k + i]
<1>1. Len(s) \in Nat /\ k \in Nat /\ k <= Len(s) /\ k + 1 \in Int
      /\ \A i \in k + 1 .. Len(s) : s[i] \in Byte
  OBVIOUS
<1>2. /\ SubSeq(s, k + 1, Len(s)) \in Seq(Byte)
      /\ Len(SubSeq(s, k + 1, Len(s)))
           = IF k + 1 <= Len(s) THEN Len(s) - (k + 1) + 1 ELSE 0
      /\ \A i \in 1 .. Len(s) - (k + 1) + 1 :
           SubSeq(s, k + 1, Len(s))[i] = s[(k + 1) + i - 1]
  BY <1>1, SubSeqProperties
<1> QED
  BY <1>1, <1>2 DEF From

(* Leading zeros say nothing.                                              *)
LEMMA ZerosDropped ==
  ASSUME NEW s \in Seq(Byte), NEW k \in 0 .. Len(s), \A i \in 1 .. k : s[i] = 0
  PROVE  FromBeBytes(From(s, k + 1)) = FromBeBytes(s)
<1> DEFINE n == Len(s)
<1>1. PICK R \in [0 .. n -> Nat] :
        /\ R[0] = 0 /\ \A i \in 1 .. n : R[i] = R[i - 1] * Radix + s[i]
        /\ FromBeBytes(s) = R[n]
  BY FromBeBytesIs
<1>2. n \in Nat /\ k \in 0 .. n /\ k \in Nat /\ Radix \in Nat
  BY ByteFacts
<1>3. R[k] = 0
  <2> DEFINE T == {i \in 0 .. k : R[i] = 0}
  <2>1. 0 \in T
    BY <1>1, <1>2
  <2>2. ASSUME NEW i \in 0 .. k - 1, i \in T PROVE i + 1 \in T
    <3>1. i + 1 \in 1 .. n /\ i + 1 \in 1 .. k /\ i + 1 \in 0 .. k /\ (i + 1) - 1 = i
      BY <1>2
    <3>2. R[i + 1] = R[i] * Radix + s[i + 1] /\ s[i + 1] = 0 /\ R[i] = 0
      BY <1>1, <2>2, <3>1
    <3> QED
      BY <1>2, <3>1, <3>2
  <2>3. 0 .. k \subseteq T
    <3> HIDE DEF T
    <3> QED
      BY <1>2, <2>1, <2>2, UpInduct
  <2> QED
    BY <1>2, <2>3
<1> DEFINE t == From(s, k + 1)
           H == [i \in 0 .. n - k |-> R[k + i]]
<1>4. t \in Seq(Byte) /\ Len(t) = n - k /\ \A i \in 1 .. n - k : t[i] = s[k + i]
  BY FromIs
<1> HIDE DEF t, n
<1>5. H[0] = 0 /\ H[n - k] = R[n]
  BY <1>2, <1>3
<1>6. ASSUME NEW i \in 1 .. n - k PROVE H[i] = H[i - 1] * Radix + t[i]
  <2>1. /\ k + i \in 1 .. n /\ i \in 0 .. n - k /\ i - 1 \in 0 .. n - k
        /\ (k + i) - 1 = k + (i - 1)
    BY <1>2
  <2>2. R[k + i] = R[k + (i - 1)] * Radix + s[k + i]
    BY <1>1, <2>1
  <2> QED
    BY <1>4, <2>1, <2>2
<1> HIDE DEF H
<1>7. FromBeBytes(t) = H[Len(t)]
  BY <1>4, <1>5, <1>6, FromBeBytesBy
<1> QED
  BY <1>1, <1>4, <1>5, <1>7 DEF t

(* Stripping cuts off zeros and stops at another byte or at the last one.  *)
LEMMA StrippedIs ==
  ASSUME NEW s \in Seq(Byte), s # << >>
  PROVE  \E k \in 0 .. Len(s) - 1 :
           /\ Stripped(s) = From(s, k + 1)
           /\ \A i \in 1 .. k : s[i] = 0
           /\ k + 1 = Len(s) \/ s[k + 1] # 0
<1> DEFINE T == {i \in DOMAIN s : s[i] # 0} \cup {Len(s)}
<1>1. Len(s) \in Nat /\ Len(s) >= 1 /\ DOMAIN s = 1 .. Len(s)
  OBVIOUS
<1>2. T \subseteq 1 .. Len(s) /\ T # {}
  BY <1>1
<1>3. \E x \in T : \A y \in T : x <= y
  <2>1. T \in SUBSET Nat
    BY <1>1, <1>2
  <2> HIDE DEF T
  <2> QED
    BY <1>2, <2>1, LeastNatural
<1>4. Min(T) \in T /\ \A y \in T : Min(T) <= y
  <2> HIDE DEF T
  <2> QED
    BY <1>3 DEF Min
<1> DEFINE x == Min(T)
<1>5. Stripped(s) = From(s, x)
  BY DEF Stripped
<1> HIDE DEF x
<1>6. x \in T /\ \A y \in T : x <= y
  BY <1>4 DEF x
<1>7. x - 1 \in 0 .. Len(s) - 1 /\ (x - 1) + 1 = x
  BY <1>1, <1>2, <1>6
<1>8. \A i \in 1 .. x - 1 : s[i] = 0
  BY <1>1, <1>6, <1>7
<1>9. x = Len(s) \/ s[x] # 0
  BY <1>6
<1> QED
  BY <1>5, <1>7, <1>8, <1>9

(* Stripping leaves bytes, some of them, and the same number.              *)
LEMMA StrippedKeeps ==
  ASSUME NEW s \in Seq(Byte), s # << >>
  PROVE  /\ Stripped(s) \in Seq(Byte) /\ Len(Stripped(s)) \in 1 .. Len(s)
         /\ FromBeBytes(Stripped(s)) = FromBeBytes(s)
         /\ Len(Stripped(s)) > 1 => Stripped(s)[1] # 0
<1>1. PICK k \in 0 .. Len(s) - 1 :
           /\ Stripped(s) = From(s, k + 1)
           /\ \A i \in 1 .. k : s[i] = 0
           /\ k + 1 = Len(s) \/ s[k + 1] # 0
  BY StrippedIs
<1>2. Len(s) \in Nat /\ k \in 0 .. Len(s) /\ k \in Nat
  OBVIOUS
<1>3. /\ Stripped(s) \in Seq(Byte) /\ Len(Stripped(s)) = Len(s) - k
      /\ \A i \in 1 .. Len(s) - k : Stripped(s)[i] = s[k + i]
  BY <1>1, <1>2, FromIs
<1>4. Len(Stripped(s)) \in 1 .. Len(s)
  BY <1>2, <1>3
<1>5. FromBeBytes(Stripped(s)) = FromBeBytes(s)
  BY <1>1, <1>2, ZerosDropped
<1>6. Len(Stripped(s)) > 1 => Stripped(s)[1] # 0
  BY <1>1, <1>2, <1>3
<1> QED
  BY <1>3, <1>4, <1>5, <1>6

(* Two byte strings put together come apart again.                         *)
LEMMA Apart ==
  ASSUME NEW s \in Seq(Byte), NEW t \in Seq(Byte)
  PROVE  /\ s \o t \in Seq(Byte) /\ Len(s \o t) = Len(s) + Len(t)
         /\ SubSeq(s \o t, 1, Len(s)) = s /\ From(s \o t, Len(s) + 1) = t
<1> DEFINE u == s \o t
           m == Len(s)
           n == Len(t)
<1>1. /\ u \in Seq(Byte) /\ Len(u) = m + n /\ m \in Nat /\ n \in Nat
      /\ \A i \in 1 .. m + n : u[i] = IF i <= m THEN s[i] ELSE t[i - m]
  BY ConcatProperties
<1>2. SubSeq(u, 1, m) = s
  <2>1. \A i \in 1 .. m : u[i] \in Byte
    BY <1>1
  <2>2. /\ SubSeq(u, 1, m) \in Seq(Byte)
        /\ Len(SubSeq(u, 1, m)) = IF 1 <= m THEN m - 1 + 1 ELSE 0
        /\ \A i \in 1 .. m - 1 + 1 : SubSeq(u, 1, m)[i] = u[1 + i - 1]
    BY <1>1, <2>1, SubSeqProperties
  <2>3. Len(SubSeq(u, 1, m)) = m /\ \A i \in 1 .. m : SubSeq(u, 1, m)[i] = s[i]
    BY <1>1, <2>2
  <2> HIDE DEF u
  <2> QED
    BY <2>2, <2>3, SeqEqual
<1>3. From(u, m + 1) = t
  <2>1. m \in 0 .. Len(u) /\ Len(u) - m = n
    BY <1>1
  <2>2. /\ From(u, m + 1) \in Seq(Byte) /\ Len(From(u, m + 1)) = n
        /\ \A i \in 1 .. n : From(u, m + 1)[i] = u[m + i]
    <3> HIDE DEF u, n, m
    <3> QED
      BY <1>1, <2>1, FromIs
  <2>3. \A i \in 1 .. n : From(u, m + 1)[i] = t[i]
    BY <1>1, <2>2
  <2> HIDE DEF u
  <2> QED
    BY <2>2, <2>3, SeqEqual
<1> QED
  BY <1>1, <1>2, <1>3

(* Putting byte strings together is associative.                           *)
LEMMA BytesAssociate ==
  ASSUME NEW s \in Seq(Byte), NEW t \in Seq(Byte), NEW u \in Seq(Byte)
  PROVE  (s \o t) \o u = s \o (t \o u)
BY ConcatAssociative

(* A byte in front of a byte string.                                       *)
LEMMA OneByte ==
  ASSUME NEW b \in Byte, NEW t \in Seq(Byte)
  PROVE  /\ <<b>> \in Seq(Byte) /\ Len(<<b>>) = 1
         /\ <<b>> \o t \in Seq(Byte) /\ <<b>> \o t # << >>
         /\ (<<b>> \o t)[1] = b /\ From(<<b>> \o t, 2) = t
         /\ Len(<<b>> \o t) = Len(t) + 1
<1>1. <<b>> \in Seq(Byte) /\ Len(<<b>>) = 1
  OBVIOUS
<1>2. /\ <<b>> \o t \in Seq(Byte) /\ Len(<<b>> \o t) = Len(t) + 1
      /\ From(<<b>> \o t, 2) = t
  <2> DEFINE s == <<b>>
  <2>1. s \in Seq(Byte) /\ Len(s) = 1 /\ Len(t) \in Nat
    BY <1>1
  <2> HIDE DEF s
  <2>2. /\ s \o t \in Seq(Byte) /\ Len(s \o t) = Len(s) + Len(t)
        /\ From(s \o t, Len(s) + 1) = t
    BY <2>1, Apart
  <2>3. Len(s) + 1 = 2 /\ Len(s) + Len(t) = Len(t) + 1
    BY <2>1
  <2> QED
    BY <2>2, <2>3 DEF s
<1>3. (<<b>> \o t)[1] = b /\ <<b>> \o t # << >>
  BY <1>1, <1>2
<1> QED
  BY <1>1, <1>2, <1>3

(* The long form of a length.                                              *)
LEMMA LongForm ==
  ASSUME NEW m \in Nat, m < UsizeValues
  PROVE  \E be \in Seq(Byte) :
           /\ be = Stripped(ToBeBytes(m)) /\ Len(be) \in 1 .. WordBytes
           /\ FromBeBytes(be) = m /\ HighBit + Len(be) \in Byte
<1> DEFINE w == ToBeBytes(m)
           be == Stripped(w)
<1>1. w \in Seq(Byte) /\ Len(w) = WordBytes /\ FromBeBytes(w) = m
  BY ToBeBytesTyped, WordRoundTrip
<1>2. WordBytes \in Nat \ {0} /\ HighBit \in Nat /\ Radix = 2 * HighBit
      /\ WordBytes < HighBit
  BY ByteFacts
<1>3. w # << >>
  BY <1>1, <1>2
<1> HIDE DEF w
<1>4. be \in Seq(Byte) /\ Len(be) \in 1 .. WordBytes /\ FromBeBytes(be) = m
  BY <1>1, <1>3, StrippedKeeps
<1>5. HighBit + Len(be) \in Byte
  <2> HIDE DEF be
  <2> QED
    BY <1>2, <1>4 DEF Byte
<1> QED
  BY <1>4, <1>5 DEF w

(* A length that fits a word is written in at most one byte more.          *)
LEMMA DerLengthTyped ==
  ASSUME NEW m \in Nat, m < UsizeValues
  PROVE  /\ DerLength(m) \in Seq(Byte) /\ Len(DerLength(m)) \in 1 .. WordBytes + 1
         /\ m < HighBit => Len(DerLength(m)) = 1
<1>0. WordBytes \in Nat \ {0} /\ HighBit \in Nat /\ Radix = 2 * HighBit
  BY ByteFacts
<1>1. CASE m < HighBit
  <2>1. m \in Byte /\ DerLength(m) = <<m>>
    BY <1>0, <1>1 DEF DerLength, Byte
  <2> QED
    BY <1>0, <2>1
<1>2. CASE ~ (m < HighBit)
  <2>1. PICK be \in Seq(Byte) :
           /\ be = Stripped(ToBeBytes(m)) /\ Len(be) \in 1 .. WordBytes
           /\ FromBeBytes(be) = m /\ HighBit + Len(be) \in Byte
    BY LongForm
  <2>2. DerLength(m) = <<HighBit + Len(be)>> \o be
    BY <1>2, <2>1 DEF DerLength
  <2>3. DerLength(m) \in Seq(Byte) /\ Len(DerLength(m)) = Len(be) + 1
    BY <2>1, <2>2, OneByte
  <2> QED
    BY <1>0, <1>2, <2>1, <2>3
<1> QED
  BY <1>1, <1>2

(* The count of a long form is what it has beyond the high bit.            *)
LEMMA ModuloOnce ==
  ASSUME NEW h \in Nat \ {0}, NEW l \in 0 .. h - 1
  PROVE  (h + l) % h = l
<1> DEFINE q == (h + l) \div h
           c == (h + l) % h
<1>1. h + l \in Nat
  OBVIOUS
<1>2. q \in Nat /\ c \in 0 .. h - 1 /\ h + l = h * q + c
  BY <1>1, DivMod
<1> HIDE DEF q, c
<1>3. CASE q = 0
  BY <1>2, <1>3
<1>4. CASE q = 1
  BY <1>2, <1>4 DEF c
<1>5. CASE q >= 2
  <2>1. h * q >= h * 2
    BY <1>2, <1>5
  <2>2. h * q \in Nat
    BY <1>2
  <2> QED
    BY <1>2, <2>1, <2>2
<1> QED
  BY <1>2, <1>3, <1>4, <1>5

(* A length that was written is read, whatever follows it.                 *)
LEMMA LengthReads ==
  ASSUME NEW m \in Nat, m < UsizeValues, NEW t \in Seq(Byte)
  PROVE  DerReadLength(DerLength(m) \o t) = [ok |-> TRUE, len |-> m, rest |-> t]
<1>0. WordBytes \in Nat \ {0} /\ HighBit \in Nat \ {0} /\ Radix = 2 * HighBit
      /\ WordBytes < HighBit
  BY ByteFacts
<1>1. CASE m < HighBit
  <2> DEFINE u == <<m>> \o t
  <2>1. m \in Byte /\ DerLength(m) = <<m>>
    BY <1>0, <1>1 DEF DerLength, Byte
  <2>2. u # << >> /\ u[1] = m /\ From(u, 2) = t
    BY <2>1, OneByte
  <2> HIDE DEF u
  <2>3. DerReadLength(u) = [ok |-> TRUE, len |-> m, rest |-> t]
    BY <1>1, <2>2 DEF DerReadLength
  <2> QED
    BY <2>1, <2>3 DEF u
<1>2. CASE ~ (m < HighBit)
  <2>1. PICK be \in Seq(Byte) :
           /\ be = Stripped(ToBeBytes(m)) /\ Len(be) \in 1 .. WordBytes
           /\ FromBeBytes(be) = m /\ HighBit + Len(be) \in Byte
    BY LongForm
  <2> DEFINE b == HighBit + Len(be)
             v == be \o t
             u == <<b>> \o v
             l == Len(be)
  <2>2. DerLength(m) = <<b>> \o be
    BY <1>2, <2>1 DEF DerLength
  <2>3. DerLength(m) \o t = u
    BY <2>1, <2>2, OneByte, ConcatAssociative
  <2>4. /\ v \in Seq(Byte) /\ SubSeq(v, 1, l) = be /\ From(v, l + 1) = t
        /\ Len(v) = l + Len(t)
    BY <2>1, Apart
  <2>5. u # << >> /\ u[1] = b /\ From(u, 2) = v
    BY <2>1, <2>4, OneByte
  <2>6. b % HighBit = l /\ ~ (b < HighBit) /\ l # 0 /\ ~ (l > WordBytes)
    <3>1. l \in 0 .. HighBit - 1 /\ l \in 1 .. WordBytes
      BY <1>0, <2>1
    <3> HIDE DEF l
    <3> QED
      BY <1>0, <3>1, ModuloOnce DEF l
  <2>7. ~ (Len(v) < l)
    BY <2>4
  <2>8. FromBeBytes(SubSeq(v, 1, l)) = m
    BY <2>1, <2>4
  <2> HIDE DEF u, v, b, l
  <2>9. DerReadLength(u) = [ok |-> TRUE, rest |-> t, len |-> m]
    BY <2>4, <2>5, <2>6, <2>7, <2>8 DEF DerReadLength
  <2> QED
    BY <2>3, <2>9
<1> QED
  BY <1>1, <1>2

-----------------------------------------------------------------------------
(* A tagged value.                                                         *)
Tlv(tag, v) == <<tag>> \o DerLength(Len(v)) \o v

(* A tagged value is a byte string, and how long it is.                    *)
LEMMA TlvTyped ==
  ASSUME NEW tag \in Byte, NEW v \in Seq(Byte), Len(v) < UsizeValues
  PROVE  /\ Tlv(tag, v) \in Seq(Byte)
         /\ Len(Tlv(tag, v)) \in Len(v) + 2 .. Len(v) + WordBytes + 2
         /\ Len(v) < HighBit => Len(Tlv(tag, v)) = Len(v) + 2
         /\ \A t \in Seq(Byte) :
              Tlv(tag, v) \o t = <<tag>> \o (DerLength(Len(v)) \o (v \o t))
<1> DEFINE l == DerLength(Len(v))
           h == <<tag>>
<1>1. Len(v) \in Nat /\ h \in Seq(Byte) /\ Len(h) = 1 /\ WordBytes \in Nat
  BY ByteFacts
<1>2. /\ l \in Seq(Byte) /\ Len(l) \in 1 .. WordBytes + 1
      /\ Len(v) < HighBit => Len(l) = 1
  BY <1>1, DerLengthTyped
<1>3. Tlv(tag, v) = (h \o l) \o v
  BY DEF Tlv
<1> HIDE DEF h, l
<1>4. h \o l \in Seq(Byte) /\ Len(h \o l) = 1 + Len(l)
  <2>1. h \o l \in Seq(Byte) /\ Len(h \o l) = Len(h) + Len(l)
    BY <1>1, <1>2, Apart
  <2> QED
    BY <1>1, <2>1
<1>5. (h \o l) \o v \in Seq(Byte) /\ Len((h \o l) \o v) = (1 + Len(l)) + Len(v)
  <2>1. /\ (h \o l) \o v \in Seq(Byte)
        /\ Len((h \o l) \o v) = Len(h \o l) + Len(v)
    BY <1>4, Apart
  <2> QED
    BY <1>4, <2>1
<1>6. ASSUME NEW t \in Seq(Byte) PROVE ((h \o l) \o v) \o t = h \o (l \o (v \o t))
  <2>1. ((h \o l) \o v) \o t = (h \o l) \o (v \o t)
    BY <1>4, BytesAssociate
  <2> DEFINE w == v \o t
  <2>2. w \in Seq(Byte)
    BY ConcatProperties
  <2> HIDE DEF w
  <2>3. (h \o l) \o w = h \o (l \o w)
    <3>1. h \in Seq(Byte) /\ l \in Seq(Byte)
      BY <1>1, <1>2
    <3> QED
      BY <2>2, <3>1, BytesAssociate
  <2> QED
    BY <2>1, <2>3 DEF w
<1>7. Len((h \o l) \o v) \in Len(v) + 2 .. Len(v) + WordBytes + 2
  BY <1>1, <1>2, <1>5
<1>8. Len(v) < HighBit => Len((h \o l) \o v) = Len(v) + 2
  BY <1>1, <1>2, <1>5
<1> QED
  BY <1>3, <1>5, <1>6, <1>7, <1>8 DEF h, l

(* What was tagged is taken from the front, and the rest is left.          *)
LEMMA TlvTaken ==
  ASSUME NEW tag \in Byte, NEW v \in Seq(Byte), Len(v) < UsizeValues,
         NEW t \in Seq(Byte)
  PROVE  DerTakeTlv(Tlv(tag, v) \o t, tag) = [ok |-> TRUE, val |-> v, rest |-> t]
<1> DEFINE l == DerLength(Len(v))
           w == v \o t
           u == <<tag>> \o (l \o w)
<1>1. Tlv(tag, v) \o t = u
  BY TlvTyped
<1>2. /\ w \in Seq(Byte) /\ SubSeq(w, 1, Len(v)) = v /\ From(w, Len(v) + 1) = t
      /\ Len(w) = Len(v) + Len(t) /\ Len(v) \in Nat /\ Len(t) \in Nat
  BY Apart
<1>3. l \in Seq(Byte)
  BY <1>2, DerLengthTyped
<1> DEFINE r == [ok |-> TRUE, len |-> Len(v), rest |-> w]
<1>4. DerReadLength(l \o w) = r
  BY <1>2, LengthReads
<1>8. r.ok /\ r.len = Len(v) /\ r.rest = w
  OBVIOUS
<1>5. u # << >> /\ u[1] = tag /\ From(u, 2) = l \o w
  <2>1. l \o w \in Seq(Byte)
    BY <1>2, <1>3, ConcatProperties
  <2> QED
    BY <2>1, OneByte
<1>6. ~ (Len(w) < Len(v))
  BY <1>2
<1> HIDE DEF u, l, w, r
<1>7. DerTakeTlv(u, tag) = [ok |-> TRUE, val |-> v, rest |-> t]
  <2>1. DerTakeTlv(u, tag) = [ok |-> TRUE, val |-> SubSeq(r.rest, 1, r.len),
                              rest |-> From(r.rest, r.len + 1)]
    BY <1>4, <1>5, <1>6, <1>8 DEF DerTakeTlv
  <2> QED
    BY <1>2, <1>8, <2>1
<1> QED
  BY <1>1, <1>7

(* A tagged value that lost its last byte is not taken.                    *)
LEMMA TlvCutOff ==
  ASSUME NEW tag \in Byte, NEW v \in Seq(Byte), v # << >>, Len(v) < UsizeValues
  PROVE  ~ DerTakeTlv(Front(Tlv(tag, v)), tag).ok
<1> DEFINE l == DerLength(Len(v))
           h == <<tag>>
           s == h \o l
           f == SubSeq(v, 1, Len(v) - 1)
           d == s \o v
<1>1. /\ Len(v) \in Nat \ {0} /\ h \in Seq(Byte)
      /\ \A i \in 1 .. Len(v) : v[i] \in Byte
  OBVIOUS
<1>2. l \in Seq(Byte)
  BY <1>1, DerLengthTyped
<1>3. /\ f \in Seq(Byte) /\ Len(f) = Len(v) - 1
      /\ \A i \in 1 .. Len(v) - 1 : f[i] = v[i]
  <2>1. \A i \in 1 .. Len(v) - 1 : v[i] \in Byte
    BY <1>1
  <2>2. /\ f \in Seq(Byte)
        /\ Len(f) = IF 1 <= Len(v) - 1 THEN (Len(v) - 1) - 1 + 1 ELSE 0
        /\ \A i \in 1 .. (Len(v) - 1) - 1 + 1 : f[i] = v[1 + i - 1]
    BY <1>1, <2>1, SubSeqProperties
  <2> DEFINE n == Len(v)
  <2>3. n \in Nat \ {0}
    BY <1>1
  <2> HIDE DEF f, n
  <2>4. ASSUME NEW i \in 1 .. n - 1 PROVE f[i] = v[i]
    <3>1. i \in 1 .. (n - 1) - 1 + 1 /\ 1 + i - 1 = i
      BY <2>3
    <3>2. f[i] = v[1 + i - 1]
      BY <2>2, <3>1 DEF n
    <3> QED
      BY <3>1, <3>2
  <2>5. Len(f) = n - 1
    <3>1. Len(f) = IF 1 <= n - 1 THEN (n - 1) - 1 + 1 ELSE 0
      BY <2>2 DEF n
    <3> QED
      BY <2>3, <3>1
  <2> QED
    BY <2>2, <2>4, <2>5 DEF n
<1>4. d = Tlv(tag, v)
  BY DEF Tlv
<1> HIDE DEF h, f, l
<1>5. s \in Seq(Byte) /\ Len(s) \in Nat
  BY <1>1, <1>2, ConcatProperties
<1> HIDE DEF s
<1>6. Front(d) = s \o f
  <2> DEFINE m == Len(s)
             n == Len(v)
  <2>1. /\ d \in Seq(Byte) /\ Len(d) = m + n
        /\ \A i \in 1 .. m + n : d[i] = IF i <= m THEN s[i] ELSE v[i - m]
    BY <1>5, ConcatProperties
  <2>2. /\ s \o f \in Seq(Byte) /\ Len(s \o f) = m + (n - 1)
        /\ \A i \in 1 .. m + (n - 1) :
             (s \o f)[i] = IF i <= m THEN s[i] ELSE f[i - m]
    <3>1. /\ s \o f \in Seq(Byte) /\ Len(s \o f) = m + Len(f)
          /\ \A i \in 1 .. m + Len(f) :
               (s \o f)[i] = IF i <= m THEN s[i] ELSE f[i - m]
      BY <1>3, <1>5, ConcatProperties
    <3> QED
      BY <1>3, <3>1
  <2> HIDE DEF d
  <2>3. /\ SubSeq(d, 1, m + n - 1) \in Seq(Byte)
        /\ Len(SubSeq(d, 1, m + n - 1)) = m + (n - 1)
        /\ \A i \in 1 .. m + (n - 1) : SubSeq(d, 1, m + n - 1)[i] = d[i]
    <3>0. m \in Nat /\ n \in Nat \ {0}
      BY <1>1, <1>5
    <3> HIDE DEF m, n
    <3>1. \A i \in 1 .. m + n - 1 : d[i] \in Byte
      BY <2>1, <3>0
    <3>2. /\ SubSeq(d, 1, m + n - 1) \in Seq(Byte)
          /\ Len(SubSeq(d, 1, m + n - 1))
               = IF 1 <= m + n - 1 THEN (m + n - 1) - 1 + 1 ELSE 0
          /\ \A i \in 1 .. (m + n - 1) - 1 + 1 :
               SubSeq(d, 1, m + n - 1)[i] = d[1 + i - 1]
      BY <3>0, <3>1, SubSeqProperties
    <3> QED
      BY <3>0, <3>2
  <2>4. Front(d) = SubSeq(d, 1, m + n - 1)
    BY <2>1 DEF Front
  <2>5. ASSUME NEW i \in 1 .. m + (n - 1)
        PROVE  SubSeq(d, 1, m + n - 1)[i] = (s \o f)[i]
    <3>1. i \in 1 .. m + n /\ m \in Nat /\ n \in Nat
      BY <1>1, <1>5
    <3>2. CASE i <= m
      BY <2>1, <2>2, <2>3, <3>1, <3>2
    <3>3. CASE ~ (i <= m)
      <4>1. i - m \in 1 .. n - 1
        BY <1>1, <3>1, <3>3
      <4> QED
        BY <1>3, <2>1, <2>2, <2>3, <3>1, <3>3, <4>1
    <3> QED
      BY <3>2, <3>3
  <2> HIDE DEF m, n
  <2>6. SubSeq(d, 1, m + n - 1) = s \o f
    <3> DEFINE x == SubSeq(d, 1, m + n - 1)
               y == s \o f
    <3>1. x \in Seq(Byte) /\ y \in Seq(Byte) /\ Len(x) = Len(y)
          /\ \A i \in 1 .. Len(x) : x[i] = y[i]
      BY <2>2, <2>3, <2>5
    <3> HIDE DEF x, y
    <3>2. x = y
      BY <3>1, SeqEqual
    <3> QED
      BY <3>2 DEF x, y
  <2> QED
    BY <2>4, <2>6
<1>7. s \o f = h \o (l \o f)
  BY <1>1, <1>2, <1>3, BytesAssociate DEF s
<1> DEFINE r == [ok |-> TRUE, len |-> Len(v), rest |-> f]
<1>8. DerReadLength(l \o f) = r
  BY <1>1, <1>3, LengthReads DEF l
<1> DEFINE u == h \o (l \o f)
<1>9. u # << >> /\ u[1] = tag /\ From(u, 2) = l \o f
  <2>1. l \o f \in Seq(Byte)
    BY <1>2, <1>3, ConcatProperties
  <2> QED
    BY <2>1, OneByte DEF h
<1>10. r.len = Len(v) /\ r.rest = f /\ Len(r.rest) < r.len
  BY <1>1, <1>3
<1> HIDE DEF u, r
<1>11. DerTakeTlv(u, tag) = BadDer
  BY <1>8, <1>9, <1>10 DEF DerTakeTlv
<1> QED
  BY <1>4, <1>6, <1>7, <1>11 DEF u, BadDer

(* The content octets of an INTEGER.                                       *)
Content(x) ==
  IF Stripped(x)[1] >= HighBit THEN <<0>> \o Stripped(x) ELSE Stripped(x)

(* The content of an INTEGER is minimal and says the number; what DER      *)
(* reading strips of it is the sign byte.                                  *)
LEMMA ContentIs ==
  ASSUME NEW x \in Seq(Byte), x # << >>
  PROVE  /\ Content(x) \in Seq(Byte) /\ Len(Content(x)) \in 1 .. Len(x) + 1
         /\ FromBeBytes(Content(x)) = FromBeBytes(x)
         /\ IsMinimalPositive(Content(x))
         /\ DerIntegerMagnitude(Content(x)) = Stripped(x)
         /\ DerUnsignedInteger(x) = Tlv(IntegerTag, Content(x))
<1> DEFINE g == Stripped(x)
<1>1. /\ g \in Seq(Byte) /\ Len(g) \in 1 .. Len(x)
      /\ FromBeBytes(g) = FromBeBytes(x)
      /\ Len(g) > 1 => g[1] # 0
  BY StrippedKeeps
<1>2. HighBit \in Nat \ {0} /\ Byte \subseteq Nat /\ 0 \in Byte
  BY ByteFacts
<1>3. g # << >> /\ Len(g) \in Nat /\ g[1] \in Nat /\ Len(x) \in Nat
  <2> HIDE DEF g
  <2>1. Len(g) \in Nat /\ Len(g) >= 1 /\ Len(x) \in Nat
    BY <1>1
  <2>2. 1 \in 1 .. Len(g) /\ g # << >>
    BY <1>1, <2>1
  <2>3. g[1] \in Byte
    BY <1>1, <2>2
  <2> QED
    BY <1>2, <2>1, <2>2, <2>3
<1>4. DerUnsignedInteger(x) = Tlv(IntegerTag, Content(x))
  <2>1. (g # << >> /\ g[1] >= HighBit) <=> g[1] >= HighBit
    BY <1>3
  <2>2. Content(x) = IF g # << >> /\ g[1] >= HighBit THEN <<0>> \o g ELSE g
    BY <2>1 DEF Content
  <2> QED
    BY <2>2 DEF DerUnsignedInteger, Tlv
<1> HIDE DEF g
<1>5. CASE g[1] >= HighBit
  <2> DEFINE c == <<0>> \o g
  <2>1. Content(x) = c
    BY <1>5 DEF Content, g
  <2>2. c \in Seq(Byte) /\ c[1] = 0 /\ From(c, 2) = g /\ Len(c) = Len(g) + 1
        /\ c # << >>
    BY <1>1, <1>2, OneByte
  <2>3. c[2] = g[1]
    BY <1>1, <1>2, <1>3
  <2> HIDE DEF c
  <2>4. FromBeBytes(c) = FromBeBytes(g)
    <3>1. 1 \in 0 .. Len(c) /\ \A i \in 1 .. 1 : c[i] = 0
      BY <1>3, <2>2
    <3>2. FromBeBytes(From(c, 1 + 1)) = FromBeBytes(c)
      BY <2>2, <3>1, ZerosDropped
    <3> QED
      BY <2>2, <3>2
  <2>5. Tail(c) = g
    BY <2>2, TailIsSubSeq DEF From
  <2>6. DerIntegerMagnitude(c) = g
    BY <1>3, <1>1, <2>2, <2>5 DEF DerIntegerMagnitude
  <2>7. IsMinimalPositive(c)
    BY <1>2, <1>5, <2>2, <2>3 DEF IsMinimalPositive
  <2>8. Len(c) \in 1 .. Len(x) + 1
    BY <1>1, <1>3, <2>2
  <2> QED
    BY <1>1, <1>4, <2>1, <2>2, <2>4, <2>6, <2>7, <2>8 DEF g
<1>6. CASE ~ (g[1] >= HighBit)
  <2>1. Content(x) = g
    BY <1>6 DEF Content, g
  <2>2. DerIntegerMagnitude(g) = g
    BY <1>1 DEF DerIntegerMagnitude
  <2>3. IsMinimalPositive(g)
    BY <1>1, <1>2, <1>3, <1>6 DEF IsMinimalPositive
  <2>4. Len(g) \in 1 .. Len(x) + 1
    BY <1>1, <1>3
  <2> QED
    BY <1>1, <1>4, <2>1, <2>2, <2>3, <2>4 DEF g
<1> QED
  BY <1>5, <1>6

(* A number in its place: its encoding is taken, and what it says is the   *)
(* number.                                                                 *)
LEMMA IntegerTaken ==
  ASSUME NEW x \in Seq(Byte), x # << >>, Len(x) + 1 < UsizeValues
  PROVE  /\ DerUnsignedInteger(x) \in Seq(Byte)
         /\ Len(DerUnsignedInteger(x)) \in 3 .. Len(x) + WordBytes + 3
         /\ \A t \in Seq(Byte) :
              DerTakeTlv(DerUnsignedInteger(x) \o t, IntegerTag)
                = [ok |-> TRUE, val |-> Content(x), rest |-> t]
<1> DEFINE c == Content(x)
<1>1. c \in Seq(Byte) /\ Len(c) \in 1 .. Len(x) + 1
      /\ DerUnsignedInteger(x) = Tlv(IntegerTag, c)
  BY ContentIs
<1> HIDE DEF c
<1>2. IntegerTag \in Byte /\ WordBytes \in Nat
  BY ByteFacts
<1>3. UsizeValues \in Nat
  BY UsizeValuesIs, <1>2
<1>4. Len(c) \in Nat /\ Len(x) \in Nat /\ Len(c) < UsizeValues
  <2>1. Len(c) \in Nat /\ Len(x) \in Nat /\ Len(c) <= Len(x) + 1
    BY <1>1
  <2> QED
    BY <1>3, <2>1
<1>5. Tlv(IntegerTag, c) \in Seq(Byte)
      /\ Len(Tlv(IntegerTag, c)) \in Len(c) + 2 .. Len(c) + WordBytes + 2
  BY <1>1, <1>2, <1>4, TlvTyped
<1>6. Len(DerUnsignedInteger(x)) \in 3 .. Len(x) + WordBytes + 3
  <2> DEFINE d == Len(DerUnsignedInteger(x))
             n == Len(c)
             k == Len(x)
  <2>1. d \in n + 2 .. n + WordBytes + 2 /\ n \in 1 .. k + 1 /\ k \in Nat
    BY <1>1, <1>4, <1>5
  <2> HIDE DEF d, n, k
  <2>2. d \in 3 .. k + WordBytes + 3
    BY <1>2, <2>1
  <2> QED
    BY <2>2 DEF d, k
<1>7. ASSUME NEW t \in Seq(Byte)
      PROVE  DerTakeTlv(Tlv(IntegerTag, c) \o t, IntegerTag)
               = [ok |-> TRUE, val |-> c, rest |-> t]
  BY <1>1, <1>2, <1>4, TlvTaken
<1> QED
  BY <1>1, <1>5, <1>6, <1>7 DEF c

-----------------------------------------------------------------------------
(* Integers one after the other.                                           *)

(* What flattening a sequence of byte strings gives.                       *)
LEMMA FlattenIs ==
  ASSUME NEW n \in Nat \ {0}, NEW seqs \in [1 .. n -> Seq(Byte)]
  PROVE  \E F \in [1 .. n -> Seq(Byte)] :
           /\ F[1] = seqs[1] /\ \A i \in 2 .. n : F[i] = F[i - 1] \o seqs[i]
           /\ FlattenSeq(seqs) = F[n]
<1> DEFINE G == [x \in Nat \X Seq(Byte) |->
                   IF x[1] \in 1 .. n THEN x[2] \o seqs[x[1]] ELSE << >>]
           Eq(f) == f = [i \in 1 .. n |->
                           IF i = 1 THEN seqs[i] ELSE f[i - 1] \o seqs[i]]
           F == CHOOSE f : Eq(f)
<1>1. Len(seqs) = n /\ n # 0 /\ n \in Nat /\ << >> \in Seq(Byte)
  OBVIOUS
<1>2. FlattenSeq(seqs) = F[n]
  BY <1>1 DEF FlattenSeq
<1>3. /\ G \in [Nat \X Seq(Byte) -> Seq(Byte)]
      /\ \A i \in 1 .. n : \A s \in Seq(Byte) : G[<<i, s>>] = s \o seqs[i]
  <2>1. ASSUME NEW i \in Nat, NEW s \in Seq(Byte)
        PROVE  (IF i \in 1 .. n THEN s \o seqs[i] ELSE << >>) \in Seq(Byte)
    <3>1. CASE i \in 1 .. n
      <4>1. seqs[i] \in Seq(Byte)
        BY <3>1
      <4> QED
        BY <3>1, <4>1, Apart
    <3> QED
      BY <1>1, <3>1
  <2>2. 1 .. n \subseteq Nat
    BY <1>1
  <2> QED
    BY <2>1, <2>2
<1> HIDE DEF G
<1>4. \E g : Recurs(g, n, Seq(Byte), << >>, G)
  BY <1>1, <1>3, Recursion
<1>5. PICK g \in [0 .. n -> Seq(Byte)] :
        g[0] = << >> /\ \A i \in 1 .. n : g[i] = G[<<i, g[i - 1]>>]
  BY <1>4 DEF Recurs
<1>6. \A i \in 1 .. n : g[i] = g[i - 1] \o seqs[i] /\ g[i - 1] \in Seq(Byte)
  <2> SUFFICES ASSUME NEW i \in 1 .. n
               PROVE  g[i] = g[i - 1] \o seqs[i] /\ g[i - 1] \in Seq(Byte)
    OBVIOUS
  <2>1. i - 1 \in 0 .. n
    BY <1>1
  <2> QED
    BY <1>3, <1>5, <2>1
<1> DEFINE f == [i \in 1 .. n |-> g[i]]
<1>7. Eq(f)
  <2>1. ASSUME NEW i \in 1 .. n
        PROVE  f[i] = IF i = 1 THEN seqs[i] ELSE f[i - 1] \o seqs[i]
    <3>1. CASE i = 1
      <4>1. g[1] = << >> \o seqs[1] /\ seqs[1] \in Seq(Byte)
        <5>1. 1 \in 1 .. n /\ 1 - 1 = 0
          BY <1>1
        <5>2. g[1] = g[1 - 1] \o seqs[1]
          BY <1>6, <5>1
        <5> QED
          BY <1>5, <5>1, <5>2
      <4> QED
        BY <3>1, <4>1, ConcatEmptySeq
    <3>2. CASE i # 1
      <4>1. i - 1 \in 1 .. n
        BY <1>1, <3>2
      <4> QED
        BY <1>6, <3>2, <4>1
    <3> QED
      BY <3>1, <3>2
  <2> HIDE DEF f
  <2>2. f = [i \in 1 .. n |-> f[i]]
    BY DEF f
  <2> QED
    BY <2>1, <2>2
<1>8. Eq(F)
  <2> HIDE DEF Eq
  <2> QED
    BY <1>7
<1> HIDE DEF F, f
<1>9. F[1] = seqs[1] /\ \A i \in 2 .. n : F[i] = F[i - 1] \o seqs[i]
  <2>1. F[1] = seqs[1]
    BY <1>1, <1>8
  <2>2. ASSUME NEW i \in 2 .. n PROVE F[i] = F[i - 1] \o seqs[i]
    <3>1. i \in 1 .. n /\ i # 1
      BY <1>1
    <3> QED
      BY <1>8, <3>1
  <2> QED
    BY <2>1, <2>2
<1>10. 0 .. n - 1 \subseteq {i \in 0 .. n - 1 : F[i + 1] \in Seq(Byte)}
  <2> DEFINE T == {i \in 0 .. n - 1 : F[i + 1] \in Seq(Byte)}
  <2>1. 0 \in T
    BY <1>1, <1>9
  <2>2. ASSUME NEW i \in 0 .. (n - 1) - 1, i \in T PROVE i + 1 \in T
    <3>1. (i + 1) + 1 \in 2 .. n /\ (i + 1) + 1 \in 1 .. n
          /\ ((i + 1) + 1) - 1 = i + 1 /\ i + 1 \in 0 .. n - 1
      BY <1>1
    <3>2. F[(i + 1) + 1] = F[i + 1] \o seqs[(i + 1) + 1]
      BY <1>9, <3>1
    <3>3. seqs[(i + 1) + 1] \in Seq(Byte) /\ F[i + 1] \in Seq(Byte)
      BY <2>2, <3>1
    <3>4. F[i + 1] \o seqs[(i + 1) + 1] \in Seq(Byte)
      BY <3>3, Apart
    <3> QED
      BY <3>1, <3>2, <3>4
  <2>3. n - 1 \in Nat
    BY <1>1
  <2> HIDE DEF T
  <2> QED
    BY <2>1, <2>2, <2>3, UpInduct DEF T
<1>11. F \in [1 .. n -> Seq(Byte)]
  <2>1. ASSUME NEW i \in 1 .. n PROVE F[i] \in Seq(Byte)
    <3>1. i - 1 \in 0 .. n - 1 /\ (i - 1) + 1 = i
      BY <1>1
    <3> QED
      BY <1>10, <3>1
  <2> QED
    BY <1>8, <2>1
<1> QED
  BY <1>2, <1>9, <1>11

(* What is left of the flattened sequence before each of its members.      *)
LEMMA TailsOf ==
  ASSUME NEW n \in Nat \ {0}, NEW seqs \in [1 .. n -> Seq(Byte)]
  PROVE  \E T \in [0 .. n -> Seq(Byte)] :
           /\ T[n] = << >> /\ \A i \in 1 .. n : T[i - 1] = seqs[i] \o T[i]
           /\ FlattenSeq(seqs) = T[0]
<1> DEFINE G == [x \in Nat \X Seq(Byte) |->
                   IF n + 1 - x[1] \in 1 .. n THEN seqs[n + 1 - x[1]] \o x[2]
                                              ELSE << >>]
<1>1. n # 0 /\ n \in Nat /\ << >> \in Seq(Byte)
  OBVIOUS
<1>2. /\ G \in [Nat \X Seq(Byte) -> Seq(Byte)]
      /\ \A i \in 1 .. n : \A s \in Seq(Byte) : G[<<i, s>>] = seqs[n + 1 - i] \o s
  <2>1. ASSUME NEW i \in Nat, NEW s \in Seq(Byte)
        PROVE  (IF n + 1 - i \in 1 .. n THEN seqs[n + 1 - i] \o s ELSE << >>)
                 \in Seq(Byte)
    <3>1. CASE n + 1 - i \in 1 .. n
      <4>1. seqs[n + 1 - i] \in Seq(Byte)
        BY <3>1
      <4> QED
        BY <3>1, <4>1, Apart
    <3> QED
      BY <1>1, <3>1
  <2>2. ASSUME NEW i \in 1 .. n PROVE i \in Nat /\ n + 1 - i \in 1 .. n
    BY <1>1
  <2> QED
    BY <2>1, <2>2
<1> HIDE DEF G
<1>3. \E g : Recurs(g, n, Seq(Byte), << >>, G)
  BY <1>1, <1>2, Recursion
<1>4. PICK g \in [0 .. n -> Seq(Byte)] :
        g[0] = << >> /\ \A i \in 1 .. n : g[i] = G[<<i, g[i - 1]>>]
  BY <1>3 DEF Recurs
<1> DEFINE T == [i \in 0 .. n |-> g[n - i]]
<1>5. T \in [0 .. n -> Seq(Byte)] /\ T[n] = << >>
  <2>1. ASSUME NEW i \in 0 .. n PROVE g[n - i] \in Seq(Byte)
    <3>1. n - i \in 0 .. n
      BY <1>1
    <3> QED
      BY <3>1
  <2>2. n \in 0 .. n /\ n - n = 0
    BY <1>1
  <2> QED
    BY <1>4, <2>1, <2>2
<1>6. ASSUME NEW i \in 1 .. n PROVE T[i - 1] = seqs[i] \o T[i]
  <2> DEFINE j == n + 1 - i
  <2>1. /\ j \in 1 .. n /\ n - (i - 1) = j /\ j - 1 = n - i /\ n + 1 - j = i
        /\ i \in 0 .. n /\ i - 1 \in 0 .. n /\ j - 1 \in 0 .. n
    BY <1>1
  <2> HIDE DEF j
  <2>2. T[i - 1] = g[j] /\ T[i] = g[j - 1]
    BY <2>1
  <2>3. g[j] = G[<<j, g[j - 1]>>] /\ g[j - 1] \in Seq(Byte)
    BY <1>4, <2>1
  <2>4. g[j] = seqs[n + 1 - j] \o g[j - 1]
    BY <1>2, <2>1, <2>3
  <2> HIDE DEF T
  <2> QED
    BY <2>1, <2>2, <2>4
<1> HIDE DEF T
<1>7. PICK F \in [1 .. n -> Seq(Byte)] :
        /\ F[1] = seqs[1] /\ \A i \in 2 .. n : F[i] = F[i - 1] \o seqs[i]
        /\ FlattenSeq(seqs) = F[n]
  BY FlattenIs
<1>8. 0 .. n - 1 \subseteq {i \in 0 .. n - 1 : F[i + 1] \o T[i + 1] = T[0]}
  <2> DEFINE S == {i \in 0 .. n - 1 : F[i + 1] \o T[i + 1] = T[0]}
  <2>1. 0 \in S
    <3>1. 1 \in 1 .. n /\ 1 - 1 = 0 /\ 0 + 1 = 1 /\ 0 \in 0 .. n - 1
      BY <1>1
    <3>2. T[1 - 1] = seqs[1] \o T[1]
      BY <1>6, <3>1
    <3> QED
      BY <1>7, <3>1, <3>2
  <2>2. ASSUME NEW i \in 0 .. (n - 1) - 1, i \in S PROVE i + 1 \in S
    <3> DEFINE k == (i + 1) + 1
    <3>1. k \in 2 .. n /\ k \in 1 .. n /\ k \in 0 .. n /\ k - 1 = i + 1
          /\ i + 1 \in 0 .. n - 1 /\ i + 1 \in 1 .. n /\ i + 1 \in 0 .. n
      BY <1>1
    <3> HIDE DEF k
    <3>2. F[k] = F[i + 1] \o seqs[k]
      BY <1>7, <3>1
    <3>3. T[i + 1] = seqs[k] \o T[k]
      BY <1>6, <3>1
    <3>4. F[i + 1] \in Seq(Byte) /\ seqs[k] \in Seq(Byte) /\ T[k] \in Seq(Byte)
      BY <1>5, <3>1
    <3>5. (F[i + 1] \o seqs[k]) \o T[k] = F[i + 1] \o (seqs[k] \o T[k])
      BY <3>4, BytesAssociate
    <3>6. F[i + 1] \o T[i + 1] = T[0]
      BY <2>2
    <3>7. F[k] \o T[k] = T[0]
      BY <3>2, <3>3, <3>5, <3>6
    <3> QED
      BY <3>1, <3>7 DEF k
  <2>3. n - 1 \in Nat
    BY <1>1
  <2> HIDE DEF S
  <2> QED
    BY <2>1, <2>2, <2>3, UpInduct DEF S
<1>9. F[n] = T[0]
  <2>1. n - 1 \in 0 .. n - 1 /\ (n - 1) + 1 = n /\ n \in 1 .. n
    BY <1>1
  <2>2. F[n] \o T[n] = T[0]
    BY <1>8, <2>1
  <2>3. F[n] \in Seq(Byte)
    BY <2>1
  <2> QED
    BY <1>5, <2>2, <2>3, ConcatEmptySeq
<1> QED
  BY <1>5, <1>6, <1>7, <1>9

(* Numbers a document has room for.                                        *)
Writable(numbers, n) ==
  /\ n \in Nat \ {0} /\ numbers \in [1 .. n -> Seq(Byte) \ {<< >>}]
  /\ \A i \in 1 .. n : Len(numbers[i]) + 1 < UsizeValues

(* The tails T of the body of a document that holds the numbers.           *)
Tails(T, numbers, n) ==
  /\ T \in [0 .. n -> Seq(Byte)] /\ T[n] = << >>
  /\ \A i \in 1 .. n : T[i - 1] = DerUnsignedInteger(numbers[i]) \o T[i]
  /\ DerSequence(numbers) = Tlv(SequenceTag, T[0])

(* Every document has such tails.                                          *)
LEMMA DocumentIs ==
  ASSUME NEW n, NEW numbers, Writable(numbers, n)
  PROVE  \E T : Tails(T, numbers, n)
<1> USE DEF Writable
<1> DEFINE seqs == [i \in 1 .. n |-> DerUnsignedInteger(numbers[i])]
<1>1. seqs \in [1 .. n -> Seq(Byte)]
  <2>1. ASSUME NEW i \in 1 .. n PROVE DerUnsignedInteger(numbers[i]) \in Seq(Byte)
    BY IntegerTaken
  <2> QED
    BY <2>1
<1>2. seqs = [i \in DOMAIN numbers |-> DerUnsignedInteger(numbers[i])]
  OBVIOUS
<1>3. DerSequence(numbers) = Tlv(SequenceTag, FlattenSeq(seqs))
  BY <1>2 DEF DerSequence, Tlv
<1>4. \A i \in 1 .. n : seqs[i] = DerUnsignedInteger(numbers[i])
  OBVIOUS
<1> HIDE DEF seqs
<1>5. PICK T \in [0 .. n -> Seq(Byte)] :
           /\ T[n] = << >> /\ \A i \in 1 .. n : T[i - 1] = seqs[i] \o T[i]
           /\ FlattenSeq(seqs) = T[0]
  BY <1>1, TailsOf
<1>6. Tails(T, numbers, n)
  BY <1>3, <1>4, <1>5 DEF Tails
<1> QED
  BY <1>6

(* What taking a value leaves when it succeeds.                            *)
Taken(v, t) == [ok |-> TRUE, val |-> v, rest |-> t]

(* A document is taken apart integer by integer.                           *)
LEMMA DocumentParts ==
  ASSUME NEW n, NEW numbers, Writable(numbers, n),
         NEW T, Tails(T, numbers, n), Len(T[0]) < UsizeValues
  PROVE  /\ DerSequence(numbers) \in Seq(Byte)
         /\ DerTakeTlv(DerSequence(numbers), SequenceTag) = Taken(T[0], << >>)
         /\ \A i \in 1 .. n :
              DerTakeTlv(T[i - 1], IntegerTag) = Taken(Content(numbers[i]), T[i])
<1>1. SequenceTag \in Byte /\ IntegerTag \in Byte /\ << >> \in Seq(Byte)
      /\ T[0] \in Seq(Byte)
  BY ByteFacts DEF Tails, Writable
<1> DEFINE d == DerSequence(numbers)
<1>2. d = Tlv(SequenceTag, T[0])
  BY DEF Tails
<1> HIDE DEF d
<1>3. d \in Seq(Byte)
  BY <1>1, <1>2, TlvTyped
<1>4. d \o << >> = d
  BY <1>3, ConcatEmptySeq
<1>5. DerTakeTlv(d \o << >>, SequenceTag) = Taken(T[0], << >>)
  BY <1>1, <1>2, TlvTaken DEF Taken
<1>6. ASSUME NEW i \in 1 .. n
      PROVE  DerTakeTlv(T[i - 1], IntegerTag) = Taken(Content(numbers[i]), T[i])
  <2>1. T[i] \in Seq(Byte)
    <3>1. i \in 0 .. n
      BY DEF Writable
    <3> QED
      BY <3>1 DEF Tails
  <2>2. T[i - 1] = DerUnsignedInteger(numbers[i]) \o T[i]
    BY DEF Tails
  <2>3. numbers[i] \in Seq(Byte) /\ numbers[i] # << >>
        /\ Len(numbers[i]) + 1 < UsizeValues
    BY DEF Writable
  <2> QED
    BY <2>1, <2>2, <2>3, IntegerTaken DEF Taken
<1> QED
  BY <1>3, <1>4, <1>5, <1>6 DEF d

(* The integers of a document, read one after the other.                   *)
LEMMA DocumentReads ==
  ASSUME NEW n, NEW numbers, Writable(numbers, n),
         NEW T, Tails(T, numbers, n), Len(T[0]) < UsizeValues
  PROVE  \A i \in 1 .. n : IntegersOf(DerSequence(numbers), n)[i]
                             = Taken(Content(numbers[i]), T[i])
<1> DEFINE d == DerSequence(numbers)
           Rec(i) == Taken(Content(numbers[i]), T[i])
           Eq(f) == f = [i \in 0 .. n |->
                      IF i = 0
                      THEN DerTakeTlv(DerTakeTlv(d, SequenceTag).val, IntegerTag)
                      ELSE IF f[i - 1].ok
                           THEN DerTakeTlv(f[i - 1].rest, IntegerTag)
                           ELSE BadDer]
           R == CHOOSE f : Eq(f)
           f == [i \in 0 .. n |-> IF i < n THEN Rec(i + 1) ELSE BadDer]
<1>1. IntegersOf(d, n) = [i \in 1 .. n |-> R[i - 1]] /\ n \in Nat \ {0}
  BY DEF IntegersOf, Writable
<1>2. DerTakeTlv(DerTakeTlv(d, SequenceTag).val, IntegerTag) = Rec(1)
  <2>1. DerTakeTlv(d, SequenceTag) = Taken(T[0], << >>)
    BY DocumentParts
  <2>2. DerTakeTlv(d, SequenceTag).val = T[0]
    BY <2>1 DEF Taken
  <2>3. 1 \in 1 .. n /\ 1 - 1 = 0
    BY <1>1
  <2>4. DerTakeTlv(T[1 - 1], IntegerTag) = Rec(1)
    BY <2>3, DocumentParts
  <2> QED
    BY <2>2, <2>3, <2>4
<1>3. ASSUME NEW i \in 1 .. n - 1
      PROVE  DerTakeTlv(Rec(i).rest, IntegerTag) = Rec(i + 1)
  <2>1. i + 1 \in 1 .. n /\ (i + 1) - 1 = i
    BY <1>1
  <2>2. DerTakeTlv(T[(i + 1) - 1], IntegerTag) = Rec(i + 1)
    BY <2>1, DocumentParts
  <2>3. Rec(i).rest = T[i]
    BY DEF Taken
  <2> QED
    BY <2>1, <2>2, <2>3
<1>4. DerTakeTlv(Rec(n).rest, IntegerTag) = BadDer
  BY DEF Taken, Tails, DerTakeTlv
<1>5. \A i : Rec(i).ok
  BY DEF Taken
<1> HIDE DEF d, Rec
<1>6. Eq(f)
  <2>1. ASSUME NEW i \in 0 .. n
        PROVE  f[i] = IF i = 0
                      THEN DerTakeTlv(DerTakeTlv(d, SequenceTag).val, IntegerTag)
                      ELSE IF f[i - 1].ok
                           THEN DerTakeTlv(f[i - 1].rest, IntegerTag)
                           ELSE BadDer
    <3>1. CASE i = 0
      BY <1>1, <1>2, <3>1
    <3>2. CASE i # 0
      <4>1. i - 1 \in 0 .. n /\ i - 1 < n /\ (i - 1) + 1 = i /\ f[i - 1] = Rec(i)
        BY <1>1, <3>2
      <4>2. CASE i = n
        BY <1>1, <1>4, <1>5, <3>2, <4>1, <4>2
      <4>3. CASE i # n
        <5>1. i \in 1 .. n - 1 /\ f[i] = Rec(i + 1)
          BY <1>1, <3>2, <4>3
        <5> HIDE DEF f
        <5> QED
          BY <1>3, <1>5, <3>2, <4>1, <5>1
      <4> QED
        BY <4>2, <4>3
    <3> QED
      BY <3>1, <3>2
  <2>2. f = [i \in 0 .. n |-> f[i]]
    OBVIOUS
  <2> HIDE DEF f
  <2> QED
    BY <2>1, <2>2
<1>7. Eq(R)
  <2> HIDE DEF Eq
  <2> QED
    BY <1>6
<1> HIDE DEF R
<1>8. 0 .. n - 1 \subseteq {i \in 0 .. n - 1 : R[i] = Rec(i + 1)}
  <2> DEFINE S == {i \in 0 .. n - 1 : R[i] = Rec(i + 1)}
  <2>1. 0 \in S
    <3>1. 0 \in 0 .. n /\ 0 \in 0 .. n - 1 /\ 0 + 1 = 1
      BY <1>1
    <3>2. R[0] = DerTakeTlv(DerTakeTlv(d, SequenceTag).val, IntegerTag)
      BY <1>7, <3>1
    <3> QED
      BY <1>2, <3>1, <3>2
  <2>2. ASSUME NEW i \in 0 .. (n - 1) - 1, i \in S PROVE i + 1 \in S
    <3>1. i + 1 \in 1 .. n - 1 /\ i + 1 \in 0 .. n /\ (i + 1) - 1 = i
          /\ i + 1 \in 0 .. n - 1 /\ i + 1 # 0
      BY <1>1
    <3>2. R[i] = Rec(i + 1)
      BY <2>2
    <3>3. R[i + 1] = IF R[i].ok THEN DerTakeTlv(R[i].rest, IntegerTag) ELSE BadDer
      BY <1>7, <3>1
    <3>4. R[i + 1] = Rec((i + 1) + 1)
      BY <1>3, <1>5, <3>1, <3>2, <3>3
    <3> QED
      BY <3>1, <3>4
  <2>3. n - 1 \in Nat
    BY <1>1
  <2> HIDE DEF S
  <2> QED
    BY <2>1, <2>2, <2>3, UpInduct DEF S
<1>9. ASSUME NEW i \in 1 .. n PROVE R[i - 1] = Rec(i)
  <2>1. i - 1 \in 0 .. n - 1 /\ (i - 1) + 1 = i
    BY <1>1
  <2> QED
    BY <1>8, <2>1
<1> QED
  BY <1>1, <1>9 DEF d, Rec

-----------------------------------------------------------------------------
(* The documents of the model.                                             *)

(* What the assumptions say of the numbers.                                *)
LEMMA NumberFacts ==
  /\ DerNumber \subseteq Seq(Byte) \ {<< >>} /\ UsizeValues \in Nat
  /\ \A m, k \in DerNumber :
       /\ Len(m) \in Nat /\ Len(k) \in Nat
       /\ Len(m) + Len(k) + 2 * WordBytes + 30 < UsizeValues
<1>1. DerNumber \subseteq Seq(Byte) \ {<< >>}
  BY DerConstants DEF Byte
<1>2. UsizeValues \in Nat
  <2>1. WordBytes \in Nat
    BY ByteFacts
  <2> QED
    BY <2>1, UsizeValuesIs
<1>3. \A m \in DerNumber : Len(m) \in Nat
  BY <1>1
<1> QED
  BY <1>1, <1>2, <1>3, DerConstants

(* The bytes 0 and 1 are numbers of one content octet.                     *)
LEMMA SmallNumber ==
  ASSUME NEW b \in {0, 1}
  PROVE  /\ <<b>> \in Seq(Byte) \ {<< >>} /\ Len(<<b>>) = 1
         /\ 1 + 1 < UsizeValues \/ DerNumber = {}
         /\ 1 + 1 < UsizeValues => Len(DerUnsignedInteger(<<b>>)) = 3
<1> DEFINE s == <<b>>
<1>1. b \in Byte /\ HighBit \in Nat /\ 1 < HighBit /\ WordBytes \in Nat
      /\ IntegerTag \in Byte
  BY ByteFacts
<1>2. s \in Seq(Byte) /\ s # << >> /\ Len(s) = 1 /\ s[1] = b
  BY <1>1
<1>3. 1 + 1 < UsizeValues \/ DerNumber = {}
  BY <1>1, NumberFacts
<1> HIDE DEF s
<1>4. Stripped(s) = s
  <2>1. PICK k \in 0 .. Len(s) - 1 : Stripped(s) = From(s, k + 1)
    BY <1>2, StrippedIs
  <2>2. k = 0 /\ 0 + 1 = 1
    BY <1>2
  <2>3. From(s, 1) = s
    BY <1>2, SubSeqFull DEF From
  <2> QED
    BY <2>1, <2>2, <2>3
<1>5. Content(s) = s
  BY <1>1, <1>2, <1>4 DEF Content
<1>6. DerUnsignedInteger(s) = Tlv(IntegerTag, s)
  BY <1>2, <1>5, ContentIs
<1>7. ASSUME 1 + 1 < UsizeValues PROVE Len(DerUnsignedInteger(s)) = 3
  <2>1. UsizeValues \in Nat
    BY NumberFacts
  <2>2. Len(s) < UsizeValues /\ Len(s) < HighBit
    BY <1>1, <1>2, <1>7, <2>1
  <2>3. Len(Tlv(IntegerTag, s)) = Len(s) + 2
    BY <1>1, <1>2, <2>2, TlvTyped
  <2> QED
    BY <1>2, <1>6, <2>3
<1> QED
  BY <1>2, <1>3, <1>7 DEF s

(* n and e come back from a public key document, and only from a whole one.*)
LEMMA PublicKeySurvives ==
  ASSUME NEW n \in DerNumber, NEW e \in DerNumber
  PROVE  LET der == DerSequence(<<n, e>>)
         IN /\ RsaPublicKeyFromDer(der) =
                 [ok |-> TRUE, n |-> Stripped(n), e |-> Stripped(e)]
            /\ ~ RsaPublicKeyFromDer(Front(der)).ok
            /\ \A b \in {0, IntegerTag} : ~ RsaPublicKeyFromDer(Append(der, b)).ok
<1> DEFINE numbers == <<n, e>>
           der == DerSequence(numbers)
<1>1. /\ n \in Seq(Byte) /\ n # << >> /\ e \in Seq(Byte) /\ e # << >>
      /\ Len(n) \in Nat /\ Len(e) \in Nat /\ UsizeValues \in Nat
      /\ Len(n) + Len(e) + 2 * WordBytes + 30 < UsizeValues
      /\ WordBytes \in Nat
  BY NumberFacts, ByteFacts
<1>2. Len(n) + 1 < UsizeValues /\ Len(e) + 1 < UsizeValues
  BY <1>1
<1>3. /\ numbers \in [1 .. 2 -> Seq(Byte) \ {<< >>}]
      /\ numbers[1] = n /\ numbers[2] = e
      /\ Writable(numbers, 2)
  <2>1. /\ numbers \in [1 .. 2 -> Seq(Byte) \ {<< >>}]
        /\ numbers[1] = n /\ numbers[2] = e
    BY <1>1
  <2> HIDE DEF numbers
  <2>2. \A i \in 1 .. 2 : Len(numbers[i]) + 1 < UsizeValues
    BY <1>2, <2>1
  <2> QED
    BY <2>1, <2>2 DEF Writable
<1> HIDE DEF numbers
<1>4. PICK T : Tails(T, numbers, 2)
  BY <1>3, DocumentIs
<1>5. /\ T[0] = DerUnsignedInteger(n) \o T[1] /\ T[1] = DerUnsignedInteger(e) \o T[2]
      /\ T[2] = << >> /\ T[0] \in Seq(Byte) /\ T[1] \in Seq(Byte)
  <2>1. \A i \in 1 .. 2 : T[i - 1] = DerUnsignedInteger(numbers[i]) \o T[i]
    BY <1>4 DEF Tails
  <2>2. T[1 - 1] = DerUnsignedInteger(n) \o T[1] /\ T[2 - 1] = DerUnsignedInteger(e) \o T[2]
    BY <1>3, <2>1
  <2>3. T \in [0 .. 2 -> Seq(Byte)] /\ T[2] = << >>
    BY <1>4 DEF Tails
  <2> QED
    BY <2>2, <2>3
<1>6. Len(T[0]) < UsizeValues /\ T[0] # << >>
  <2> DEFINE a == DerUnsignedInteger(n)
             b == DerUnsignedInteger(e)
  <2>1. /\ a \in Seq(Byte) /\ Len(a) \in 3 .. Len(n) + WordBytes + 3
        /\ b \in Seq(Byte) /\ Len(b) \in 3 .. Len(e) + WordBytes + 3
    BY <1>1, <1>2, IntegerTaken
  <2> HIDE DEF a, b
  <2>2. T[1] = b /\ T[0] = a \o b
    BY <1>5, <2>1, ConcatEmptySeq DEF a, b
  <2>3. Len(T[0]) = Len(a) + Len(b)
    BY <2>1, <2>2, Apart
  <2>4. Len(T[0]) < UsizeValues /\ Len(T[0]) # 0
    BY <1>1, <2>1, <2>3
  <2> QED
    BY <2>4
<1>7. /\ der \in Seq(Byte)
      /\ DerTakeTlv(der, SequenceTag) = Taken(T[0], << >>)
      /\ DerTakeTlv(T[0], IntegerTag) = Taken(Content(n), T[1])
      /\ DerTakeTlv(T[1], IntegerTag) = Taken(Content(e), << >>)
      /\ der = Tlv(SequenceTag, T[0])
  <2>1. /\ der \in Seq(Byte)
        /\ DerTakeTlv(der, SequenceTag) = Taken(T[0], << >>)
        /\ \A i \in 1 .. 2 :
             DerTakeTlv(T[i - 1], IntegerTag) = Taken(Content(numbers[i]), T[i])
    BY <1>3, <1>4, <1>6, DocumentParts
  <2>2. DerTakeTlv(T[0], IntegerTag) = Taken(Content(n), T[1])
        /\ DerTakeTlv(T[1], IntegerTag) = Taken(Content(e), T[2])
    <3>1. 1 \in 1 .. 2 /\ 2 \in 1 .. 2 /\ 1 - 1 = 0 /\ 2 - 1 = 1
      OBVIOUS
    <3>2. DerTakeTlv(T[1 - 1], IntegerTag) = Taken(Content(numbers[1]), T[1])
          /\ DerTakeTlv(T[2 - 1], IntegerTag) = Taken(Content(numbers[2]), T[2])
      BY <2>1, <3>1
    <3> QED
      BY <1>3, <3>1, <3>2
  <2>3. der = Tlv(SequenceTag, T[0])
    BY <1>4 DEF Tails
  <2> HIDE DEF der
  <2> QED
    BY <1>5, <2>1, <2>2, <2>3
<1>8. DerIntegerMagnitude(Content(n)) = Stripped(n)
      /\ DerIntegerMagnitude(Content(e)) = Stripped(e)
  BY <1>1, ContentIs
<1> HIDE DEF der
<1>10. RsaPublicKeyFromDer(der) =
         [ok |-> TRUE, n |-> Stripped(n), e |-> Stripped(e)]
  <2> DEFINE q == DerTakeTlv(der, SequenceTag)
             u == DerTakeTlv(q.val, IntegerTag)
             v == DerTakeTlv(u.rest, IntegerTag)
  <2>1. q.ok /\ q.val = T[0] /\ q.rest = << >>
    BY <1>7 DEF Taken
  <2>2. u.ok /\ u.val = Content(n) /\ u.rest = T[1]
    BY <1>7, <2>1 DEF Taken
  <2>3. v.ok /\ v.val = Content(e) /\ v.rest = << >>
    BY <1>7, <2>2 DEF Taken
  <2>4. RsaPublicKeyFromDer(der) = IF v.ok /\ q.rest = << >> /\ v.rest = << >>
          THEN [ok |-> TRUE, n |-> DerIntegerMagnitude(u.val),
                e |-> DerIntegerMagnitude(v.val)]
          ELSE BadDer
    BY <2>1, <2>2 DEF RsaPublicKeyFromDer
  <2> HIDE DEF q, u, v
  <2> QED
    BY <1>8, <2>1, <2>2, <2>3, <2>4
<1>11. ~ RsaPublicKeyFromDer(Front(der)).ok
  <2>1. ~ DerTakeTlv(Front(der), SequenceTag).ok
    BY <1>5, <1>6, <1>7, ByteFacts, TlvCutOff
  <2> QED
    BY <2>1 DEF RsaPublicKeyFromDer, BadDer
<1>12. ASSUME NEW b \in {0, IntegerTag}
       PROVE  ~ RsaPublicKeyFromDer(Append(der, b)).ok
  <2>1. b \in Byte /\ <<b>> \in Seq(Byte) /\ <<b>> # << >> /\ SequenceTag \in Byte
    BY ByteFacts
  <2>2. Append(der, b) = der \o <<b>>
    BY <1>7, <2>1, AppendIsConcat
  <2>3. DerTakeTlv(der \o <<b>>, SequenceTag) = Taken(T[0], <<b>>)
    BY <1>5, <1>6, <1>7, <2>1, TlvTaken DEF Taken
  <2>4. DerTakeTlv(der \o <<b>>, SequenceTag).rest # << >>
    <3> DEFINE s == <<b>>
    <3>1. s # << >>
      BY <2>1
    <3> HIDE DEF s
    <3>2. Taken(T[0], s).rest = s
      BY DEF Taken
    <3> QED
      BY <2>3, <3>1, <3>2 DEF s
  <2> QED
    BY <2>2, <2>4 DEF RsaPublicKeyFromDer, BadDer
<1> QED
  BY <1>10, <1>11, <1>12 DEF der, numbers

(* Nine lengths of at most three, one of which has extra.                  *)
OneIsLong(L, p, extra) ==
  /\ L[9] = 0
  /\ \A i \in 1 .. 9 : \E a \in Nat :
       /\ L[i - 1] = a + L[i]
       /\ a <= 3 + IF i = p + 1 THEN extra ELSE 0

LEMMA OneLong ==
  ASSUME NEW L, NEW p \in Nat, NEW extra \in Nat, OneIsLong(L, p, extra)
  PROVE  L[0] \in Nat /\ L[0] <= 27 + extra
<1> DEFINE More(j) == IF 9 - j <= p THEN extra ELSE 0
           S == {j \in 0 .. 9 : L[9 - j] \in Nat /\ L[9 - j] <= 3 * j + More(j)}
<1>1. 0 \in S
  <2>1. L[9 - 0] = 0 /\ More(0) \in Nat
    BY DEF OneIsLong
  <2> QED
    BY <2>1
<1>2. ASSUME NEW j \in 0 .. 9 - 1, j \in S PROVE j + 1 \in S
  <2> DEFINE i == 9 - j
             x == L[i]
             y == L[i - 1]
  <2>1. i \in 1 .. 9 /\ 9 - (j + 1) = i - 1 /\ j + 1 \in 0 .. 9
    OBVIOUS
  <2>2. PICK a \in Nat : y = a + x /\ a <= 3 + IF i = p + 1 THEN extra ELSE 0
    BY <2>1 DEF OneIsLong
  <2>3. x \in Nat /\ x <= 3 * j + IF i <= p THEN extra ELSE 0
    BY <1>2
  <2> HIDE DEF x, y
  <2>4. y \in Nat
    BY <2>2, <2>3
  <2>5. y <= 3 * (j + 1) + IF i - 1 <= p THEN extra ELSE 0
    <3>1. CASE i = p + 1
      <4>1. ~ (i <= p) /\ i - 1 <= p
        BY <3>1
      <4> HIDE DEF i
      <4> QED
        BY <2>2, <2>3, <3>1, <4>1
    <3>2. CASE i # p + 1 /\ i <= p
      <4>1. i - 1 <= p
        BY <3>2
      <4> HIDE DEF i
      <4> QED
        BY <2>2, <2>3, <3>2, <4>1
    <3>3. CASE i # p + 1 /\ ~ (i <= p)
      <4>1. ~ (i - 1 <= p)
        BY <3>3
      <4> HIDE DEF i
      <4> QED
        BY <2>2, <2>3, <3>3, <4>1
    <3> QED
      BY <3>1, <3>2, <3>3
  <2>6. L[9 - (j + 1)] = y
    BY <2>1 DEF y
  <2>7. More(j + 1) = IF i - 1 <= p THEN extra ELSE 0
    BY <2>1
  <2> HIDE DEF i, More
  <2> QED
    BY <2>1, <2>4, <2>5, <2>6, <2>7
<1>3. 0 .. 9 \subseteq S
  <2> HIDE DEF S
  <2>1. 9 \in Nat
    OBVIOUS
  <2> QED
    BY <1>1, <1>2, <2>1, UpInduct
<1>4. 9 \in S
  <2> HIDE DEF S
  <2> QED
    BY <1>3
<1>5. 9 - 9 = 0 /\ More(9) = extra
  OBVIOUS
<1> HIDE DEF More
<1> QED
  BY <1>4, <1>5

(* The nine integers of a private key document come back.                  *)
LEMMA PrivateKeySurvives ==
  ASSUME NEW m \in DerNumber, NEW fields \in PrivateFields(m)
  PROVE  LET read == IntegersOf(RsaPkcs1PrivateKeyDer(fields), 9)
         IN /\ \A i \in 1 .. 9 : read[i].ok /\ IsMinimalPositive(read[i].val)
            /\ read[9].rest = << >> /\ FromBeBytes(read[1].val) = 0
            /\ \A i \in 1 .. 8 :
                 FromBeBytes(read[i + 1].val) = FromBeBytes(fields[i])
<1> DEFINE zero == <<0>>
           one == <<1>>
           numbers == <<zero>> \o fields
<1>1. /\ m \in Seq(Byte) /\ m # << >> /\ Len(m) \in Nat /\ UsizeValues \in Nat
      /\ Len(m) + Len(m) + 2 * WordBytes + 30 < UsizeValues /\ WordBytes \in Nat
  BY NumberFacts, ByteFacts
<1>2. Len(m) + 1 < UsizeValues /\ 1 + 1 < UsizeValues
  BY <1>1
<1>3. /\ zero \in Seq(Byte) /\ zero # << >> /\ Len(zero) = 1
      /\ Len(DerUnsignedInteger(zero)) = 3
      /\ one \in Seq(Byte) /\ one # << >> /\ Len(one) = 1
      /\ Len(DerUnsignedInteger(one)) = 3
  BY <1>2, SmallNumber
<1>4. PICK p \in 1 .. 8 : fields = [j \in 1 .. 8 |-> IF p = j THEN m ELSE one]
  BY DEF PrivateFields
<1>5. FromBeBytes(zero) = 0
  <2>1. 0 \in 0 .. 0 /\ zero[1] = 0
    OBVIOUS
  <2>2. PICK R \in [0 .. Len(zero) -> Nat] :
           /\ R[0] = 0
           /\ \A i \in 1 .. Len(zero) : R[i] = R[i - 1] * Radix + zero[i]
           /\ FromBeBytes(zero) = R[Len(zero)]
    BY <1>3, FromBeBytesIs
  <2>3. R[1] = R[1 - 1] * Radix + zero[1] /\ FromBeBytes(zero) = R[1]
    BY <1>3, <2>2
  <2>4. R[1 - 1] = 0 /\ Radix \in Nat
    BY <2>2, ByteFacts
  <2> HIDE DEF zero
  <2> QED
    BY <2>1, <2>3, <2>4
<1> HIDE DEF zero, one
<1>6. /\ DOMAIN numbers = 1 .. 9 /\ numbers[1] = zero
      /\ \A j \in 1 .. 8 : numbers[j + 1] = fields[j]
      /\ numbers = [i \in 1 .. 9 |-> numbers[i]]
  <2> DEFINE S == Seq(Byte)
             h == <<zero>>
  <2>1. h \in Seq(S) /\ Len(h) = 1 /\ h[1] = zero
    BY <1>3
  <2>2. fields \in [1 .. 8 -> S]
    BY <1>1, <1>3, <1>4
  <2> HIDE DEF S, h
  <2>3. fields \in Seq(S) /\ Len(fields) = 8
    <3>1. 8 \in Nat
      OBVIOUS
    <3>2. fields \in Seq(S)
      BY <2>2, <3>1, SeqDef
    <3>3. DOMAIN fields = 1 .. 8
      BY <2>2
    <3> QED
      BY <3>2, <3>3
  <2>4. /\ h \o fields \in Seq(S) /\ Len(h \o fields) = Len(h) + Len(fields)
        /\ \A i \in 1 .. Len(h) + Len(fields) : (h \o fields)[i] =
             IF i <= Len(h) THEN h[i] ELSE fields[i - Len(h)]
    BY <2>1, <2>3, ConcatProperties
  <2>5. numbers = h \o fields
    BY DEF h
  <2> HIDE DEF numbers
  <2>6. numbers \in Seq(S) /\ Len(numbers) = 9
    BY <2>1, <2>3, <2>4, <2>5
  <2>7. DOMAIN numbers = 1 .. 9 /\ numbers = [i \in 1 .. 9 |-> numbers[i]]
    BY <2>6
  <2>8. numbers[1] = zero
    BY <2>1, <2>3, <2>4, <2>5
  <2>9. ASSUME NEW j \in 1 .. 8 PROVE numbers[j + 1] = fields[j]
    <3>1. j + 1 \in 1 .. Len(h) + Len(fields) /\ ~ (j + 1 <= Len(h))
          /\ (j + 1) - Len(h) = j
      BY <2>1, <2>3
    <3> QED
      BY <2>4, <2>5, <3>1
  <2> QED
    BY <2>7, <2>8, <2>9
<1>7. RsaPkcs1PrivateKeyDer(fields) = DerSequence(numbers)
  BY DEF RsaPkcs1PrivateKeyDer, zero
<1> HIDE DEF numbers
<1>8. ASSUME NEW i \in 1 .. 9
      PROVE  \/ i = p + 1 /\ numbers[i] = m
             \/ i # p + 1 /\ numbers[i] \in {zero, one}
  <2>1. CASE i = 1
    <3>1. i # p + 1
      BY <2>1
    <3> QED
      BY <1>6, <2>1, <3>1
  <2>2. CASE i # 1
    <3> DEFINE j == i - 1
    <3>1. j \in 1 .. 8 /\ i = j + 1 /\ (i = p + 1 <=> p = j)
      BY <2>2
    <3> HIDE DEF j
    <3>2. numbers[i] = fields[j] /\ fields[j] = IF p = j THEN m ELSE one
      BY <1>4, <1>6, <3>1
    <3> QED
      BY <3>1, <3>2
  <2> QED
    BY <2>1, <2>2
<1>9. Writable(numbers, 9)
  <2>1. ASSUME NEW i \in 1 .. 9
        PROVE  numbers[i] \in Seq(Byte) \ {<< >>} /\ Len(numbers[i]) + 1 < UsizeValues
    BY <1>1, <1>2, <1>3, <1>8
  <2>2. numbers \in [1 .. 9 -> Seq(Byte) \ {<< >>}]
    BY <1>6, <2>1
  <2> QED
    BY <2>1, <2>2 DEF Writable
<1>10. PICK T : Tails(T, numbers, 9)
  BY <1>9, DocumentIs
<1>11. Len(T[0]) < UsizeValues
  <2> DEFINE L == [i \in 0 .. 9 |-> Len(T[i])]
             extra == Len(m) + WordBytes
  <2>1. T \in [0 .. 9 -> Seq(Byte)] /\ T[9] = << >>
    BY <1>10 DEF Tails
  <2>2. \A i \in 1 .. 9 : T[i - 1] = DerUnsignedInteger(numbers[i]) \o T[i]
    BY <1>10 DEF Tails
  <2>3. ASSUME NEW i \in 1 .. 9
        PROVE  \E a \in Nat : /\ L[i - 1] = a + L[i]
                              /\ a <= 3 + IF i = p + 1 THEN extra ELSE 0
    <3> DEFINE u == DerUnsignedInteger(numbers[i])
    <3>1. /\ numbers[i] \in Seq(Byte) /\ numbers[i] # << >>
          /\ Len(numbers[i]) + 1 < UsizeValues
      BY <1>9 DEF Writable
    <3>2. u \in Seq(Byte) /\ Len(u) \in 3 .. Len(numbers[i]) + WordBytes + 3
      BY <3>1, IntegerTaken
    <3>3. i = p + 1 => Len(u) <= 3 + extra
      BY <1>1, <1>8, <3>2, SMTT(30)
    <3>4. i # p + 1 => Len(u) = 3
      BY <1>3, <1>8
    <3>5. T[i - 1] = u \o T[i]
      BY <2>2
    <3> HIDE DEF u
    <3>6. T[i] \in Seq(Byte) /\ Len(u) \in Nat /\ extra \in Nat
      <4>1. i \in 0 .. 9 /\ extra \in Nat
        BY <1>1
      <4>2. T[i] \in Seq(Byte)
        <5>1. i \in 0 .. 9
          BY <4>1
        <5> QED
          BY <2>1, <5>1, Zenon
      <4> HIDE DEF extra
      <4>3. Len(u) \in Nat
        BY <3>2
      <4> QED
        BY <4>1, <4>2, <4>3
    <3>7. Len(T[i - 1]) = Len(u) + Len(T[i])
      BY <3>2, <3>5, <3>6, Apart
    <3>8. i \in 0 .. 9 /\ i - 1 \in 0 .. 9
      OBVIOUS
    <3>9. L[i - 1] = Len(T[i - 1]) /\ L[i] = Len(T[i])
      BY <3>8
    <3> HIDE DEF L, extra
    <3>10. Len(u) <= 3 + IF i = p + 1 THEN extra ELSE 0
      <4>1. CASE i = p + 1
        BY <3>3, <4>1
      <4>2. CASE i # p + 1
        <5>1. Len(u) = 3 /\ (IF i = p + 1 THEN extra ELSE 0) = 0
          BY <3>4, <4>2
        <5>2. 3 <= 3 + 0
          OBVIOUS
        <5> QED
          BY <5>1, <5>2
      <4> QED
        BY <4>1, <4>2
    <3>11. L[i - 1] = Len(u) + L[i]
      BY <3>7, <3>9
    <3> QED
      BY <3>6, <3>10, <3>11
  <2>4. L[9] = 0 /\ L[0] = Len(T[0])
    BY <2>1
  <2>5. extra \in Nat /\ 27 + extra < UsizeValues
    BY <1>1
  <2> HIDE DEF L, extra
  <2>6. L[0] \in Nat /\ L[0] <= 27 + extra
    <3>1. OneIsLong(L, p, extra)
      BY <2>3, <2>4 DEF OneIsLong
    <3>2. p \in Nat
      OBVIOUS
    <3> QED
      BY <2>5, <3>1, <3>2, OneLong
  <2> QED
    BY <1>1, <2>4, <2>5, <2>6
<1> DEFINE read == IntegersOf(DerSequence(numbers), 9)
<1>12. /\ \A i \in 1 .. 9 : read[i] = Taken(Content(numbers[i]), T[i])
       /\ T[9] = << >>
  <2>1. T[9] = << >>
    BY <1>10 DEF Tails
  <2>2. \A i \in 1 .. 9 :
          IntegersOf(DerSequence(numbers), 9)[i] = Taken(Content(numbers[i]), T[i])
    BY <1>9, <1>10, <1>11, DocumentReads
  <2> QED
    BY <2>1, <2>2
<1> HIDE DEF read
<1>13. ASSUME NEW i \in 1 .. 9
       PROVE  /\ read[i].ok /\ IsMinimalPositive(read[i].val)
              /\ FromBeBytes(read[i].val) = FromBeBytes(numbers[i])
              /\ read[i].rest = T[i]
  <2>1. numbers[i] \in Seq(Byte) /\ numbers[i] # << >>
    BY <1>9 DEF Writable
  <2>2. read[i].ok /\ read[i].val = Content(numbers[i]) /\ read[i].rest = T[i]
    BY <1>12 DEF Taken
  <2> QED
    BY <2>1, <2>2, ContentIs
<1>14. ASSUME NEW i \in 1 .. 8
       PROVE  FromBeBytes(read[i + 1].val) = FromBeBytes(fields[i])
  <2>1. i + 1 \in 1 .. 9
    OBVIOUS
  <2> QED
    BY <1>6, <1>13, <2>1
<1>15. read[9].rest = << >> /\ FromBeBytes(read[1].val) = 0
  <2>1. 1 \in 1 .. 9 /\ 9 \in 1 .. 9
    OBVIOUS
  <2> QED
    BY <1>5, <1>6, <1>12, <1>13, <2>1
<1> QED
  BY <1>7, <1>13, <1>14, <1>15 DEF read

(* All of it, for every set of numbers a document has room for.            *)
LEMMA NumbersSurvive == NumbersSurviveDer
BY PublicKeySurvives, PrivateKeySurvives DEF NumbersSurviveDer

(* Whatever numbers an RSA key has, in whatever field, they pass through   *)
(* the documents the backends are given and the exports are read from      *)
(* (crypto.rs:565-583, 766-776, 941-1059).                                 *)
THEOREM RsaDocumentsCorrect == Spec => []RsaKeysSurviveDer
<1>1. RsaKeysSurviveDer
  BY NumbersSurvive DEF RsaKeysSurviveDer
<1> QED
  BY <1>1, PTL

-----------------------------------------------------------------------------
(* The strict parser, whose proof needs the same inductions and rows.      *)

CONSTANTS Cases, LimitChoices, DefaultLimits
Parser == INSTANCE StrictCbor

(* The levels of the trees under S.                                        *)
Levels(L, S, d) ==
  /\ L[0] = S
  /\ \A k \in 1 .. d : L[k] = KidsOf(L[k - 1])

(* The nodes of the trees are those of their levels.                       *)
LEMMA NodesAre ==
  ASSUME NEW S, NEW d \in Nat
  PROVE  \E L : /\ Levels(L, S, d)
                /\ Nodes(S, d) = UNION {L[k] : k \in 0 .. d}
<1> DEFINE Eq(f, n) == f = [k \in 0 .. n |-> IF k = 0 THEN S
                                             ELSE KidsOf(f[k - 1])]
           T == {n \in 0 .. d : \E f : Eq(f, n)}
<1>1. 0 \in T
  <2> DEFINE f == [k \in 0 .. 0 |-> S]
  <2>1. Eq(f, 0)
    OBVIOUS
  <2> HIDE DEF Eq, f
  <2> QED
    BY <2>1
<1>2. ASSUME NEW n \in 0 .. d - 1, n \in T PROVE n + 1 \in T
  <2>1. PICK f : Eq(f, n)
    BY <1>2
  <2> DEFINE g == [k \in 0 .. n + 1 |-> IF k = n + 1 THEN KidsOf(f[n])
                                                     ELSE f[k]]
  <2>2. ASSUME NEW k \in 0 .. n + 1
        PROVE  g[k] = IF k = 0 THEN S ELSE KidsOf(g[k - 1])
    <3>1. CASE k = 0
      BY <2>1, <3>1
    <3>2. CASE k = n + 1
      <4>1. k - 1 = n /\ n \in 0 .. n + 1 /\ n # n + 1 /\ k # 0
        BY <3>2
      <4> QED
        BY <3>2, <4>1
    <3>3. CASE k # 0 /\ k # n + 1
      <4>1. k \in 0 .. n /\ k - 1 \in 0 .. n + 1 /\ k - 1 # n + 1
        BY <3>3
      <4>2. g[k] = f[k] /\ g[k - 1] = f[k - 1]
        BY <3>3, <4>1
      <4>3. f[k] = KidsOf(f[k - 1])
        BY <2>1, <3>3, <4>1
      <4> QED
        BY <3>3, <4>2, <4>3
    <3> QED
      BY <3>1, <3>2, <3>3
  <2>3. g = [k \in 0 .. n + 1 |-> g[k]]
    OBVIOUS
  <2> HIDE DEF g
  <2>4. Eq(g, n + 1)
    BY <2>2, <2>3
  <2> HIDE DEF Eq
  <2> QED
    BY <2>4
<1>3. d \in T
  <2> HIDE DEF T
  <2>1. 0 .. d \subseteq T
    BY <1>1, <1>2, UpInduct
  <2> QED
    BY <2>1
<1> DEFINE L == CHOOSE f : Eq(f, d)
<1>4. Eq(L, d)
  <2> HIDE DEF Eq
  <2> QED
    BY <1>3
<1>5. Nodes(S, d) = UNION {L[k] : k \in 0 .. d}
  BY DEF Nodes
<1> HIDE DEF L
<1>6. Levels(L, S, d)
  <2>1. L[0] = S
    BY <1>4
  <2>2. ASSUME NEW k \in 1 .. d PROVE L[k] = KidsOf(L[k - 1])
    BY <1>4
  <2> QED
    BY <2>1, <2>2 DEF Levels
<1> QED
  BY <1>5, <1>6

(* Nodes whose members are already there add themselves and no others.     *)
LEMMA NodesGrow ==
  ASSUME NEW S, NEW T, NEW X, NEW d \in Nat,
         T \subseteq S \cup X, KidsOf(X) \subseteq S
  PROVE  Nodes(T, d) \subseteq Nodes(S, d) \cup X
<1>1. PICK L : /\ Levels(L, S, d)
               /\ Nodes(S, d) = UNION {L[k] : k \in 0 .. d}
  BY NodesAre
<1>2. PICK M : /\ Levels(M, T, d)
               /\ Nodes(T, d) = UNION {M[k] : k \in 0 .. d}
  BY NodesAre
<1> DEFINE Upto(k) == UNION {L[j] : j \in 0 .. k}
           I == {k \in 0 .. d : M[k] \subseteq Upto(k) \cup X}
<1>3. 0 \in I
  BY <1>1, <1>2 DEF Levels
<1>4. ASSUME NEW k \in 0 .. d - 1, k \in I PROVE k + 1 \in I
  <2>1. k + 1 \in 1 .. d /\ (k + 1) - 1 = k
    OBVIOUS
  <2>2. M[k + 1] = KidsOf(M[k])
    BY <1>2, <2>1 DEF Levels
  <2>3. ASSUME NEW y \in M[k + 1] PROVE y \in Upto(k + 1) \cup X
    <3>1. PICK x \in M[k] : y \in {x.kids[i] : i \in DOMAIN x.kids}
      BY <2>2 DEF KidsOf
    <3>2. CASE x \in X
      <4>1. y \in S
        BY <3>1, <3>2 DEF KidsOf
      <4>2. y \in L[0] /\ 0 \in 0 .. k + 1
        BY <1>1, <4>1 DEF Levels
      <4> QED
        BY <4>2
    <3>3. CASE x \notin X
      <4>1. PICK j \in 0 .. k : x \in L[j]
        BY <1>4, <3>3
      <4>2. j + 1 \in 1 .. d /\ (j + 1) - 1 = j /\ j + 1 \in 0 .. k + 1
        OBVIOUS
      <4>3. L[j + 1] = KidsOf(L[j])
        BY <1>1, <4>2 DEF Levels
      <4>4. y \in L[j + 1]
        BY <3>1, <4>1, <4>3 DEF KidsOf
      <4> QED
        BY <4>2, <4>4
    <3> QED
      BY <3>2, <3>3
  <2>4. k + 1 \in 0 .. d /\ M[k + 1] \subseteq Upto(k + 1) \cup X
    BY <2>1, <2>3
  <2> HIDE DEF Upto
  <2> QED
    BY <2>4
<1>5. 0 .. d \subseteq I
  <2> HIDE DEF I
  <2> QED
    BY <1>3, <1>4, UpInduct
<1>6. ASSUME NEW k \in 0 .. d, NEW y \in M[k], y \notin X
      PROVE  \E j \in 0 .. d : y \in L[j]
  <2>1. M[k] \subseteq Upto(k) \cup X
    BY <1>5
  <2>2. PICK j \in 0 .. k : y \in L[j]
    BY <1>6, <2>1
  <2>3. j \in 0 .. d
    OBVIOUS
  <2> QED
    BY <2>2, <2>3
<1> DEFINE A == UNION {M[k] : k \in 0 .. d}
           B == UNION {L[k] : k \in 0 .. d}
<1>7. A \subseteq B \cup X
  <2> SUFFICES ASSUME NEW y \in A, y \notin X PROVE y \in B
    OBVIOUS
  <2>1. PICK k \in 0 .. d : y \in M[k]
    OBVIOUS
  <2> QED
    BY <1>6, <2>1
<1> HIDE DEF A, B
<1> QED
  BY <1>1, <1>2, <1>7 DEF A, B

-----------------------------------------------------------------------------
(* Rows that grow, shrink or change in one place.                          *)
LEMMA RowAppend ==
  ASSUME NEW s, IsRow(s), NEW e
  PROVE  /\ IsRow(Append(s, e)) /\ Len(Append(s, e)) = Len(s) + 1
         /\ \A i \in DOMAIN s : Append(s, e)[i] = s[i]
         /\ Append(s, e)[Len(s) + 1] = e
<1> DEFINE S == {s[i] : i \in DOMAIN s} \cup {e}
<1>1. s \in [1 .. Len(s) -> S] /\ Len(s) \in Nat /\ DOMAIN s = 1 .. Len(s)
  BY DEF IsRow
<1>2. s \in Seq(S) /\ e \in S
  BY <1>1, SeqDef
<1> HIDE DEF S
<1> DEFINE a == Append(s, e)
<1>3. a \in Seq(S) /\ Len(a) = Len(s) + 1
  BY <1>2
<1>4. \A i \in 1 .. Len(s) : a[i] = s[i]
  BY <1>2
<1>5. a[Len(s) + 1] = e
  BY <1>2
<1> HIDE DEF a
<1>6. Len(a) \in Nat /\ a = [i \in 1 .. Len(a) |-> a[i]]
  BY <1>3
<1>7. IsRow(a)
  BY <1>6, RowOf
<1> QED
  BY <1>1, <1>3, <1>4, <1>5, <1>7 DEF a

(* A row without its last member.                                          *)
LEMMA RowFront ==
  ASSUME NEW s, IsRow(s), s # << >>
  PROVE  LET front == SubSeq(s, 1, Len(s) - 1)
         IN /\ IsRow(front) /\ Len(front) = Len(s) - 1
            /\ Len(s) \in 1 .. Len(s) /\ DOMAIN s = 1 .. Len(s)
            /\ \A i \in DOMAIN front : i \in DOMAIN s /\ front[i] = s[i]
<1> DEFINE S == {s[i] : i \in DOMAIN s}
           f == SubSeq(s, 1, Len(s) - 1)
<1>1. s \in [1 .. Len(s) -> S] /\ Len(s) \in Nat /\ DOMAIN s = 1 .. Len(s)
  BY DEF IsRow
<1>2. s \in Seq(S)
  BY <1>1, SeqDef
<1> HIDE DEF S
<1>3. Len(s) # 0
  BY <1>2
<1>4. /\ 1 \in 1 .. Len(s) + 1 /\ Len(s) - 1 \in 1 - 1 .. Len(s)
      /\ (Len(s) - 1) - 1 + 1 = Len(s) - 1
  BY <1>1, <1>3
<1>5. f \in Seq(S) /\ Len(f) = Len(s) - 1
  BY <1>1, <1>2, <1>3, <1>4, SubSeqProperties
<1>6. \A i \in 1 .. Len(s) - 1 : f[i] = s[i]
  BY <1>1, <1>2, <1>3
<1> HIDE DEF f
<1>7. Len(f) \in Nat /\ f = [i \in 1 .. Len(f) |-> f[i]] /\ DOMAIN f = 1 .. Len(f)
  BY <1>5
<1>8. IsRow(f)
  BY <1>7, RowOf
<1>9. Len(s) \in 1 .. Len(s)
  BY <1>1, <1>3
<1>10. ASSUME NEW i \in DOMAIN f PROVE i \in DOMAIN s /\ f[i] = s[i]
  BY <1>1, <1>5, <1>6, <1>7
<1> QED
  BY <1>1, <1>5, <1>8, <1>9, <1>10 DEF f

(* A row with one member replaced.                                         *)
LEMMA RowExcept ==
  ASSUME NEW s, IsRow(s), NEW n \in DOMAIN s, NEW e
  PROVE  LET t == [s EXCEPT ![n] = e]
         IN /\ IsRow(t) /\ Len(t) = Len(s) /\ DOMAIN t = DOMAIN s /\ t[n] = e
            /\ \A i \in DOMAIN s \ {n} : t[i] = s[i]
<1> DEFINE t == [s EXCEPT ![n] = e]
<1>1. Len(s) \in Nat /\ DOMAIN s = 1 .. Len(s) /\ s = [i \in DOMAIN s |-> s[i]]
  BY DEF IsRow
<1>2. /\ t = [i \in 1 .. Len(s) |-> t[i]] /\ DOMAIN t = DOMAIN s
      /\ t[n] = e /\ \A i \in DOMAIN s \ {n} : t[i] = s[i]
  BY <1>1
<1> HIDE DEF t
<1>3. IsRow(t) /\ Len(t) = Len(s)
  BY <1>1, <1>2, RowOf
<1> QED
  BY <1>2, <1>3 DEF t

-----------------------------------------------------------------------------
(* What a stack s and a root r keep: the trees' tops, and the keys.        *)
Tops(s, r) ==
  KidsOf({s[i] : i \in DOMAIN s}) \cup {r[i] : i \in DOMAIN r}
PlacedKeys(s) == UNION {{<<i, k>> : k \in s[i].keys} : i \in DOMAIN s}

(* An activation on the parser's stack, and a stack of them.               *)
IsFrame(f) ==
  /\ f = [head |-> f.head, start |-> f.start, left |-> f.left,
          kids |-> f.kids, read |-> f.read, keys |-> f.keys]
  /\ IsRow(f.kids)
Frames(s) == IsRow(s) /\ \A i \in DOMAIN s : IsFrame(s[i])

(* What is delivered adds one top or one key.                              *)
LEMMA Delivered ==
  ASSUME NEW item, NEW below, Frames(below), Parser!Deliver(item, below),
         below # << >> => root = << >>
  PROVE  /\ Frames(stack') /\ Len(stack') = Len(below)
         /\ stack' # << >> => root' = << >>
         /\ \E p :
              \/ /\ Tops(stack', root') \subseteq Tops(below, << >>) \cup {item}
                 /\ PlacedKeys(stack') \subseteq PlacedKeys(below)
              \/ /\ Tops(stack', root') \subseteq Tops(below, << >>)
                 /\ PlacedKeys(stack') \subseteq PlacedKeys(below) \cup {p}
<1>1. CASE below = << >>
  <2>1. stack' = below /\ root' = <<item>>
    BY <1>1 DEF Parser!Deliver
  <2>2. Tops(stack', root') \subseteq Tops(below, << >>) \cup {item}
    <3>1. {<<item>>[i] : i \in DOMAIN <<item>>} = {item}
      OBVIOUS
    <3> QED
      BY <2>1, <3>1 DEF Tops
  <2>3. PlacedKeys(stack') = PlacedKeys(below)
    BY <2>1
  <2> QED
    BY <1>1, <2>1, <2>2, <2>3
<1>2. CASE below # << >>
  <2> DEFINE n == Len(below)
             f == below[n]
             e == Parser!AddTo(f, item)
             t == [below EXCEPT ![n] = e]
             ck == Parser!CanonicalKey(item)
  <2>1. stack' = t /\ root' = root /\ root = << >>
    BY <1>2 DEF Parser!Deliver
  <2>2. IsRow(below) /\ n \in DOMAIN below /\ IsFrame(f)
    BY <1>2, RowFront DEF Frames
  <2>3. /\ IsRow(t) /\ Len(t) = Len(below) /\ DOMAIN t = DOMAIN below /\ t[n] = e
        /\ \A i \in DOMAIN below \ {n} : t[i] = below[i]
    BY <2>2, RowExcept
  <2>4. /\ e = [head |-> f.head, start |-> f.start, left |-> e.left,
                kids |-> e.kids, read |-> e.read, keys |-> e.keys]
        /\ e.kids = IF f.head.k = "map" THEN f.kids ELSE Append(f.kids, item)
        /\ e.keys = IF Parser!KeyNext(f) /\ Parser!RejectsDuplicates
                    THEN f.keys \cup {ck} ELSE f.keys
    <3>1. f = [head |-> f.head, start |-> f.start, left |-> f.left,
               kids |-> f.kids, read |-> f.read, keys |-> f.keys]
      BY <2>2 DEF IsFrame
    <3> HIDE DEF f
    <3>2. e = [f EXCEPT !.left = e.left, !.read = e.read, !.kids = e.kids,
                        !.keys = e.keys]
      BY <3>1 DEF Parser!AddTo
    <3>3. e.kids = IF f.head.k = "map" THEN f.kids ELSE Append(f.kids, item)
      BY <3>1 DEF Parser!AddTo
    <3>4. e.keys = IF Parser!KeyNext(f) /\ Parser!RejectsDuplicates
                   THEN f.keys \cup {ck} ELSE f.keys
      BY <3>1 DEF Parser!AddTo
    <3> HIDE DEF e
    <3>5. e = [head |-> f.head, start |-> f.start, left |-> e.left,
               kids |-> e.kids, read |-> e.read, keys |-> e.keys]
      BY <3>1, <3>2
    <3> QED
      BY <3>3, <3>4, <3>5
  <2> HIDE DEF e, f, ck, t
  <2>5. IsFrame(e)
    <3>1. IsRow(f.kids)
      BY <2>2 DEF IsFrame
    <3>2. IsRow(e.kids)
      BY <2>4, <3>1, RowAppend
    <3> QED
      BY <2>4, <3>2 DEF IsFrame
  <2>6. Frames(t)
    <3>1. ASSUME NEW i \in DOMAIN t PROVE IsFrame(t[i])
      BY <2>2, <2>3, <2>5 DEF Frames
    <3> QED
      BY <2>3, <3>1 DEF Frames
  <2>7. ASSUME NEW x \in Tops(t, << >>)
        PROVE  x \in Tops(below, << >>) \/ (x = item /\ e.kids = Append(f.kids, item))
    <3>1. PICK i \in DOMAIN t : \E j \in DOMAIN t[i].kids : x = t[i].kids[j]
      BY <2>7 DEF Tops, KidsOf
    <3>0. PICK j \in DOMAIN t[i].kids : x = t[i].kids[j]
      BY <3>1
    <3>2. CASE i # n
      <4>1. i \in DOMAIN below /\ t[i] = below[i]
        BY <2>3, <3>2
      <4> QED
        BY <3>0, <4>1 DEF Tops, KidsOf
    <3>3. CASE i = n
      <4>1. x = e.kids[j] /\ j \in DOMAIN e.kids
        BY <2>3, <3>0, <3>3
      <4>2. IsRow(f.kids)
        BY <2>2 DEF IsFrame
      <4>3. CASE e.kids = f.kids
        BY <2>2, <4>1, <4>3 DEF Tops, KidsOf, f
      <4>4. CASE e.kids = Append(f.kids, item)
        <5>1. /\ IsRow(e.kids) /\ Len(e.kids) = Len(f.kids) + 1
              /\ \A q \in DOMAIN f.kids : e.kids[q] = f.kids[q]
              /\ e.kids[Len(f.kids) + 1] = item
          BY <4>2, <4>4, RowAppend
        <5>2. DOMAIN f.kids = 1 .. Len(f.kids) /\ DOMAIN e.kids = 1 .. Len(f.kids) + 1
              /\ Len(f.kids) \in Nat
          BY <4>2, <5>1 DEF IsRow
        <5>3. j \in DOMAIN f.kids \/ j = Len(f.kids) + 1
          BY <4>1, <5>2
        <5>4. CASE j \in DOMAIN f.kids
          <6>1. x = f.kids[j]
            BY <4>1, <5>1, <5>4
          <6> QED
            BY <2>2, <5>4, <6>1 DEF Tops, KidsOf, f
        <5> QED
          BY <4>1, <4>4, <5>1, <5>3, <5>4
      <4> QED
        BY <2>4, <4>3, <4>4
    <3> QED
      BY <3>2, <3>3
  <2>8. ASSUME NEW x \in PlacedKeys(t)
        PROVE  x \in PlacedKeys(below) \/ (x = <<n, ck>> /\ e.keys = f.keys \cup {ck})
    <3>1. PICK i \in DOMAIN t : \E k \in t[i].keys : x = <<i, k>>
      BY <2>8 DEF PlacedKeys
    <3>0. PICK k \in t[i].keys : x = <<i, k>>
      BY <3>1
    <3>2. CASE i # n
      <4>1. i \in DOMAIN below /\ t[i] = below[i]
        BY <2>3, <3>2
      <4> QED
        BY <3>0, <4>1 DEF PlacedKeys
    <3>3. CASE i = n
      <4>1. k \in e.keys /\ x = <<n, k>>
        BY <2>3, <3>0, <3>3
      <4>2. CASE k \in f.keys
        BY <2>2, <4>1, <4>2 DEF PlacedKeys, f
      <4> QED
        BY <2>4, <4>1, <4>2
    <3> QED
      BY <3>2, <3>3
  <2>9. CASE f.head.k = "map"
    <3>1. e.kids = f.kids
      BY <2>4, <2>9
    <3>2. IsRow(f.kids)
      BY <2>2 DEF IsFrame
    <3>3. e.kids # Append(f.kids, item)
      <4>1. Len(Append(f.kids, item)) = Len(f.kids) + 1 /\ Len(f.kids) \in Nat
        BY <3>2, RowAppend DEF IsRow
      <4> QED
        BY <3>1, <4>1
    <3>4. Tops(t, << >>) \subseteq Tops(below, << >>)
      BY <2>7, <3>3
    <3>5. PlacedKeys(t) \subseteq PlacedKeys(below) \cup {<<n, ck>>}
      BY <2>8
    <3> QED
      BY <2>1, <2>3, <2>6, <3>4, <3>5
  <2>10. CASE f.head.k # "map"
    <3>1. ~ Parser!KeyNext(f)
      BY <2>10 DEF Parser!KeyNext
    <3>2. e.keys = f.keys
      BY <2>4, <3>1
    <3>3. PlacedKeys(t) \subseteq PlacedKeys(below)
      <4>1. ASSUME e.keys = f.keys \cup {ck} PROVE <<n, ck>> \in PlacedKeys(below)
        <5>1. ck \in f.keys
          BY <3>2, <4>1
        <5> QED
          BY <2>2, <5>1 DEF PlacedKeys, f
      <4> QED
        BY <2>8, <4>1
    <3>4. Tops(t, << >>) \subseteq Tops(below, << >>) \cup {item}
      BY <2>7
    <3> QED
      BY <2>1, <2>3, <2>6, <3>3, <3>4
  <2> QED
    BY <2>9, <2>10
<1> QED
  BY <1>1, <1>2

(* Held counts the activations, the nodes under the tops and the keys.     *)
LEMMA HeldIs ==
  /\ Kept = Nodes(Tops(stack, root), Len(data))
  /\ KeptKeys = PlacedKeys(stack)
BY DEF Kept, KeptKeys, Tops, PlacedKeys

(* Sets that grow by one member.                                           *)
LEMMA OneMore ==
  ASSUME NEW A, NEW B, NEW x, IsFiniteSet(A), B \subseteq A \cup {x}
  PROVE  /\ IsFiniteSet(B) /\ Cardinality(A) \in Nat /\ Cardinality(B) \in Nat
         /\ Cardinality(B) <= Cardinality(A) + 1
<1>1. IsFiniteSet(A \cup {x}) /\ Cardinality(A) \in Nat
      /\ Cardinality(A \cup {x}) \in {Cardinality(A), Cardinality(A) + 1}
  <2>1. /\ IsFiniteSet(A \cup {x})
        /\ Cardinality(A \cup {x}) = IF x \in A THEN Cardinality(A)
                                                ELSE Cardinality(A) + 1
    BY FS_AddElement
  <2>2. Cardinality(A) \in Nat
    BY FS_CardinalityType
  <2> QED
    BY <2>1, <2>2
<1>2. IsFiniteSet(B) /\ Cardinality(B) <= Cardinality(A \cup {x})
  BY <1>1, FS_Subset
<1>3. Cardinality(B) \in Nat
  BY <1>2, FS_CardinalityType
<1> QED
  BY <1>1, <1>2, <1>3

(* What a parse holds: the part of the invariant that is not about sizes.  *)
ParserShape ==
  /\ limits \in LimitChoices \cup {DefaultLimits} /\ Len(data) \in Nat
  /\ pos \in Nat /\ items \in Nat
  /\ Frames(stack)
  /\ stack # << >> => root = << >>
  /\ IsFiniteSet(Kept) /\ IsFiniteSet(KeptKeys)

(* A delivery puts one node or one ck more under what was there.          *)
LEMMA DeliveryGrows ==
  ASSUME NEW item, NEW below, Parser!Deliver(item, below), data' = data,
         Len(data) \in Nat, Frames(below), root = << >>,
         IsFiniteSet(Kept), IsFiniteSet(KeptKeys),
         Tops(below, << >>) \subseteq Tops(stack, root),
         PlacedKeys(below) \subseteq PlacedKeys(stack),
         KidsOf({item}) \subseteq Tops(stack, root)
  PROVE  /\ Frames(stack') /\ Len(stack') = Len(below)
         /\ stack' # << >> => root' = << >>
         /\ IsFiniteSet(Kept') /\ IsFiniteSet(KeptKeys')
         /\ Cardinality(Kept') \in Nat /\ Cardinality(KeptKeys') \in Nat
         /\ Cardinality(Kept) \in Nat /\ Cardinality(KeptKeys) \in Nat
         /\ Cardinality(Kept') + Cardinality(KeptKeys')
              <= Cardinality(Kept) + Cardinality(KeptKeys) + 1
<1> DEFINE d == Len(data)
           old == Tops(stack, root)
           new == Tops(stack', root')
           A == Kept
           B == KeptKeys
           C == Kept'
           D == KeptKeys'
<1>1. /\ Frames(stack') /\ Len(stack') = Len(below)
      /\ stack' # << >> => root' = << >>
  BY Delivered
<1>2. PICK p :
        \/ /\ new \subseteq Tops(below, << >>) \cup {item}
           /\ PlacedKeys(stack') \subseteq PlacedKeys(below)
        \/ /\ new \subseteq Tops(below, << >>)
           /\ PlacedKeys(stack') \subseteq PlacedKeys(below) \cup {p}
  BY Delivered
<1>3. A = Nodes(old, d) /\ B = PlacedKeys(stack)
  BY HeldIs
<1>4. C = Nodes(new, d) /\ D = PlacedKeys(stack')
  BY DEF Kept, KeptKeys, Tops, PlacedKeys
<1>5. KidsOf({}) \subseteq old
  BY DEF KidsOf
<1> HIDE DEF A, B, C, D, old, new, d
<1>6. d \in Nat /\ IsFiniteSet(A) /\ IsFiniteSet(B)
  BY DEF d, A, B
<1>7. \/ C \subseteq A \cup {item} /\ D \subseteq B
      \/ C \subseteq A /\ D \subseteq B \cup {p}
  <2>1. CASE new \subseteq old \cup {item} /\ PlacedKeys(stack') \subseteq PlacedKeys(stack)
    <3>1. Nodes(new, d) \subseteq Nodes(old, d) \cup {item}
      BY <1>6, <2>1, NodesGrow DEF old
    <3> QED
      BY <1>3, <1>4, <2>1, <3>1
  <2>2. CASE new \subseteq old /\ PlacedKeys(stack') \subseteq PlacedKeys(stack) \cup {p}
    <3>1. Nodes(new, d) \subseteq Nodes(old, d) \cup {}
      <4>1. new \subseteq old \cup {}
        BY <2>2
      <4> QED
        BY <1>5, <1>6, <4>1, NodesGrow
    <3> QED
      BY <1>3, <1>4, <2>2, <3>1
  <2> QED
    BY <1>2, <2>1, <2>2 DEF old
<1>8. /\ IsFiniteSet(C) /\ IsFiniteSet(D)
      /\ Cardinality(A) \in Nat /\ Cardinality(B) \in Nat
      /\ Cardinality(C) \in Nat /\ Cardinality(D) \in Nat
      /\ Cardinality(C) + Cardinality(D) <= Cardinality(A) + Cardinality(B) + 1
  <2>1. CASE C \subseteq A \cup {item} /\ D \subseteq B
    <3>1. /\ IsFiniteSet(C) /\ Cardinality(A) \in Nat /\ Cardinality(C) \in Nat
          /\ Cardinality(C) <= Cardinality(A) + 1
      BY <1>6, <2>1, OneMore
    <3>2. IsFiniteSet(D) /\ Cardinality(D) <= Cardinality(B)
      BY <1>6, <2>1, FS_Subset
    <3>3. Cardinality(B) \in Nat /\ Cardinality(D) \in Nat
      BY <1>6, <3>2, FS_CardinalityType
    <3> QED
      BY <3>1, <3>2, <3>3
  <2>2. CASE C \subseteq A /\ D \subseteq B \cup {p}
    <3>1. /\ IsFiniteSet(D) /\ Cardinality(B) \in Nat /\ Cardinality(D) \in Nat
          /\ Cardinality(D) <= Cardinality(B) + 1
      BY <1>6, <2>2, OneMore
    <3>2. IsFiniteSet(C) /\ Cardinality(C) <= Cardinality(A)
      BY <1>6, <2>2, FS_Subset
    <3>3. Cardinality(A) \in Nat /\ Cardinality(C) \in Nat
      BY <1>6, <3>2, FS_CardinalityType
    <3> QED
      BY <3>1, <3>2, <3>3
  <2> QED
    BY <1>7, <2>1, <2>2
<1> QED
  BY <1>1, <1>8 DEF A, B, C, D

(* The inductive invariant of a parse: its shape, and what it holds is at  *)
(* most the heads read, the activations counted with the items.            *)
ParserInv == ParserShape /\ NeverHoldsMoreThanAllowed

(* The activation on top, and what is below it.                            *)
LEMMA TopOff ==
  ASSUME ParserShape, stack # << >>
  PROVE  LET below == SubSeq(stack, 1, Len(stack) - 1)
         IN /\ Frames(below) /\ Len(below) = Len(stack) - 1 /\ Len(stack) \in Nat
            /\ Tops(below, << >>) \subseteq Tops(stack, root)
            /\ PlacedKeys(below) \subseteq PlacedKeys(stack)
            /\ \A h, s, e : KidsOf({Parser!Item(h, Parser!Top.kids, s, e)})
                              \subseteq Tops(stack, root)
<1> DEFINE f == SubSeq(stack, 1, Len(stack) - 1)
<1>1. Frames(stack) /\ IsRow(stack)
  BY DEF ParserShape, Frames
<1>2. /\ IsRow(f) /\ Len(f) = Len(stack) - 1
      /\ Len(stack) \in 1 .. Len(stack) /\ DOMAIN stack = 1 .. Len(stack)
      /\ \A i \in DOMAIN f : i \in DOMAIN stack /\ f[i] = stack[i]
  BY <1>1, RowFront
<1> HIDE DEF f
<1>3. Frames(f) /\ Len(stack) \in Nat
  BY <1>1, <1>2 DEF Frames, IsRow
<1>4. Tops(f, << >>) \subseteq Tops(stack, root)
  <2> SUFFICES ASSUME NEW x \in Tops(f, << >>) PROVE x \in Tops(stack, root)
    OBVIOUS
  <2>1. PICK i \in DOMAIN f : \E j \in DOMAIN f[i].kids : x = f[i].kids[j]
    BY DEF Tops, KidsOf
  <2>2. i \in DOMAIN stack /\ f[i] = stack[i]
    BY <1>2
  <2> QED
    BY <2>1, <2>2 DEF Tops, KidsOf
<1>5. PlacedKeys(f) \subseteq PlacedKeys(stack)
  BY <1>2 DEF PlacedKeys
<1>6. ASSUME NEW h, NEW s, NEW e
      PROVE  KidsOf({Parser!Item(h, Parser!Top.kids, s, e)})
               \subseteq Tops(stack, root)
  <2>1. Parser!Item(h, Parser!Top.kids, s, e).kids = stack[Len(stack)].kids
    BY DEF Parser!Item, Parser!Top
  <2>2. Len(stack) \in DOMAIN stack
    BY <1>2
  <2> QED
    BY <2>1, <2>2 DEF Tops, KidsOf
<1> QED
  BY <1>2, <1>3, <1>4, <1>5, <1>6 DEF f

(* Reading a head that opens an item adds an activation and nothing else.  *)
LEMMA Opened ==
  ASSUME ParserShape, NEW h, stack' = Append(stack, Parser!Frame(h)), root' = root,
         data' = data
  PROVE  /\ Frames(stack') /\ Len(stack') = Len(stack) + 1
         /\ Kept' = Kept /\ KeptKeys' = KeptKeys
         /\ Tops(stack', root') = Tops(stack, root)
<1> DEFINE f == Parser!Frame(h)
           t == Append(stack, f)
<1>1. Frames(stack) /\ IsRow(stack)
  BY DEF ParserShape, Frames
<1>2. f.kids = << >> /\ f.keys = {} /\ IsFrame(f)
  <2>1. f.kids = << >> /\ f.keys = {}
    BY DEF Parser!Frame
  <2>2. IsRow(<< >>)
    BY DEF IsRow
  <2>3. f = [head |-> f.head, start |-> f.start, left |-> f.left,
             kids |-> f.kids, read |-> f.read, keys |-> f.keys]
    BY DEF Parser!Frame
  <2> HIDE DEF f
  <2> QED
    BY <2>1, <2>2, <2>3 DEF IsFrame
<1> HIDE DEF f
<1>3. /\ IsRow(t) /\ Len(t) = Len(stack) + 1
      /\ \A i \in DOMAIN stack : t[i] = stack[i]
      /\ t[Len(stack) + 1] = f
  BY <1>1, RowAppend
<1> HIDE DEF t
<1>4. /\ DOMAIN stack \subseteq DOMAIN t /\ Len(stack) + 1 \in DOMAIN t
      /\ \A i \in DOMAIN t : i \in DOMAIN stack \/ i = Len(stack) + 1
  <2>1. DOMAIN stack = 1 .. Len(stack) /\ DOMAIN t = 1 .. Len(stack) + 1
        /\ Len(stack) \in Nat
    BY <1>1, <1>3 DEF IsRow
  <2> QED
    BY <2>1
<1>5. Frames(t)
  BY <1>1, <1>2, <1>3, <1>4 DEF Frames
<1>6. Tops(t, root) = Tops(stack, root)
  <2>1. ASSUME NEW x PROVE x \in KidsOf({t[i] : i \in DOMAIN t})
                             <=> x \in KidsOf({stack[i] : i \in DOMAIN stack})
    <3>1. x \in KidsOf({t[i] : i \in DOMAIN t})
            <=> \E i \in DOMAIN t : \E j \in DOMAIN t[i].kids : x = t[i].kids[j]
      BY DEF KidsOf
    <3>2. x \in KidsOf({stack[i] : i \in DOMAIN stack})
            <=> \E i \in DOMAIN stack : \E j \in DOMAIN stack[i].kids :
                  x = stack[i].kids[j]
      BY DEF KidsOf
    <3>3. \A i \in DOMAIN t : i \in DOMAIN stack \/ DOMAIN t[i].kids = {}
      BY <1>2, <1>3, <1>4
    <3> QED
      BY <1>3, <1>4, <3>1, <3>2, <3>3
  <2> QED
    BY <2>1 DEF Tops
<1>7. PlacedKeys(t) = PlacedKeys(stack)
  <2>1. \A i \in DOMAIN t : i \in DOMAIN stack \/ t[i].keys = {}
    BY <1>2, <1>3, <1>4
  <2> QED
    BY <1>3, <1>4, <2>1 DEF PlacedKeys
<1>8. stack' = t
  BY DEF t, f
<1>9. Kept = Nodes(Tops(stack, root), Len(data))
      /\ KeptKeys = PlacedKeys(stack)
  BY HeldIs
<1>10. Kept' = Nodes(Tops(stack', root'), Len(data'))
       /\ KeptKeys' = PlacedKeys(stack')
  BY DEF Kept, KeptKeys, Tops, PlacedKeys
<1> QED
  BY <1>3, <1>5, <1>6, <1>7, <1>8, <1>9, <1>10

(* Before the first byte nothing is held.                                  *)
LEMMA ParserStarts ==
  ASSUME Parser!CborConstants, Parser!Init PROVE ParserInv
<1>1. /\ limits \in LimitChoices \cup {DefaultLimits}
      /\ limits.max_depth \in Nat /\ limits.max_items \in Nat
  <2>1. limits \in LimitChoices \cup {DefaultLimits}
    BY DEF Parser!Init
  <2> QED
    BY <2>1 DEF Parser!CborConstants
<1>2. Len(data) \in Nat
  <2>1. PICK c \in Cases : data = c.data
    BY DEF Parser!Init
  <2>2. data \in Seq({data[i] : i \in DOMAIN data})
    BY <2>1 DEF Parser!CborConstants
  <2> QED
    BY <2>2
<1>3. stack = << >> /\ root = << >> /\ items = 0 /\ pos = 1
  BY DEF Parser!Init
<1>4. Frames(stack) /\ Len(stack) = 0
  BY <1>3 DEF Frames, IsRow
<1>5. Tops(stack, root) = {} /\ PlacedKeys(stack) = {}
  BY <1>3 DEF Tops, PlacedKeys, KidsOf
<1>6. Nodes({}, Len(data)) \subseteq {}
  <2>1. {} \subseteq {} \cup {} /\ KidsOf({}) \subseteq {}
    BY DEF KidsOf
  <2>2. PICK L : /\ Levels(L, {}, Len(data))
                 /\ Nodes({}, Len(data)) = UNION {L[k] : k \in 0 .. Len(data)}
    BY <1>2, NodesAre
  <2> DEFINE I == {k \in 0 .. Len(data) : L[k] = {}}
  <2>3. 0 \in I
    BY <1>2, <2>2 DEF Levels
  <2>4. ASSUME NEW k \in 0 .. Len(data) - 1, k \in I PROVE k + 1 \in I
    <3>1. k + 1 \in 1 .. Len(data) /\ (k + 1) - 1 = k
      BY <1>2
    <3>2. L[k + 1] = KidsOf({})
      BY <2>2, <2>4, <3>1 DEF Levels
    <3> QED
      BY <2>1, <3>1, <3>2
  <2>5. 0 .. Len(data) \subseteq I
    <3> HIDE DEF I
    <3> QED
      BY <1>2, <2>3, <2>4, UpInduct
  <2> QED
    BY <2>2, <2>5
<1>7. Kept = {} /\ KeptKeys = {}
  BY <1>5, <1>6, HeldIs
<1>8. IsFiniteSet({}) /\ Cardinality({}) = 0
  BY FS_EmptySet
<1>9. ParserShape
  BY <1>1, <1>2, <1>3, <1>4, <1>7, <1>8 DEF ParserShape
<1>10. NeverHoldsMoreThanAllowed
  <2>1. Held = 0
    <3> DEFINE k == Cardinality({})
    <3>1. /\ Held = Len(stack) + k + k /\ Len(stack) = 0
          /\ k = 0
      BY <1>4, <1>7, <1>8 DEF Held
    <3> HIDE DEF k
    <3> QED
      BY <3>1
  <2> QED
    BY <1>1, <1>3, <1>4, <2>1 DEF NeverHoldsMoreThanAllowed
<1> QED
  BY <1>9, <1>10 DEF ParserInv

(* No step holds more than the head it read pays for.                      *)
LEMMA ParserSteps ==
  ASSUME Parser!CborConstants, ParserInv, [Parser!Next]_(Parser!vars)
  PROVE  ParserInv'
<1> DEFINE n == Len(stack)
           a == Cardinality(Kept)
           b == Cardinality(KeptKeys)
<1>1. /\ ParserShape /\ NeverHoldsMoreThanAllowed
      /\ limits.max_depth \in Nat /\ limits.max_items \in Nat
      /\ n \in Nat /\ a \in Nat /\ b \in Nat /\ pos \in Nat /\ items \in Nat
      /\ n + a + b <= items /\ n <= limits.max_depth + 1
      /\ items <= limits.max_items /\ items < pos
  <2>1. ParserShape /\ NeverHoldsMoreThanAllowed
    BY DEF ParserInv
  <2>2. limits.max_depth \in Nat /\ limits.max_items \in Nat
    BY <2>1 DEF ParserShape, Parser!CborConstants
  <2>3. n \in Nat
    BY <2>1 DEF ParserShape, Frames, IsRow
  <2>4. a \in Nat /\ b \in Nat
    BY <2>1, FS_CardinalityType DEF ParserShape
  <2>5. pos \in Nat /\ items \in Nat
    BY <2>1 DEF ParserShape
  <2> QED
    BY <2>1, <2>2, <2>3, <2>4, <2>5
    DEF NeverHoldsMoreThanAllowed, Held
<1> DEFINE nn == Len(stack')
           aa == Cardinality(Kept')
           bb == Cardinality(KeptKeys')
<1>2. ASSUME data' = data, limits' = limits, pos' \in Nat, items' \in Nat,
             Frames(stack'), stack' = << >> \/ root' = << >>,
             IsFiniteSet(Kept'), IsFiniteSet(KeptKeys'),
             nn <= limits.max_depth + 1, nn + aa + bb <= items',
             items' <= limits.max_items, items' < pos'
      PROVE  ParserInv'
  <2>1. ParserShape'
    BY <1>1, <1>2 DEF ParserShape, Frames, IsFrame
  <2>2. NeverHoldsMoreThanAllowed'
    BY <1>2 DEF NeverHoldsMoreThanAllowed, Held
  <2> QED
    BY <2>1, <2>2 DEF ParserInv
<1>3. ASSUME UNCHANGED <<data, limits, pos, items, stack, root>> PROVE ParserInv'
  BY <1>3
  DEF ParserInv, ParserShape, NeverHoldsMoreThanAllowed, Held,
      Kept, KeptKeys, Frames, IsFrame
<1>4. CASE Parser!ReadHead
  <2>1. /\ n <= limits.max_depth /\ items < limits.max_items
        /\ pos' = pos + 1 /\ items' = items + 1 /\ data' = data /\ limits' = limits
        /\ root = << >>
    <3>1. stack # << >> => root = << >>
      BY <1>1 DEF ParserShape
    <3> QED
      BY <1>4, <3>1
      DEF Parser!ReadHead, Parser!HeadAllowed, Parser!MemberDue, Parser!input
  <2>2. CASE Parser!Opens(data[pos])
    <3>1. stack' = Append(stack, Parser!Frame(data[pos])) /\ root' = root
      BY <1>4, <2>2 DEF Parser!ReadHead
    <3>2. /\ Frames(stack') /\ Len(stack') = Len(stack) + 1
          /\ Kept' = Kept /\ KeptKeys' = KeptKeys
      BY <1>1, <2>1, <3>1, Opened
    <3>3. IsFiniteSet(Kept) /\ IsFiniteSet(KeptKeys)
      BY <1>1 DEF ParserShape
    <3>4. nn + aa + bb <= items' /\ nn <= limits.max_depth + 1
      <4>1. nn = n + 1 /\ aa = a /\ bb = b
        BY <3>2
      <4> HIDE DEF n, a, b, nn, aa, bb
      <4> QED
        BY <1>1, <2>1, <4>1
    <3>5. items' \in Nat /\ pos' \in Nat /\ items' <= limits.max_items /\ items' < pos'
      BY <1>1, <2>1
    <3> QED
      BY <1>2, <2>1, <3>1, <3>2, <3>3, <3>4, <3>5
  <2>3. CASE ~ Parser!Opens(data[pos])
    <3> DEFINE item == Parser!Item(data[pos], << >>, pos, pos + 1)
    <3>1. Parser!Deliver(item, stack)
      BY <1>4, <2>3 DEF Parser!ReadHead
    <3>2. KidsOf({item}) \subseteq Tops(stack, root)
      BY DEF KidsOf, Parser!Item
    <3>3. /\ Frames(stack) /\ Len(data) \in Nat
          /\ IsFiniteSet(Kept) /\ IsFiniteSet(KeptKeys)
          /\ Tops(stack, << >>) \subseteq Tops(stack, root)
      BY <1>1 DEF ParserShape, Tops
    <3> HIDE DEF item
    <3>4. /\ Frames(stack') /\ nn = n
          /\ stack' # << >> => root' = << >>
          /\ IsFiniteSet(Kept') /\ IsFiniteSet(KeptKeys')
          /\ aa \in Nat /\ bb \in Nat /\ aa + bb <= a + b + 1
      BY <2>1, <3>1, <3>2, <3>3, DeliveryGrows
    <3>5. /\ nn + aa + bb <= items' /\ nn <= limits.max_depth + 1
          /\ items' \in Nat /\ pos' \in Nat
          /\ items' <= limits.max_items /\ items' < pos'
      <4> HIDE DEF n, a, b, nn, aa, bb
      <4> QED
        BY <1>1, <2>1, <3>4
    <3> QED
      BY <1>2, <2>1, <3>4, <3>5
  <2> QED
    BY <2>2, <2>3
<1>5. ASSUME NEW h, NEW s, NEW e,
             Parser!Deliver(Parser!Item(h, Parser!Top.kids, s, e),
                            SubSeq(stack, 1, Len(stack) - 1)),
             stack # << >>, data' = data, limits' = limits, items' = items,
             pos' \in {pos, pos + 1}
      PROVE  ParserInv'
  <2> DEFINE item == Parser!Item(h, Parser!Top.kids, s, e)
             below == SubSeq(stack, 1, Len(stack) - 1)
  <2>1. /\ Frames(below) /\ Len(below) = n - 1
        /\ Tops(below, << >>) \subseteq Tops(stack, root)
        /\ PlacedKeys(below) \subseteq PlacedKeys(stack)
        /\ KidsOf({item}) \subseteq Tops(stack, root)
    BY <1>1, <1>5, TopOff
  <2>2. /\ root = << >> /\ Len(data) \in Nat
        /\ IsFiniteSet(Kept) /\ IsFiniteSet(KeptKeys)
    BY <1>1, <1>5 DEF ParserShape
  <2>3. Parser!Deliver(item, below)
    BY <1>5
  <2> HIDE DEF item, below
  <2>4. /\ Frames(stack') /\ nn = Len(below)
        /\ stack' # << >> => root' = << >>
        /\ IsFiniteSet(Kept') /\ IsFiniteSet(KeptKeys')
        /\ aa \in Nat /\ bb \in Nat /\ aa + bb <= a + b + 1
    BY <1>5, <2>1, <2>2, <2>3, DeliveryGrows
  <2>5. /\ nn + aa + bb <= items' /\ nn <= limits.max_depth + 1
        /\ items' \in Nat /\ pos' \in Nat
        /\ items' <= limits.max_items /\ items' < pos'
    <3>1. nn = n - 1
      BY <2>1, <2>4
    <3> HIDE DEF n, a, b, nn, aa, bb
    <3> QED
      BY <1>1, <1>5, <2>4, <3>1
  <2> QED
    BY <1>2, <1>5, <2>4, <2>5
<1>6. CASE Parser!ReadBreak
  BY <1>1, <1>5, <1>6 DEF Parser!ReadBreak, Parser!input
<1>7. CASE Parser!CloseCounted
  BY <1>1, <1>5, <1>7 DEF Parser!CloseCounted, Parser!input
<1>8. CASE Parser!RefuseHead \/ Parser!RefuseBreak \/ Parser!Return
  BY <1>3, <1>8
  DEF Parser!RefuseHead, Parser!RefuseBreak, Parser!Return, Parser!Fail,
      Parser!input
<1>9. CASE UNCHANGED Parser!vars
  BY <1>3, <1>9 DEF Parser!vars, Parser!input
<1> QED
  BY <1>4, <1>6, <1>7, <1>8, <1>9 DEF Parser!Next

(* The parser never holds more levels, nor more items, than the limits     *)
(* allow and the bytes it has read pay for, for all data, limits and kinds *)
(* of call (strict.rs:113-133).                                            *)
THEOREM ParserLimitsCorrect ==
  Parser!CborConstants => (Parser!Spec => []NeverHoldsMoreThanAllowed)
<1> SUFFICES ASSUME Parser!CborConstants
             PROVE  Parser!Spec => []NeverHoldsMoreThanAllowed
  OBVIOUS
<1>1. Parser!Init => ParserInv
  BY ParserStarts
<1>2. ParserInv /\ [Parser!Next]_(Parser!vars) => ParserInv'
  BY ParserSteps
<1>3. ParserInv => NeverHoldsMoreThanAllowed
  BY DEF ParserInv
<1> QED
  BY <1>1, <1>2, <1>3, PTL DEF Parser!Spec

-----------------------------------------------------------------------------
(* The grammar as a function of places: a position, and how many members   *)
(* are asked for from there on.                                            *)
Counts == Nat \cup {Open}
Places(d) == (1 .. Len(d) + 1) \X Counts
IsGrammar(F, d) == F = [at \in Places(d) |-> Rest(d, F, at[1], at[2])]
IsData(d) == Open \notin Nat /\ IsRow(d) /\ \A i \in DOMAIN d : IsHead(d[i])

(* What the grammar tells of one place.                                    *)
LEMMA GrammarAt ==
  ASSUME NEW d, NEW F, IsGrammar(F, d),
         NEW j \in 1 .. Len(d) + 1, NEW m \in Counts
  PROVE  F[<<j, m>>] = Rest(d, F, j, m)
<1>1. <<j, m>> \in Places(d) /\ <<j, m>>[1] = j /\ <<j, m>>[2] = m
  BY DEF Places
<1> QED
  BY <1>1 DEF IsGrammar

(* What a head calls for can be asked for.                                 *)
LEMMA MembersCount ==
  ASSUME NEW h, IsHead(h), Opens(h), Open \notin Nat
  PROVE  Members(h) \in Counts
<1>1. CASE h.k = "array"
  BY <1>1 DEF IsHead, Members, Counts
<1>2. CASE h.k = "map"
  <2>1. h.n \in Counts /\ Members(h) = IF h.n = Open THEN Open ELSE 2 * h.n
    BY <1>2 DEF IsHead, Members, Counts, Strings
  <2> QED
    BY <2>1 DEF Counts
<1>3. CASE h.k = "tag"
  BY <1>3 DEF Members, Counts, Strings
<1>4. CASE h.k \in Strings
  <2>1. h.n = Open /\ h.k # "array" /\ h.k # "map" /\ h.k # "tag"
    BY <1>4 DEF Opens, Strings, Containers
  <2>2. Members(h) = h.n
    BY <1>4, <2>1 DEF Members
  <2> QED
    BY <2>1, <2>2 DEF Counts
<1> QED
  BY <1>1, <1>2, <1>3, <1>4 DEF Opens, Containers

(* Two functions that tell the same of later positions, and of parses that *)
(* end where the data does or before.                                      *)
SameAfter(f, g, j, d) ==
  \A i \in j + 1 .. Len(d) + 1, m \in Counts :
    /\ f[<<i, m>>] = g[<<i, m>>]
    /\ \A r \in f[<<i, m>>] : r.end \in i .. Len(d) + 1

(* The item at a place depends on later places only.                       *)
LEMMA HereLooksAhead ==
  ASSUME NEW d, IsData(d), NEW j \in 1 .. Len(d) + 1, NEW f, NEW g,
         SameAfter(f, g, j, d)
  PROVE  /\ Here(d, f, j) = Here(d, g, j)
         /\ \A x \in Here(d, f, j) : x.end \in j + 1 .. Len(d) + 1
<1>1. Len(d) \in Nat /\ DOMAIN d = 1 .. Len(d)
  BY DEF IsData, IsRow
<1>2. CASE j > Len(d) \/ d[j].k \in {"break", "reserved"}
  BY <1>2 DEF Here
<1>3. CASE ~ (j > Len(d) \/ d[j].k \in {"break", "reserved"}) /\ ~ Opens(d[j])
  <2>1. Here(d, f, j) = {Alone(d[j], j)} /\ Here(d, g, j) = {Alone(d[j], j)}
    BY <1>3 DEF Here
  <2>2. Alone(d[j], j).end = j + 1 /\ j + 1 \in j + 1 .. Len(d) + 1
    BY <1>1, <1>3 DEF Alone
  <2> QED
    BY <2>1, <2>2
<1>4. CASE ~ (j > Len(d) \/ d[j].k \in {"break", "reserved"}) /\ Opens(d[j])
  <2> DEFINE n == Members(d[j])
             Admitted(F) == {s \in F[<<j + 1, n>>] : Fits(d, d[j], s)}
  <2>1. j + 1 \in j + 1 .. Len(d) + 1 /\ n \in Counts
    BY <1>1, <1>4, MembersCount DEF IsData
  <2>2. /\ Here(d, f, j) = {Around(d[j], r) : r \in Admitted(f)}
        /\ Here(d, g, j) = {Around(d[j], r) : r \in Admitted(g)}
    BY <1>4 DEF Here
  <2>3. f[<<j + 1, n>>] = g[<<j + 1, n>>]
        /\ \A r \in f[<<j + 1, n>>] : r.end \in j + 1 .. Len(d) + 1
    BY <2>1 DEF SameAfter
  <2>4. Admitted(f) = Admitted(g)
    BY <2>3
  <2>5. \A r : Around(d[j], r).end = r.end
    BY DEF Around
  <2> QED
    BY <2>2, <2>3, <2>4, <2>5
<1> QED
  BY <1>2, <1>3, <1>4

(* And so do the members from a place on.                                  *)
LEMMA RestLooksAhead ==
  ASSUME NEW d, IsData(d), NEW j \in 1 .. Len(d) + 1, NEW m \in Counts,
         NEW f, NEW g, SameAfter(f, g, j, d)
  PROVE  /\ Rest(d, f, j, m) = Rest(d, g, j, m)
         /\ \A r \in Rest(d, f, j, m) : r.end \in j .. Len(d) + 1
<1>1. Len(d) \in Nat /\ Open \notin Nat
  BY DEF IsData, IsRow
<1>2. \A i : NoMembers(i).end = i
  BY DEF NoMembers
<1>3. CASE m = 0
  BY <1>1, <1>2, <1>3 DEF Rest
<1>4. CASE m = Open /\ j <= Len(d) /\ d[j] = Break
  BY <1>1, <1>2, <1>4 DEF Rest
<1>5. CASE m # 0 /\ ~ (m = Open /\ j <= Len(d) /\ d[j] = Break)
  <2> DEFINE left == IF m = Open THEN Open ELSE m - 1
             More(F, x) == {Followed(j, x, r) : r \in F[<<x.end, left>>]}
  <2>1. /\ Rest(d, f, j, m) = UNION {More(f, x) : x \in Here(d, f, j)}
        /\ Rest(d, g, j, m) = UNION {More(g, x) : x \in Here(d, g, j)}
    BY <1>5 DEF Rest
  <2>2. left \in Counts
    BY <1>1, <1>5 DEF Counts
  <2>3. \A x, r : Followed(j, x, r).end = r.end
    BY DEF Followed
  <2> HIDE DEF left
  <2>4. Here(d, f, j) = Here(d, g, j)
        /\ \A x \in Here(d, f, j) : x.end \in j + 1 .. Len(d) + 1
    BY HereLooksAhead
  <2>5. ASSUME NEW x \in Here(d, f, j)
        PROVE  /\ More(f, x) = More(g, x)
               /\ \A r \in More(f, x) : r.end \in j .. Len(d) + 1
    <3>1. x.end \in j + 1 .. Len(d) + 1
      BY <2>4
    <3>2. /\ f[<<x.end, left>>] = g[<<x.end, left>>]
          /\ \A r \in f[<<x.end, left>>] : r.end \in x.end .. Len(d) + 1
      BY <2>2, <3>1 DEF SameAfter
    <3>3. \A e \in x.end .. Len(d) + 1 : e \in j .. Len(d) + 1
      BY <1>1, <3>1
    <3> QED
      BY <2>3, <3>2, <3>3
  <2> HIDE DEF More
  <2>6. {More(f, x) : x \in Here(d, f, j)} = {More(g, x) : x \in Here(d, g, j)}
    BY <2>4, <2>5
  <2> QED
    BY <2>1, <2>5, <2>6
<1> QED
  BY <1>3, <1>4, <1>5

(* A function that tells everything of the last k positions.               *)
Tells(f, k, d) ==
  /\ f = [at \in Places(d) |-> f[at]]
  /\ \A j \in 1 .. Len(d) + 1, m \in Counts : j > Len(d) + 1 - k =>
       /\ f[<<j, m>>] = Rest(d, f, j, m)
       /\ \A r \in f[<<j, m>>] : r.end \in j .. Len(d) + 1

(* So what is told of the last places can be told of one more.             *)
LEMMA TellsOneMore ==
  ASSUME NEW d, IsData(d), NEW k \in 0 .. Len(d), NEW f, Tells(f, k, d)
  PROVE  \E g : Tells(g, k + 1, d)
<1> DEFINE e == Len(d) + 1 - k
           g == [at \in Places(d) |-> IF at[1] = e THEN Rest(d, f, e, at[2])
                                                 ELSE f[at]]
<1>1. Len(d) \in Nat /\ e \in 1 .. Len(d) + 1
  BY DEF IsData, IsRow
<1>2. ASSUME NEW j \in 1 .. Len(d) + 1, NEW m \in Counts
      PROVE  g[<<j, m>>] = IF j = e THEN Rest(d, f, e, m) ELSE f[<<j, m>>]
  <2>1. <<j, m>> \in Places(d) /\ <<j, m>>[1] = j /\ <<j, m>>[2] = m
    BY DEF Places
  <2> HIDE DEF e
  <2> QED
    BY <2>1
<1>3. g = [at \in Places(d) |-> g[at]]
  OBVIOUS
<1> HIDE DEF g
<1>4. ASSUME NEW j \in 1 .. Len(d) + 1, NEW m \in Counts, j > Len(d) + 1 - (k + 1)
      PROVE  /\ g[<<j, m>>] = Rest(d, g, j, m)
             /\ \A r \in g[<<j, m>>] : r.end \in j .. Len(d) + 1
  <2>1. \A i \in j + 1 .. Len(d) + 1 :
          i \in 1 .. Len(d) + 1 /\ i # e /\ i > Len(d) + 1 - k
    BY <1>1, <1>4
  <2>2. SameAfter(f, g, j, d)
    BY <1>2, <2>1 DEF SameAfter, Tells
  <2>3. /\ Rest(d, f, j, m) = Rest(d, g, j, m)
        /\ \A r \in Rest(d, f, j, m) : r.end \in j .. Len(d) + 1
    BY <2>2, RestLooksAhead
  <2>4. g[<<j, m>>] = Rest(d, f, j, m)
    <3>1. CASE j = e
      BY <1>2, <3>1
    <3>2. CASE j # e
      <4>1. j > Len(d) + 1 - k
        BY <1>1, <1>4, <3>2
      <4> QED
        BY <1>2, <3>2, <4>1 DEF Tells
    <3> QED
      BY <3>1, <3>2
  <2> QED
    BY <2>3, <2>4
<1>5. Tells(g, k + 1, d)
  BY <1>3, <1>4 DEF Tells
<1> QED
  BY <1>5

(* ItemsOf is that function: its recursion has a solution.                 *)
LEMMA ItemsAreTheGrammar ==
  ASSUME NEW d, IsData(d)
  PROVE  IsGrammar(ItemsOf(d), d)
<1> DEFINE T == {k \in 0 .. Len(d) + 1 : \E f : Tells(f, k, d)}
           n == Len(d) + 1
<1>1. Len(d) \in Nat /\ n \in Nat
  BY DEF IsData, IsRow
<1>2. 0 \in T
  <2> DEFINE f == [at \in Places(d) |-> 0]
  <2>1. f = [at \in Places(d) |-> f[at]]
    OBVIOUS
  <2>2. Tells(f, 0, d)
    BY <1>1, <2>1 DEF Tells
  <2> QED
    BY <1>1, <2>2
<1>3. \A k \in 0 .. n - 1 : k \in T => k + 1 \in T
  <2> SUFFICES ASSUME NEW k \in 0 .. n - 1, k \in T PROVE k + 1 \in T
    OBVIOUS
  <2>1. k \in 0 .. Len(d) /\ k + 1 \in 0 .. Len(d) + 1
    BY <1>1
  <2>2. PICK f : Tells(f, k, d)
    OBVIOUS
  <2> QED
    BY <2>1, <2>2, TellsOneMore
<1>4. n \in T
  <2>1. 0 .. n \subseteq T
    <3> HIDE DEF T, n
    <3> QED
      BY <1>1, <1>2, <1>3, UpInduct
  <2>2. n \in 0 .. n
    BY <1>1
  <2> QED
    BY <2>1, <2>2
<1>5. PICK f : Tells(f, n, d)
  BY <1>4
<1>6. f = [at \in Places(d) |-> Rest(d, f, at[1], at[2])]
  <2>1. ASSUME NEW at \in Places(d) PROVE f[at] = Rest(d, f, at[1], at[2])
    <3>1. at[1] \in 1 .. Len(d) + 1 /\ at[2] \in Counts /\ at = <<at[1], at[2]>>
      BY DEF Places
    <3>2. at[1] > Len(d) + 1 - n
      BY <1>1, <3>1
    <3> QED
      BY <1>5, <3>1, <3>2 DEF Tells
  <2>2. f = [at \in Places(d) |-> f[at]]
    BY <1>5 DEF Tells
  <2> QED
    BY <2>1, <2>2
<1> DEFINE G == CHOOSE g : g = [at \in Places(d) |-> Rest(d, g, at[1], at[2])]
<1>7. G = [at \in Places(d) |-> Rest(d, G, at[1], at[2])]
  BY <1>6
<1>8. ItemsOf(d) = G
  BY DEF ItemsOf, Places, Counts
<1> HIDE DEF G
<1> QED
  BY <1>7, <1>8 DEF IsGrammar

-----------------------------------------------------------------------------
(* There is at most one parse, and it has the shape of one.                *)
Grammar(F, d) == IsData(d) /\ IsGrammar(F, d)
IsParse(r, j, d) == r.end \in j .. Len(d) + 1 /\ IsRow(r.vals) /\ r.height \in Nat
IsItem(x, j, d) == x.end \in j + 1 .. Len(d) + 1 /\ x.height \in Nat

(* A row with a member in front.                                           *)
LEMMA RowCons ==
  ASSUME NEW v, NEW s, IsRow(s)
  PROVE  LET t == <<v>> \o s
         IN /\ IsRow(t) /\ Len(t) = Len(s) + 1 /\ t[1] = v
            /\ \A i \in 1 .. Len(s) : t[i + 1] = s[i]
<1> DEFINE S == {s[i] : i \in DOMAIN s} \cup {v}
           t == <<v>> \o s
<1>1. s \in Seq(S) /\ <<v>> \in Seq(S) /\ Len(s) \in Nat
  <2>1. s \in [1 .. Len(s) -> S] /\ Len(s) \in Nat
    BY DEF IsRow
  <2> QED
    BY <2>1
<1> HIDE DEF S
<1>2. t \in Seq(S) /\ Len(t) = Len(s) + 1 /\ t[1] = v
      /\ \A i \in 1 .. Len(s) : t[i + 1] = s[i]
  BY <1>1
<1> HIDE DEF t
<1>3. Len(t) \in Nat /\ DOMAIN t = 1 .. Len(t) /\ t = [i \in 1 .. Len(t) |-> t[i]]
  BY <1>2
<1>4. IsRow(t)
  BY <1>3, RowOf
<1> QED
  BY <1>2, <1>4 DEF t

(* The rows of m members at j that start with x.                           *)
Left(m) == IF m = Open THEN Open ELSE m - 1
AtStop(d, j) == j <= Len(d) /\ d[j] = Break

(* One member less is a count again.                                       *)
LEMMA LeftCounts ==
  ASSUME NEW m \in Counts, m # 0, Open \notin Nat PROVE Left(m) \in Counts
BY DEF Counts, Left

(* How the members at a place begin.                                       *)
LEMMA Begins ==
  ASSUME NEW d, NEW F, Grammar(F, d), NEW j \in 1 .. Len(d) + 1, NEW m \in Counts,
         NEW r \in F[<<j, m>>]
  PROVE  \/ m = 0 /\ r = NoMembers(j)
         \/ m = Open /\ AtStop(d, j) /\ r = NoMembers(j + 1) /\ Here(d, F, j) = {}
         \/ /\ m # 0 /\ ~ (m = Open /\ AtStop(d, j)) /\ Left(m) \in Counts
            /\ \E x \in Here(d, F, j) : \E q \in F[<<x.end, Left(m)>>] : r = Followed(j, x, q)
<1>1. F[<<j, m>>] = Rest(d, F, j, m) /\ Open \notin Nat
  BY GrammarAt DEF Grammar, IsData
<1>2. CASE m = 0
  BY <1>1, <1>2 DEF Rest
<1>3. CASE m = Open /\ AtStop(d, j)
  <2>1. r = NoMembers(j + 1)
    BY <1>1, <1>3 DEF Rest, AtStop
  <2>2. Here(d, F, j) = {}
    BY <1>3 DEF Here, AtStop, Break, Lead
  <2> QED
    BY <1>3, <2>1, <2>2
<1>4. CASE m # 0 /\ ~ (m = Open /\ AtStop(d, j))
  <2>1. Rest(d, F, j, m) = UNION {{Followed(j, x, q) : q \in F[<<x.end, Left(m)>>]}
                                  : x \in Here(d, F, j)}
    BY <1>4 DEF Rest, AtStop, Left
  <2>2. PICK x \in Here(d, F, j) : r \in {Followed(j, x, q) : q \in F[<<x.end, Left(m)>>]}
    BY <1>1, <2>1
  <2>3. Left(m) \in Counts
    BY <1>1, <1>4, LeftCounts
  <2> QED
    BY <1>4, <2>2, <2>3
<1> QED
  BY <1>2, <1>3, <1>4

(* And how they can be made to begin.                                      *)
LEMMA BegunEmpty ==
  ASSUME NEW d, NEW F, Grammar(F, d), NEW j \in 1 .. Len(d) + 1
  PROVE  F[<<j, 0>>] = {NoMembers(j)}
<1>1. 0 \in Counts
  BY DEF Counts
<1>2. F[<<j, 0>>] = Rest(d, F, j, 0)
  BY <1>1, GrammarAt DEF Grammar
<1> QED
  BY <1>2 DEF Rest

(* A break ends an open count.                                             *)
LEMMA BegunStopped ==
  ASSUME NEW d, NEW F, Grammar(F, d), NEW j \in 1 .. Len(d) + 1, AtStop(d, j)
  PROVE  F[<<j, Open>>] = {NoMembers(j + 1)}
<1>1. Open \in Counts /\ Open # 0
  BY DEF Counts, Grammar, IsData
<1>2. F[<<j, Open>>] = Rest(d, F, j, Open)
  BY <1>1, GrammarAt DEF Grammar
<1> QED
  BY <1>1, <1>2 DEF Rest, AtStop

(* An item, and then the others.                                           *)
LEMMA BegunWith ==
  ASSUME NEW d, NEW F, Grammar(F, d), NEW j \in 1 .. Len(d) + 1,
         NEW m \in Counts, m # 0, NEW x \in Here(d, F, j),
         NEW q \in F[<<x.end, Left(m)>>]
  PROVE  Followed(j, x, q) \in F[<<j, m>>]
<1>1. F[<<j, m>>] = Rest(d, F, j, m)
  BY GrammarAt DEF Grammar
<1>2. ~ (m = Open /\ AtStop(d, j))
  BY DEF Here, AtStop, Break, Lead
<1> DEFINE More(y) == {Followed(j, y, p) : p \in F[<<y.end, Left(m)>>]}
<1>3. Rest(d, F, j, m) = UNION {More(y) : y \in Here(d, F, j)}
  BY <1>2 DEF Rest, AtStop, Left
<1>4. Followed(j, x, q) \in More(x)
  OBVIOUS
<1> HIDE DEF More
<1> QED
  BY <1>1, <1>3, <1>4

(* What is known of the parses at a place, and of the item there.          *)
KnownAt(F, d, j) ==
  \A m \in Counts : \A r \in F[<<j, m>>] :
    IsParse(r, j, d) /\ \A q \in F[<<j, m>>] : q = r
ItemKnown(F, d, j) ==
  \A x \in Here(d, F, j) : IsItem(x, j, d) /\ \A y \in Here(d, F, j) : y = x

(* One parse at every later place makes one item here.                     *)
LEMMA ItemFromLater ==
  ASSUME NEW d, NEW F, Grammar(F, d), NEW j \in 1 .. Len(d) + 1,
         \A i \in j + 1 .. Len(d) + 1 : KnownAt(F, d, i)
  PROVE  ItemKnown(F, d, j)
<1>1. Len(d) \in Nat /\ DOMAIN d = 1 .. Len(d)
  BY DEF Grammar, IsData, IsRow
<1>2. CASE j > Len(d) \/ d[j].k \in {"break", "reserved"}
  BY <1>2 DEF Here, ItemKnown
<1>3. CASE ~ (j > Len(d) \/ d[j].k \in {"break", "reserved"}) /\ ~ Opens(d[j])
  <2> DEFINE a == Alone(d[j], j)
  <2>1. Here(d, F, j) = {a}
    BY <1>3 DEF Here
  <2>2. IsItem(a, j, d)
    BY <1>1, <1>3 DEF Alone, IsItem
  <2> HIDE DEF a
  <2> QED
    BY <2>1, <2>2 DEF ItemKnown
<1>4. CASE ~ (j > Len(d) \/ d[j].k \in {"break", "reserved"}) /\ Opens(d[j])
  <2> DEFINE n == Members(d[j])
  <2>1. j + 1 \in j + 1 .. Len(d) + 1 /\ n \in Counts
    BY <1>1, <1>4, MembersCount DEF Grammar, IsData
  <2>2. \A x \in Here(d, F, j) : \E r \in F[<<j + 1, n>>] : x = Around(d[j], r)
    BY <1>4 DEF Here
  <2> HIDE DEF n
  <2>3. KnownAt(F, d, j + 1)
    BY <2>1
  <2>4. \A r \in F[<<j + 1, n>>] : IsItem(Around(d[j], r), j, d)
                                  /\ \A q \in F[<<j + 1, n>>] : q = r
    BY <2>1, <2>3 DEF KnownAt, IsParse, IsItem, Around
  <2> QED
    BY <2>2, <2>4 DEF ItemKnown
<1> QED
  BY <1>2, <1>3, <1>4

(* And one parse here.                                                     *)
LEMMA KnownFromLater ==
  ASSUME NEW d, NEW F, Grammar(F, d), NEW j \in 1 .. Len(d) + 1,
         \A i \in j + 1 .. Len(d) + 1 : KnownAt(F, d, i)
  PROVE  KnownAt(F, d, j)
<1>1. Len(d) \in Nat /\ Open \notin Nat
  BY DEF Grammar, IsData, IsRow
<1>2. ItemKnown(F, d, j)
  BY ItemFromLater
<1>3. ASSUME NEW i \in j .. Len(d) + 1 PROVE IsParse(NoMembers(i), j, d)
  <2>1. IsRow(<< >>)
    BY DEF IsRow
  <2> QED
    BY <2>1 DEF IsParse, NoMembers
<1>4. ASSUME NEW m \in Counts, NEW r \in F[<<j, m>>], NEW q \in F[<<j, m>>]
      PROVE  IsParse(r, j, d) /\ q = r
  <2>1. CASE m = 0
    <3>1. r = NoMembers(j) /\ q = NoMembers(j)
      <4>1. F[<<j, 0>>] = {NoMembers(j)}
        BY BegunEmpty
      <4>2. r \in F[<<j, 0>>] /\ q \in F[<<j, 0>>]
        BY <1>4, <2>1
      <4> QED
        BY <4>1, <4>2
    <3> QED
      BY <1>1, <1>3, <3>1
  <2>2. CASE m = Open /\ AtStop(d, j)
    <3>1. r = NoMembers(j + 1) /\ q = NoMembers(j + 1)
      <4>1. F[<<j, Open>>] = {NoMembers(j + 1)}
        BY <2>2, BegunStopped
      <4>2. r \in F[<<j, Open>>] /\ q \in F[<<j, Open>>]
        BY <1>4, <2>2
      <4> QED
        BY <4>1, <4>2
    <3>2. j + 1 \in j .. Len(d) + 1
      BY <1>1, <2>2 DEF AtStop
    <3> QED
      BY <1>3, <3>1, <3>2
  <2>3. CASE m # 0 /\ ~ (m = Open /\ AtStop(d, j))
    <3>1. Left(m) \in Counts
      BY <1>1, <2>3, LeftCounts
    <3>2. \E x \in Here(d, F, j) : \E a \in F[<<x.end, Left(m)>>] : r = Followed(j, x, a)
      BY <2>3, Begins
    <3>3. \E x \in Here(d, F, j) : \E a \in F[<<x.end, Left(m)>>] : q = Followed(j, x, a)
      BY <2>3, Begins
    <3>0. PICK x \in Here(d, F, j) :
            \E a \in F[<<x.end, Left(m)>>] : r = Followed(j, x, a)
      BY <3>2
    <3>4. PICK a \in F[<<x.end, Left(m)>>] : r = Followed(j, x, a)
      BY <3>0
    <3>5. PICK b : b \in F[<<x.end, Left(m)>>] /\ q = Followed(j, x, b)
      BY <1>2, <3>3 DEF ItemKnown
    <3>6. IsItem(x, j, d) /\ KnownAt(F, d, x.end)
      BY <1>2 DEF ItemKnown, IsItem
    <3>7. IsParse(a, x.end, d) /\ b = a
      BY <3>1, <3>4, <3>5, <3>6 DEF KnownAt
    <3>8. IsRow(<<x.val>> \o a.vals)
      BY <3>7, RowCons DEF IsParse
    <3>9. IsParse(Followed(j, x, a), j, d)
      BY <1>1, <3>6, <3>7, <3>8 DEF IsParse, IsItem, Followed
    <3> QED
      BY <3>4, <3>5, <3>7, <3>9
  <2> QED
    BY <2>1, <2>2, <2>3
<1> QED
  BY <1>4 DEF KnownAt

(* So there is at most one parse at every place, and one item.             *)
LEMMA OneParse ==
  ASSUME NEW d, NEW F, Grammar(F, d)
  PROVE  \A j \in 1 .. Len(d) + 1 : KnownAt(F, d, j) /\ ItemKnown(F, d, j)
<1> DEFINE n == Len(d) + 1
           T == {k \in 0 .. n : \A j \in 1 .. n : j > n - k => KnownAt(F, d, j)}
<1>1. Len(d) \in Nat /\ n \in Nat
  BY DEF Grammar, IsData, IsRow
<1>2. 0 \in T
  BY <1>1
<1>3. \A k \in 0 .. n - 1 : k \in T => k + 1 \in T
  <2> SUFFICES ASSUME NEW k \in 0 .. n - 1, k \in T PROVE k + 1 \in T
    OBVIOUS
  <2>1. ASSUME NEW j \in 1 .. n, j > n - (k + 1) PROVE KnownAt(F, d, j)
    <3>1. \A i \in j + 1 .. n : i \in 1 .. n /\ i > n - k
      BY <1>1, <2>1
    <3>2. \A i \in j + 1 .. Len(d) + 1 : KnownAt(F, d, i)
      BY <3>1
    <3> QED
      BY <3>2, KnownFromLater
  <2>2. k + 1 \in 0 .. n
    BY <1>1
  <2> QED
    BY <2>1, <2>2
<1>4. n \in T
  <2>1. 0 .. n \subseteq T
    <3> HIDE DEF T, n
    <3> QED
      BY <1>1, <1>2, <1>3, UpInduct
  <2>2. n \in 0 .. n
    BY <1>1
  <2> QED
    BY <2>1, <2>2
<1>5. ASSUME NEW j \in 1 .. n PROVE KnownAt(F, d, j)
  <2>1. j > n - n
    BY <1>1
  <2> QED
    BY <1>4, <2>1
<1>6. ASSUME NEW j \in 1 .. Len(d) + 1 PROVE KnownAt(F, d, j) /\ ItemKnown(F, d, j)
  <2>1. \A i \in j + 1 .. Len(d) + 1 : i \in 1 .. n
    BY <1>1
  <2>2. \A i \in j + 1 .. Len(d) + 1 : KnownAt(F, d, i)
    BY <1>5, <2>1
  <2> QED
    BY <1>5, <2>2, ItemFromLater
<1> QED
  BY <1>6

-----------------------------------------------------------------------------
(* Parts of a parse.                                                       *)
Reaches(m, k) == m = Open \/ k <= m

(* Two parses from one place begin with the same item.                     *)
StartsWith(F, d, j, k, m, a, c, x, p, q) ==
  /\ x \in Here(d, F, j) /\ x.end \in 1 .. Len(d) + 1 /\ IsItem(x, j, d)
  /\ p \in F[<<x.end, k>>] /\ a = Followed(j, x, p)
  /\ q \in F[<<x.end, Left(m)>>] /\ c = Followed(j, x, q)

(* Two parses from one place start with the same item.                     *)
LEMMA SameStart ==
  ASSUME NEW d, NEW F, Grammar(F, d), NEW j \in 1 .. Len(d) + 1, NEW k \in Nat,
         NEW m \in Counts, Reaches(m, k + 1),
         NEW a \in F[<<j, k + 1>>], NEW c \in F[<<j, m>>]
  PROVE  /\ Left(m) \in Counts /\ Reaches(Left(m), k)
         /\ \E x, p, q : StartsWith(F, d, j, k, m, a, c, x, p, q)
<1>1. Open \notin Nat /\ Len(d) \in Nat
  BY DEF Grammar, IsData, IsRow
<1>2. k + 1 \in Counts /\ k + 1 # Open /\ k + 1 # 0 /\ Left(k + 1) = k
  <2>1. k + 1 \in Nat /\ k + 1 # Open
    BY <1>1
  <2> QED
    BY <2>1 DEF Counts, Left
<1>0. PICK x \in Here(d, F, j) : \E p \in F[<<x.end, k>>] : a = Followed(j, x, p)
  BY <1>2, Begins
<1>3. PICK p \in F[<<x.end, k>>] : a = Followed(j, x, p)
  BY <1>0
<1>4. m # 0 /\ Left(m) \in Counts /\ Reaches(Left(m), k)
  <2>1. m # 0
    BY <1>1 DEF Reaches
  <2>2. Left(m) \in Counts
    BY <1>1, <2>1, LeftCounts
  <2> QED
    BY <1>1, <2>1, <2>2 DEF Reaches, Left, Counts
<1>5. \E y \in Here(d, F, j) : \E q \in F[<<y.end, Left(m)>>] : c = Followed(j, y, q)
  BY <1>3, <1>4, Begins
<1>6. ItemKnown(F, d, j)
  BY OneParse
<1>7. PICK q : q \in F[<<x.end, Left(m)>>] /\ c = Followed(j, x, q)
  BY <1>5, <1>6 DEF ItemKnown
<1>8. IsItem(x, j, d) /\ x.end \in 1 .. Len(d) + 1
  BY <1>6 DEF ItemKnown, IsItem
<1> QED
  BY <1>3, <1>4, <1>7, <1>8 DEF StartsWith

Prefix(a, c) ==
  /\ Len(a.vals) <= Len(c.vals)
  /\ \A i \in 1 .. Len(a.vals) : c.vals[i] = a.vals[i]
  /\ a.heads \subseteq c.heads /\ a.height <= c.height
  /\ a.repeats => c.repeats

(* The first k members are the beginning of more.                          *)
BeginsMore(F, d, k) ==
  \A j \in 1 .. Len(d) + 1, m \in Counts :
    \A a \in F[<<j, k>>], c \in F[<<j, m>>] :
      Reaches(m, k) => Len(a.vals) = k /\ Prefix(a, c)

(* One member more, still the beginning.                                   *)
LEMMA BeginsMoreStep ==
  ASSUME NEW d, NEW F, Grammar(F, d), NEW k \in Nat, BeginsMore(F, d, k)
  PROVE  BeginsMore(F, d, k + 1)
<1> SUFFICES ASSUME NEW j \in 1 .. Len(d) + 1, NEW m \in Counts,
                    NEW a \in F[<<j, k + 1>>], NEW c \in F[<<j, m>>],
                    Reaches(m, k + 1)
             PROVE  Len(a.vals) = k + 1 /\ Prefix(a, c)
  BY DEF BeginsMore
<1>1. Left(m) \in Counts /\ Reaches(Left(m), k)
  BY SameStart
<1> PICK x, p, q : StartsWith(F, d, j, k, m, a, c, x, p, q)
  BY SameStart
<1>2. /\ x.end \in 1 .. Len(d) + 1 /\ IsItem(x, j, d)
      /\ p \in F[<<x.end, k>>] /\ a = Followed(j, x, p)
      /\ q \in F[<<x.end, Left(m)>>] /\ c = Followed(j, x, q)
  BY DEF StartsWith
<1>3. Len(p.vals) = k /\ Prefix(p, q)
  <2> DEFINE e == x.end
             l == Left(m)
  <2>1. /\ e \in 1 .. Len(d) + 1 /\ l \in Counts /\ Reaches(l, k)
        /\ p \in F[<<e, k>>] /\ q \in F[<<e, l>>]
    BY <1>1, <1>2
  <2> HIDE DEF e, l
  <2> QED
    BY <2>1 DEF BeginsMore
<1>4. IsParse(p, x.end, d) /\ IsParse(q, x.end, d)
  <2>1. KnownAt(F, d, x.end) /\ k \in Counts
    BY <1>2, OneParse DEF Counts
  <2>2. IsParse(p, x.end, d)
    BY <1>2, <2>1 DEF KnownAt
  <2>3. IsParse(q, x.end, d)
    BY <1>1, <1>2, <2>1 DEF KnownAt
  <2> QED
    BY <2>2, <2>3
<1> DEFINE s == <<x.val>> \o p.vals
           t == <<x.val>> \o q.vals
<1>5. /\ IsRow(s) /\ Len(s) = Len(p.vals) + 1 /\ s[1] = x.val
      /\ \A i \in 1 .. Len(p.vals) : s[i + 1] = p.vals[i]
  BY <1>4, RowCons DEF IsParse
<1>6. /\ IsRow(t) /\ Len(t) = Len(q.vals) + 1 /\ t[1] = x.val
      /\ \A i \in 1 .. Len(q.vals) : t[i + 1] = q.vals[i]
  BY <1>4, RowCons DEF IsParse
<1>7. a.vals = s /\ c.vals = t
  BY <1>2 DEF Followed
<1> HIDE DEF s, t
<1>8. Len(p.vals) \in Nat /\ Len(q.vals) \in Nat /\ Len(p.vals) <= Len(q.vals)
  BY <1>3, <1>4 DEF IsParse, IsRow, Prefix
<1>9. \A i \in 1 .. Len(s) : t[i] = s[i]
  <2> SUFFICES ASSUME NEW i \in 1 .. Len(s) PROVE t[i] = s[i]
    OBVIOUS
  <2>1. CASE i = 1
    BY <1>5, <1>6, <2>1
  <2>2. CASE i # 1
    <3>1. i - 1 \in 1 .. Len(p.vals) /\ i - 1 \in 1 .. Len(q.vals) /\ (i - 1) + 1 = i
      BY <1>5, <1>8, <2>2
    <3>2. s[i] = p.vals[i - 1] /\ t[i] = q.vals[i - 1]
      BY <1>5, <1>6, <3>1
    <3> QED
      BY <1>3, <3>1, <3>2 DEF Prefix
  <2> QED
    BY <2>1, <2>2
<1>10. a.heads \subseteq c.heads /\ a.height <= c.height /\ (a.repeats => c.repeats)
  <2>1. /\ p.heads \subseteq q.heads /\ p.height <= q.height /\ (p.repeats => q.repeats)
        /\ p.height \in Nat /\ q.height \in Nat /\ x.height \in Nat
    BY <1>2, <1>3, <1>4 DEF Prefix, IsParse, IsItem
  <2>2. /\ a.heads = {j} \cup p.heads /\ c.heads = {j} \cup q.heads
        /\ a.height = (IF x.height >= p.height THEN x.height + 1 ELSE p.height)
        /\ c.height = (IF x.height >= q.height THEN x.height + 1 ELSE q.height)
    BY <1>2 DEF Followed
  <2>3. a.repeats => c.repeats
    BY <1>2, <2>1 DEF Followed
  <2> QED
    BY <2>1, <2>2, <2>3
<1>11. Len(s) <= Len(t) /\ Len(s) = k + 1
  BY <1>3, <1>5, <1>6, <1>8
<1> QED
  BY <1>7, <1>9, <1>10, <1>11 DEF Prefix

(* So it is for every number of members.                                   *)
LEMMA MembersBegin ==
  ASSUME NEW d, NEW F, Grammar(F, d), NEW k \in Nat
  PROVE  BeginsMore(F, d, k)
<1> DEFINE T == {i \in 0 .. k : BeginsMore(F, d, i)}
<1>1. 0 \in T
  <2>1. ASSUME NEW j \in 1 .. Len(d) + 1, NEW m \in Counts,
               NEW a \in F[<<j, 0>>], NEW c \in F[<<j, m>>]
        PROVE  Len(a.vals) = 0 /\ Prefix(a, c)
    <3>1. a = NoMembers(j)
      BY BegunEmpty
    <3>2. KnownAt(F, d, j)
      BY OneParse
    <3>3. IsRow(c.vals) /\ c.height \in Nat
      BY <3>2 DEF KnownAt, IsParse
    <3> QED
      BY <3>1, <3>3 DEF NoMembers, Prefix, IsRow
  <2> QED
    BY <2>1 DEF BeginsMore
<1>2. \A i \in 0 .. k - 1 : i \in T => i + 1 \in T
  <2> SUFFICES ASSUME NEW i \in 0 .. k - 1, i \in T PROVE i + 1 \in T
    OBVIOUS
  <2>1. BeginsMore(F, d, i) /\ i \in Nat /\ i + 1 \in 0 .. k
    OBVIOUS
  <2>2. BeginsMore(F, d, i + 1)
    BY <2>1, BeginsMoreStep
  <2> QED
    BY <2>1, <2>2
<1>3. 0 .. k \subseteq T
  <2> HIDE DEF T
  <2> QED
    BY <1>1, <1>2, UpInduct
<1> QED
  BY <1>3

(* A parse with one more member behind.                                    *)
Extends(b, a, x) ==
  /\ b.end = x.end /\ b.heads = a.heads \cup {a.end}
  /\ b.height = IF x.height >= a.height THEN x.height + 1 ELSE a.height
  /\ b.repeats => a.repeats \/ x.repeats
  /\ Len(b.vals) = Len(a.vals) + 1 /\ b.vals[Len(a.vals) + 1] = x.val
  /\ \A i \in 1 .. Len(a.vals) : b.vals[i] = a.vals[i]
TakesOneMore(F, d, k) ==
  \A j \in 1 .. Len(d) + 1 : \A a \in F[<<j, k>>] :
    \A x \in Here(d, F, a.end) : \E b \in F[<<j, k + 1>>] : Extends(b, a, x)

(* A member behind the others is behind them with one in front, too.       *)
LEMMA ExtendsBehind ==
  ASSUME NEW j, NEW y, NEW p, NEW q, NEW x, Extends(q, p, x),
         IsRow(p.vals), IsRow(q.vals), p.height \in Nat, y.height \in Nat,
         x.height \in Nat
  PROVE  Extends(Followed(j, y, q), Followed(j, y, p), x)
<1> DEFINE s == <<y.val>> \o p.vals
           t == <<y.val>> \o q.vals
           a == Followed(j, y, p)
           b == Followed(j, y, q)
<1>1. /\ Len(s) = Len(p.vals) + 1 /\ s[1] = y.val
      /\ \A i \in 1 .. Len(p.vals) : s[i + 1] = p.vals[i]
  BY RowCons
<1>2. /\ Len(t) = Len(q.vals) + 1 /\ t[1] = y.val
      /\ \A i \in 1 .. Len(q.vals) : t[i + 1] = q.vals[i]
  BY RowCons
<1>3. /\ a.end = p.end /\ a.vals = s /\ a.heads = {j} \cup p.heads
      /\ a.height = (IF y.height >= p.height THEN y.height + 1 ELSE p.height)
      /\ (a.repeats <=> y.repeats \/ p.repeats)
  BY DEF Followed
<1>4. /\ b.end = q.end /\ b.vals = t /\ b.heads = {j} \cup q.heads
      /\ b.height = (IF y.height >= q.height THEN y.height + 1 ELSE q.height)
      /\ (b.repeats <=> y.repeats \/ q.repeats)
  BY DEF Followed
<1> HIDE DEF s, t, a, b
<1>5. Len(p.vals) \in Nat /\ Len(q.vals) = Len(p.vals) + 1
  BY DEF IsRow, Extends
<1>6. t[Len(s) + 1] = x.val
  <2>1. Len(p.vals) + 1 \in 1 .. Len(q.vals)
    BY <1>5
  <2>2. t[(Len(p.vals) + 1) + 1] = q.vals[Len(p.vals) + 1]
    BY <1>2, <2>1
  <2> QED
    BY <1>1, <2>2 DEF Extends
<1>7. \A i \in 1 .. Len(s) : t[i] = s[i]
  <2> SUFFICES ASSUME NEW i \in 1 .. Len(s) PROVE t[i] = s[i]
    OBVIOUS
  <2>1. CASE i = 1
    BY <1>1, <1>2, <2>1
  <2>2. CASE i # 1
    <3>1. i - 1 \in 1 .. Len(p.vals) /\ i - 1 \in 1 .. Len(q.vals) /\ (i - 1) + 1 = i
      BY <1>1, <1>5, <2>2
    <3>2. s[i] = p.vals[i - 1] /\ t[i] = q.vals[i - 1]
      BY <1>1, <1>2, <3>1
    <3> QED
      BY <3>1, <3>2 DEF Extends
  <2> QED
    BY <2>1, <2>2
<1>8. b.height = IF x.height >= a.height THEN x.height + 1 ELSE a.height
  <2>1. q.height = IF x.height >= p.height THEN x.height + 1 ELSE p.height
    BY DEF Extends
  <2> QED
    BY <1>3, <1>4, <2>1
<1>9. b.repeats => a.repeats \/ x.repeats
  BY <1>3, <1>4 DEF Extends
<1>10. b.end = x.end /\ b.heads = a.heads \cup {a.end}
  BY <1>3, <1>4 DEF Extends
<1>11. Len(t) = Len(s) + 1
  BY <1>1, <1>2, <1>5
<1>12. Extends(b, a, x)
  BY <1>3, <1>4, <1>6, <1>7, <1>8, <1>9, <1>10, <1>11 DEF Extends
<1> QED
  BY <1>12 DEF a, b

(* One member more in front.                                               *)
LEMMA TakesOneMoreStep ==
  ASSUME NEW d, NEW F, Grammar(F, d), NEW k \in Nat, TakesOneMore(F, d, k)
  PROVE  TakesOneMore(F, d, k + 1)
<1> SUFFICES ASSUME NEW j \in 1 .. Len(d) + 1, NEW a \in F[<<j, k + 1>>],
                    NEW x \in Here(d, F, a.end)
             PROVE  \E b \in F[<<j, k + 1 + 1>>] : Extends(b, a, x)
  BY DEF TakesOneMore
<1>1. /\ Open \notin Nat /\ k \in Counts /\ k + 1 \in Counts /\ k + 1 + 1 \in Counts
      /\ k + 1 + 1 # 0 /\ Left(k + 1) = k /\ Left(k + 1 + 1) = k + 1
      /\ Reaches(k + 1, k + 1)
  <2>1. Open \notin Nat /\ k + 1 \in Nat /\ k + 1 + 1 \in Nat
    BY DEF Grammar, IsData
  <2> QED
    BY <2>1 DEF Counts, Left, Reaches
<1> PICK y, p, q : StartsWith(F, d, j, k, k + 1, a, a, y, p, q)
  BY <1>1, SameStart
<1>2. /\ y \in Here(d, F, j) /\ y.end \in 1 .. Len(d) + 1 /\ IsItem(y, j, d)
      /\ p \in F[<<y.end, k>>] /\ a = Followed(j, y, p)
  BY DEF StartsWith
<1>3. a.end = p.end
  BY <1>2 DEF Followed
<1>4. PICK b \in F[<<y.end, k + 1>>] : Extends(b, p, x)
  BY <1>2, <1>3 DEF TakesOneMore
<1>5. IsParse(p, y.end, d) /\ IsParse(b, y.end, d)
  <2>1. KnownAt(F, d, y.end)
    BY <1>2, OneParse
  <2>2. IsParse(p, y.end, d)
    BY <1>1, <1>2, <2>1 DEF KnownAt
  <2>3. IsParse(b, y.end, d)
    BY <1>1, <1>4, <2>1 DEF KnownAt
  <2> QED
    BY <2>2, <2>3
<1>6. x.height \in Nat /\ y.height \in Nat
  <2>1. a.end \in 1 .. Len(d) + 1
    BY <1>2, <1>3, <1>5 DEF IsParse
  <2>2. ItemKnown(F, d, a.end)
    BY <2>1, OneParse
  <2> QED
    BY <1>2, <2>2 DEF ItemKnown, IsItem
<1>7. Extends(Followed(j, y, b), a, x)
  BY <1>2, <1>4, <1>5, <1>6, ExtendsBehind DEF IsParse
<1>8. Followed(j, y, b) \in F[<<j, k + 1 + 1>>]
  BY <1>1, <1>2, <1>4, BegunWith
<1> QED
  BY <1>7, <1>8

(* So it is for every number of members.                                   *)
LEMMA OneMoreBehind ==
  ASSUME NEW d, NEW F, Grammar(F, d), NEW k \in Nat
  PROVE  TakesOneMore(F, d, k)
<1> DEFINE T == {i \in 0 .. k : TakesOneMore(F, d, i)}
<1>1. 0 \in T
  <2>1. ASSUME NEW j \in 1 .. Len(d) + 1, NEW a \in F[<<j, 0>>],
               NEW x \in Here(d, F, a.end)
        PROVE  \E b \in F[<<j, 0 + 1>>] : Extends(b, a, x)
    <3>1. a = NoMembers(j) /\ a.end = j
      <4>1. a = NoMembers(j)
        BY BegunEmpty
      <4> QED
        BY <4>1 DEF NoMembers
    <3>2. IsItem(x, j, d)
      BY <3>1, OneParse DEF ItemKnown
    <3>3. x.end \in 1 .. Len(d) + 1 /\ x.height \in Nat
      BY <3>2 DEF IsItem
    <3> DEFINE b == Followed(j, x, NoMembers(x.end))
    <3>4. b \in F[<<j, 1>>]
      <4>1. NoMembers(x.end) \in F[<<x.end, 0>>]
        BY <3>3, BegunEmpty
      <4>2. 1 \in Counts /\ 1 # 0 /\ Left(1) = 0
        <5>1. Open \notin Nat
          BY DEF Grammar, IsData
        <5> QED
          BY <5>1 DEF Counts, Left
      <4>3. x \in Here(d, F, j)
        BY <3>1
      <4> QED
        BY <4>1, <4>2, <4>3, BegunWith
    <3>5. Extends(b, a, x)
      <4> DEFINE t == <<x.val>> \o << >>
      <4>1. Len(t) = 1 /\ t[1] = x.val
        OBVIOUS
      <4> DEFINE z == NoMembers(x.end)
      <4>4. /\ z.end = x.end /\ z.vals = << >> /\ z.height = 0 /\ z.heads = {}
            /\ z.repeats = FALSE
        BY DEF NoMembers
      <4>5. /\ b.end = z.end /\ b.vals = <<x.val>> \o z.vals /\ b.heads = {j} \cup z.heads
            /\ b.height = (IF x.height >= z.height THEN x.height + 1 ELSE z.height)
            /\ (b.repeats => x.repeats \/ z.repeats)
        BY DEF Followed
      <4> HIDE DEF z
      <4>2. b.vals = t /\ b.end = x.end /\ b.heads = {j} /\ b.height = x.height + 1
            /\ (b.repeats => x.repeats)
        BY <3>3, <4>4, <4>5
      <4>3. a.vals = << >> /\ Len(a.vals) = 0 /\ a.heads = {} /\ a.height = 0
        BY <3>1 DEF NoMembers
      <4> HIDE DEF t, b
      <4> QED
        BY <3>1, <3>3, <4>1, <4>2, <4>3 DEF Extends
    <3> QED
      BY <3>4, <3>5
  <2> QED
    BY <2>1 DEF TakesOneMore
<1>2. \A i \in 0 .. k - 1 : i \in T => i + 1 \in T
  <2> SUFFICES ASSUME NEW i \in 0 .. k - 1, i \in T PROVE i + 1 \in T
    OBVIOUS
  <2>1. TakesOneMore(F, d, i) /\ i \in Nat /\ i + 1 \in 0 .. k
    OBVIOUS
  <2>2. TakesOneMore(F, d, i + 1)
    BY <2>1, TakesOneMoreStep
  <2> QED
    BY <2>1, <2>2
<1>3. 0 .. k \subseteq T
  <2> HIDE DEF T
  <2> QED
    BY <1>1, <1>2, UpInduct
<1> QED
  BY <1>3

(* A parse that is not the whole of another goes on with an item.          *)
GoesOn(F, d, a, c) ==
  \E x \in Here(d, F, a.end) :
    x.height < c.height /\ (x.repeats => c.repeats) /\ a.end \in c.heads
LacksMore(F, d, k) ==
  \A j \in 1 .. Len(d) + 1, m \in Counts :
    \A a \in F[<<j, k>>], c \in F[<<j, m>>] :
      Reaches(m, k) /\ m # k /\ ~ (m = Open /\ AtStop(d, a.end)) => GoesOn(F, d, a, c)

(* One member more in front.                                               *)
LEMMA LacksMoreStep ==
  ASSUME NEW d, NEW F, Grammar(F, d), NEW k \in Nat, LacksMore(F, d, k)
  PROVE  LacksMore(F, d, k + 1)
<1> SUFFICES ASSUME NEW j \in 1 .. Len(d) + 1, NEW m \in Counts,
                    NEW a \in F[<<j, k + 1>>], NEW c \in F[<<j, m>>],
                    Reaches(m, k + 1), m # k + 1, ~ (m = Open /\ AtStop(d, a.end))
             PROVE  GoesOn(F, d, a, c)
  BY DEF LacksMore
<1>1. Left(m) \in Counts /\ Reaches(Left(m), k)
  BY SameStart
<1> PICK y, p, q : StartsWith(F, d, j, k, m, a, c, y, p, q)
  BY SameStart
<1>2. /\ y.end \in 1 .. Len(d) + 1 /\ IsItem(y, j, d)
      /\ p \in F[<<y.end, k>>] /\ a = Followed(j, y, p)
      /\ q \in F[<<y.end, Left(m)>>] /\ c = Followed(j, y, q)
  BY DEF StartsWith
<1>3. a.end = p.end
  BY <1>2 DEF Followed
<1>4. Left(m) # k /\ (Left(m) = Open => m = Open)
  <2>1. Open \notin Nat
    BY DEF Grammar, IsData
  <2> QED
    BY <2>1 DEF Left, Reaches, Counts
<1>5. GoesOn(F, d, p, q)
  <2> DEFINE e == y.end
             l == Left(m)
  <2>1. /\ e \in 1 .. Len(d) + 1 /\ l \in Counts /\ Reaches(l, k) /\ l # k
        /\ p \in F[<<e, k>>] /\ q \in F[<<e, l>>]
        /\ ~ (l = Open /\ AtStop(d, p.end))
    BY <1>1, <1>2, <1>3, <1>4
  <2> HIDE DEF e, l
  <2> QED
    BY <2>1 DEF LacksMore
<1>6. PICK x \in Here(d, F, p.end) :
        x.height < q.height /\ (x.repeats => q.repeats) /\ p.end \in q.heads
  BY <1>5 DEF GoesOn
<1>7. /\ c.height = (IF y.height >= q.height THEN y.height + 1 ELSE q.height)
      /\ (q.repeats => c.repeats) /\ q.heads \subseteq c.heads
  BY <1>2 DEF Followed
<1>8. q.height \in Nat /\ y.height \in Nat /\ x.height \in Nat
  <2>1. KnownAt(F, d, y.end)
    BY <1>2, OneParse
  <2>2. IsParse(q, y.end, d)
    BY <1>1, <1>2, <2>1 DEF KnownAt
  <2>3. IsParse(p, y.end, d)
    BY <1>2, <2>1 DEF KnownAt, Counts
  <2>4. p.end \in 1 .. Len(d) + 1
    BY <1>2, <2>3 DEF IsParse
  <2>5. ItemKnown(F, d, p.end)
    BY <2>4, OneParse
  <2> QED
    BY <1>2, <1>6, <2>2, <2>5 DEF ItemKnown, IsItem, IsParse
<1>9. x.height < c.height
  BY <1>6, <1>7, <1>8
<1> QED
  BY <1>3, <1>6, <1>7, <1>9 DEF GoesOn

(* So it is for every number of members.                                   *)
LEMMA MoreIsAnItem ==
  ASSUME NEW d, NEW F, Grammar(F, d), NEW k \in Nat
  PROVE  LacksMore(F, d, k)
<1> DEFINE T == {i \in 0 .. k : LacksMore(F, d, i)}
<1>1. 0 \in T
  <2>1. ASSUME NEW j \in 1 .. Len(d) + 1, NEW m \in Counts,
               NEW a \in F[<<j, 0>>], NEW c \in F[<<j, m>>],
               m # 0, ~ (m = Open /\ AtStop(d, a.end))
        PROVE  GoesOn(F, d, a, c)
    <3>1. a.end = j
      <4>1. a = NoMembers(j)
        BY BegunEmpty
      <4> QED
        BY <4>1 DEF NoMembers
    <3>2. Left(m) \in Counts
      BY <2>1, LeftCounts DEF Grammar, IsData
    <3>0. PICK x \in Here(d, F, j) : \E q \in F[<<x.end, Left(m)>>] : c = Followed(j, x, q)
      BY <2>1, <3>1, Begins
    <3>3. PICK q \in F[<<x.end, Left(m)>>] : c = Followed(j, x, q)
      BY <3>0
    <3>4. IsItem(x, j, d)
      BY <3>3, OneParse DEF ItemKnown
    <3>5. KnownAt(F, d, x.end)
      BY <3>4, OneParse DEF IsItem
    <3>6. q.height \in Nat /\ x.height \in Nat
      BY <3>2, <3>3, <3>4, <3>5 DEF KnownAt, IsParse, IsItem
    <3>7. /\ c.height = (IF x.height >= q.height THEN x.height + 1 ELSE q.height)
          /\ (x.repeats => c.repeats) /\ j \in c.heads
      BY <3>3 DEF Followed
    <3>8. x.height < c.height
      BY <3>6, <3>7
    <3> QED
      BY <3>1, <3>3, <3>7, <3>8 DEF GoesOn
  <2> QED
    BY <2>1 DEF LacksMore
<1>2. \A i \in 0 .. k - 1 : i \in T => i + 1 \in T
  <2> SUFFICES ASSUME NEW i \in 0 .. k - 1, i \in T PROVE i + 1 \in T
    OBVIOUS
  <2>1. LacksMore(F, d, i) /\ i \in Nat /\ i + 1 \in 0 .. k
    OBVIOUS
  <2>2. LacksMore(F, d, i + 1)
    BY <2>1, LacksMoreStep
  <2> QED
    BY <2>1, <2>2
<1>3. 0 .. k \subseteq T
  <2> HIDE DEF T
  <2> QED
    BY <1>1, <1>2, UpInduct
<1> QED
  BY <1>3

(* The members before a break are all the members.                         *)
Stopped(c, a) ==
  /\ c.end = a.end + 1 /\ c.vals = a.vals /\ c.height = a.height /\ c.heads = a.heads
  /\ c.repeats => a.repeats
StopsThere(F, d, k) ==
  \A j \in 1 .. Len(d) + 1 : \A a \in F[<<j, k>>] :
    AtStop(d, a.end) => \E c \in F[<<j, Open>>] : Stopped(c, a)

(* One member more in front.                                               *)
LEMMA StopsThereStep ==
  ASSUME NEW d, NEW F, Grammar(F, d), NEW k \in Nat, StopsThere(F, d, k)
  PROVE  StopsThere(F, d, k + 1)
<1> SUFFICES ASSUME NEW j \in 1 .. Len(d) + 1, NEW a \in F[<<j, k + 1>>],
                    AtStop(d, a.end)
             PROVE  \E c \in F[<<j, Open>>] : Stopped(c, a)
  BY DEF StopsThere
<1>1. /\ k + 1 \in Counts /\ Left(k + 1) = k /\ Reaches(k + 1, k + 1)
      /\ Open \in Counts /\ Open # 0 /\ Left(Open) = Open
  <2>1. Open \notin Nat /\ k + 1 \in Nat
    BY DEF Grammar, IsData
  <2> QED
    BY <2>1 DEF Counts, Left, Reaches
<1> PICK y, p, q : StartsWith(F, d, j, k, k + 1, a, a, y, p, q)
  BY <1>1, SameStart
<1>2. /\ y \in Here(d, F, j) /\ y.end \in 1 .. Len(d) + 1
      /\ p \in F[<<y.end, k>>] /\ a = Followed(j, y, p)
  BY DEF StartsWith
<1>3. a.end = p.end
  BY <1>2 DEF Followed
<1>4. PICK c \in F[<<y.end, Open>>] : Stopped(c, p)
  BY <1>2, <1>3 DEF StopsThere
<1>5. Stopped(Followed(j, y, c), a)
  BY <1>2, <1>4 DEF Stopped, Followed
<1>6. Followed(j, y, c) \in F[<<j, Open>>]
  BY <1>1, <1>2, <1>4, BegunWith
<1> QED
  BY <1>5, <1>6

(* So it is for every number of members.                                   *)
LEMMA StopIsTheEnd ==
  ASSUME NEW d, NEW F, Grammar(F, d), NEW k \in Nat
  PROVE  StopsThere(F, d, k)
<1> DEFINE T == {i \in 0 .. k : StopsThere(F, d, i)}
<1>1. 0 \in T
  <2>1. ASSUME NEW j \in 1 .. Len(d) + 1, NEW a \in F[<<j, 0>>], AtStop(d, a.end)
        PROVE  \E c \in F[<<j, Open>>] : Stopped(c, a)
    <3>1. a = NoMembers(j) /\ a.end = j
      <4>1. a = NoMembers(j)
        BY BegunEmpty
      <4> QED
        BY <4>1 DEF NoMembers
    <3>2. NoMembers(j + 1) \in F[<<j, Open>>]
      BY <2>1, <3>1, BegunStopped
    <3>3. Stopped(NoMembers(j + 1), a)
      BY <3>1 DEF Stopped, NoMembers
    <3> QED
      BY <3>2, <3>3
  <2> QED
    BY <2>1 DEF StopsThere
<1>2. \A i \in 0 .. k - 1 : i \in T => i + 1 \in T
  <2> SUFFICES ASSUME NEW i \in 0 .. k - 1, i \in T PROVE i + 1 \in T
    OBVIOUS
  <2>1. StopsThere(F, d, i) /\ i \in Nat /\ i + 1 \in 0 .. k
    OBVIOUS
  <2>2. StopsThere(F, d, i + 1)
    BY <2>1, StopsThereStep
  <2> QED
    BY <2>1, <2>2
<1>3. 0 .. k \subseteq T
  <2> HIDE DEF T
  <2> QED
    BY <1>1, <1>2, UpInduct
<1> QED
  BY <1>3

-----------------------------------------------------------------------------
(* A task: the data, how deep it may be, and the call.  For an activation  *)
(* that has read so far: it has parsed the first members as the grammar    *)
(* does, and nothing among them breaks a rule.                             *)
IsTask(t) == IsData(t.d) /\ t.depth \in Nat
Rejects(t) == t.op # "members"
Odds(k) == {u \in 1 .. k : u % 2 = 1}
ItemGood(t, x, depth) == depth + x.height <= t.depth /\ (Rejects(t) => ~ x.repeats)
Chunks(t, f, heads) ==
  f.head.k \in Strings => \A c \in heads : t.d[c].k = f.head.k /\ t.d[c].n # Open
KeysApart(t, f, vals) ==
  f.head.k = "map" /\ Rejects(t) =>
    /\ f.keys = {vals[u] : u \in Odds(f.read)}
    /\ \A u, v \in Odds(f.read) : u < v => vals[u] # vals[v]
HasParsed(t, f, p, depth, a) ==
  /\ a \in ItemsOf(t.d)[<<f.start + 1, f.read>>] /\ a.end = p
  /\ ItemGood(t, a, depth) /\ Chunks(t, f, a.heads) /\ KeysApart(t, f, a.vals)
MembersLeft(f) ==
  IF Members(f.head) = Open THEN f.left = Open
  ELSE f.left \in Nat /\ f.left + f.read = Members(f.head)
FrameGood(t, f, p, depth) ==
  /\ f.start \in 1 .. Len(t.d) /\ f.head = t.d[f.start] /\ Opens(f.head)
  /\ f.read \in Nat /\ MembersLeft(f)
  /\ \E a : HasParsed(t, f, p, depth, a)

(* The item that stands at j breaks no rule.                               *)
Fine(t, j, depth) == \E x \in ItemAt(t.d, j) : ItemGood(t, x, depth)

(* What is known of a task's data.                                         *)
LEMMA TaskGrammar ==
  ASSUME NEW t, IsTask(t)
  PROVE  /\ Grammar(ItemsOf(t.d), t.d) /\ Len(t.d) \in Nat /\ DOMAIN t.d = 1 .. Len(t.d)
         /\ Open \notin Nat /\ t.depth \in Nat
BY ItemsAreTheGrammar DEF IsTask, Grammar, IsData, IsRow

(* What is known of an activation.                                         *)
LEMMA FrameFacts ==
  ASSUME NEW t, IsTask(t), NEW f, NEW p, NEW depth \in Nat, FrameGood(t, f, p, depth)
  PROVE  /\ f.start + 1 \in 1 .. Len(t.d) + 1 /\ Members(f.head) \in Counts
         /\ f.read \in Counts /\ p \in 1 .. Len(t.d) + 1
         /\ Reaches(Members(f.head), f.read)
         /\ f.left # 0 => /\ Reaches(Members(f.head), f.read + 1)
                          /\ Members(f.head) # f.read
<1>1. Len(t.d) \in Nat /\ Open \notin Nat /\ DOMAIN t.d = 1 .. Len(t.d)
      /\ Grammar(ItemsOf(t.d), t.d)
  BY TaskGrammar
<1>2. f.start + 1 \in 1 .. Len(t.d) + 1 /\ f.read \in Counts
  BY <1>1 DEF FrameGood, Counts
<1>3. Members(f.head) \in Counts
  <2>1. IsHead(f.head) /\ Opens(f.head)
    BY <1>1 DEF FrameGood, IsTask, IsData
  <2> QED
    BY <1>1, <2>1, MembersCount
<1>4. p \in 1 .. Len(t.d) + 1
  <2>1. PICK a : a \in ItemsOf(t.d)[<<f.start + 1, f.read>>] /\ a.end = p
    BY DEF FrameGood, HasParsed
  <2>2. KnownAt(ItemsOf(t.d), t.d, f.start + 1)
    BY <1>1, <1>2, OneParse
  <2>3. IsParse(a, f.start + 1, t.d)
    BY <1>2, <2>1, <2>2 DEF KnownAt
  <2> QED
    BY <1>1, <1>2, <2>1, <2>3 DEF IsParse
<1>5. /\ Reaches(Members(f.head), f.read)
      /\ f.left # 0 => /\ Reaches(Members(f.head), f.read + 1)
                       /\ Members(f.head) # f.read
  <2>1. CASE Members(f.head) = Open
    BY <1>1, <2>1 DEF Reaches, FrameGood
  <2>2. CASE Members(f.head) # Open
    <3>1. f.left \in Nat /\ f.read \in Nat /\ f.left + f.read = Members(f.head)
      BY <2>2 DEF FrameGood, MembersLeft
    <3> QED
      BY <3>1 DEF Reaches
  <2> QED
    BY <2>1, <2>2
<1> QED
  BY <1>2, <1>3, <1>4, <1>5

(* Keys that are apart do not repeat, and the other way round.             *)
LEMMA RepeatedKeys ==
  ASSUME NEW v, Len(v) \in Nat, Len(v) % 2 = 0
  PROVE  Repeated([k \in 1 .. Len(v) \div 2 |-> v[2 * k - 1]])
           <=> \E u, w \in Odds(Len(v)) : u < w /\ v[u] = v[w]
<1> DEFINE n == Len(v)
           h == n \div 2
           s == [k \in 1 .. h |-> v[2 * k - 1]]
<1>1. n \in Nat /\ h \in Nat /\ n = 2 * h
  OBVIOUS
<1> HIDE DEF n, h
<1>2. ASSUME Repeated(s) PROVE \E u, w \in Odds(n) : u < w /\ v[u] = v[w]
  <2>1. PICK i \in 1 .. h, j \in 1 .. h : i < j /\ s[i] = s[j]
    BY <1>2 DEF Repeated
  <2>2. 2 * i - 1 \in Odds(n) /\ 2 * j - 1 \in Odds(n) /\ 2 * i - 1 < 2 * j - 1
    BY <1>1, <2>1 DEF Odds
  <2>3. v[2 * i - 1] = v[2 * j - 1]
    BY <2>1
  <2> QED
    BY <2>2, <2>3
<1>3. ASSUME NEW u \in Odds(n), NEW w \in Odds(n), u < w, v[u] = v[w]
      PROVE  Repeated(s)
  <2> DEFINE i == (u + 1) \div 2
             j == (w + 1) \div 2
  <2>1. u \in Nat /\ w \in Nat /\ u % 2 = 1 /\ w % 2 = 1 /\ u <= n /\ w <= n
    BY <1>1 DEF Odds
  <2>2. /\ i \in 1 .. h /\ j \in 1 .. h /\ i < j /\ u = 2 * i - 1 /\ w = 2 * j - 1
    BY <1>1, <1>3, <2>1
  <2> HIDE DEF i, j
  <2>3. s[i] = v[u] /\ s[j] = v[w]
    BY <2>2
  <2> QED
    BY <1>3, <2>2, <2>3 DEF Repeated
<1>4. Repeated(s) <=> \E u, w \in Odds(n) : u < w /\ v[u] = v[w]
  BY <1>2, <1>3
<1> QED
  BY <1>4 DEF n, h

(* The item an activation makes, taken apart.                              *)
LEMMA FineInside ==
  ASSUME NEW t, IsTask(t), NEW f, NEW p, NEW depth \in Nat, FrameGood(t, f, p, depth),
         Fine(t, f.start, depth)
  PROVE  \E c \in ItemsOf(t.d)[<<f.start + 1, Members(f.head)>>] :
           /\ Fits(t.d, f.head, c) /\ depth + c.height <= t.depth
           /\ Rejects(t) => ~ c.repeats
           /\ Rejects(t) /\ f.head.k = "map" =>
                ~ Repeated([k \in 1 .. Len(c.vals) \div 2 |-> c.vals[2 * k - 1]])
<1>1. PICK x \in ItemAt(t.d, f.start) : ItemGood(t, x, depth)
  BY DEF Fine
<1>2. /\ f.start \in 1 .. Len(t.d) /\ f.head = t.d[f.start] /\ Opens(f.head)
      /\ Len(t.d) \in Nat
  BY TaskGrammar DEF FrameGood
<1>3. PICK c \in ItemsOf(t.d)[<<f.start + 1, Members(f.head)>>] :
        Fits(t.d, f.head, c) /\ x = Around(f.head, c)
  BY <1>1, <1>2 DEF ItemAt, Here
<1>4. /\ x.height = c.height /\ (c.repeats => x.repeats)
      /\ f.head.k = "map" /\ Repeated([k \in 1 .. Len(c.vals) \div 2 |-> c.vals[2 * k - 1]])
           => x.repeats
  BY <1>3 DEF Around
<1> QED
  BY <1>1, <1>3, <1>4 DEF ItemGood

(* A fine item has a fine item where an activation that is not done stands. *)
LEMMA NextIsFine ==
  ASSUME NEW t, IsTask(t), NEW f, NEW p, NEW depth \in Nat, FrameGood(t, f, p, depth),
         Fine(t, f.start, depth), f.left # 0, ~ (f.left = Open /\ AtStop(t.d, p))
  PROVE  /\ Fine(t, p, depth + 1)
         /\ f.head.k \in Strings => t.d[p].k = f.head.k /\ t.d[p].n # Open
<1> DEFINE F == ItemsOf(t.d)
           j == f.start + 1
           m == Members(f.head)
<1>1. PICK c \in F[<<j, m>>] :
        /\ Fits(t.d, f.head, c) /\ depth + c.height <= t.depth
        /\ Rejects(t) => ~ c.repeats
  BY FineInside
<1>2. PICK a : HasParsed(t, f, p, depth, a)
  BY DEF FrameGood
<1>3. /\ Grammar(F, t.d) /\ j \in 1 .. Len(t.d) + 1 /\ m \in Counts /\ f.read \in Nat
      /\ Reaches(m, f.read) /\ m # f.read /\ p \in 1 .. Len(t.d) + 1
      /\ a \in F[<<j, f.read>>] /\ a.end = p
  BY <1>2, TaskGrammar, FrameFacts DEF HasParsed, FrameGood
<1>4. m = Open => f.left = Open
  BY DEF FrameGood, MembersLeft
<1> HIDE DEF F, j, m
<1>5. GoesOn(F, t.d, a, c)
  <2>1. LacksMore(F, t.d, f.read)
    BY <1>3, MoreIsAnItem
  <2>2. ~ (m = Open /\ AtStop(t.d, a.end))
    BY <1>3, <1>4
  <2> QED
    BY <1>1, <1>3, <2>1, <2>2 DEF LacksMore
<1>6. PICK x \in Here(t.d, F, p) :
        x.height < c.height /\ (x.repeats => c.repeats) /\ p \in c.heads
  BY <1>3, <1>5 DEF GoesOn
<1>7. x.height \in Nat /\ c.height \in Nat
  <2>1. IsItem(x, p, t.d) /\ KnownAt(F, t.d, j)
    BY <1>3, <1>6, OneParse DEF ItemKnown
  <2> QED
    BY <1>1, <1>3, <2>1 DEF IsItem, KnownAt, IsParse
<1>8. ItemGood(t, x, depth + 1)
  <2>1. t.depth \in Nat
    BY TaskGrammar
  <2>2. depth + 1 + x.height <= t.depth
    BY <1>1, <1>6, <1>7, <2>1
  <2> QED
    BY <1>1, <1>6, <2>2 DEF ItemGood
<1>9. f.head.k \in Strings => t.d[p].k = f.head.k /\ t.d[p].n # Open
  BY <1>1, <1>6 DEF Fits
<1> QED
  BY <1>6, <1>8, <1>9 DEF Fine, ItemAt, F

(* And a key there that no earlier key equals.                             *)
LEMMA NextIsNew ==
  ASSUME NEW t, IsTask(t), NEW f, NEW p, NEW depth \in Nat, FrameGood(t, f, p, depth),
         Fine(t, f.start, depth), f.left # 0, NEW x \in ItemAt(t.d, p),
         f.head.k = "map", f.read % 2 = 0, Rejects(t)
  PROVE  x.val \notin f.keys
<1> DEFINE F == ItemsOf(t.d)
           j == f.start + 1
           m == Members(f.head)
           n == f.read
<1>1. PICK c \in F[<<j, m>>] :
        /\ Fits(t.d, f.head, c)
        /\ ~ Repeated([k \in 1 .. Len(c.vals) \div 2 |-> c.vals[2 * k - 1]])
  BY FineInside
<1>2. PICK a : HasParsed(t, f, p, depth, a)
  BY DEF FrameGood
<1>3. /\ Grammar(F, t.d) /\ j \in 1 .. Len(t.d) + 1 /\ m \in Counts /\ n \in Nat
      /\ Reaches(m, n + 1) /\ p \in 1 .. Len(t.d) + 1 /\ n \in Counts
      /\ a \in F[<<j, n>>] /\ a.end = p /\ x \in Here(t.d, F, p)
  BY <1>2, TaskGrammar, FrameFacts DEF HasParsed, FrameGood, ItemAt
<1>4. f.keys = {a.vals[u] : u \in Odds(n)}
  BY <1>2 DEF HasParsed, KeysApart
<1>5. n % 2 = 0
  OBVIOUS
<1> HIDE DEF F, j, m, n
<1>6. PICK b \in F[<<j, n + 1>>] : Extends(b, a, x)
  <2>1. TakesOneMore(F, t.d, n)
    BY <1>3, OneMoreBehind
  <2> QED
    BY <1>3, <2>1 DEF TakesOneMore
<1>7. Len(a.vals) = n
  <2>1. BeginsMore(F, t.d, n)
    BY <1>3, MembersBegin
  <2>2. Reaches(n, n)
    BY <1>3 DEF Reaches
  <2> QED
    BY <1>3, <2>1, <2>2 DEF BeginsMore
<1>8. Len(b.vals) = n + 1 /\ Prefix(b, c)
  <2>1. BeginsMore(F, t.d, n + 1)
    BY <1>3, MembersBegin
  <2> QED
    BY <1>1, <1>3, <1>6, <2>1 DEF BeginsMore
<1>9. IsRow(c.vals) /\ Len(c.vals) \in Nat /\ Len(c.vals) % 2 = 0
  <2>1. KnownAt(F, t.d, j)
    BY <1>3, OneParse
  <2>2. IsRow(c.vals)
    BY <1>1, <1>3, <2>1 DEF KnownAt, IsParse
  <2> QED
    BY <1>1, <2>2 DEF IsRow, Fits
<1>10. ASSUME x.val \in f.keys PROVE FALSE
  <2>1. PICK u \in Odds(n) : a.vals[u] = x.val
    BY <1>4, <1>10
  <2>2. u \in 1 .. n /\ u % 2 = 1
    BY <2>1 DEF Odds
  <2>3. b.vals[u] = x.val /\ b.vals[n + 1] = x.val
    BY <1>6, <1>7, <2>1, <2>2 DEF Extends
  <2>4. c.vals[u] = x.val /\ c.vals[n + 1] = x.val /\ n + 1 <= Len(c.vals)
    <3>1. u \in 1 .. n + 1 /\ n + 1 \in 1 .. n + 1
      BY <1>3, <2>2
    <3> QED
      BY <1>8, <2>3, <3>1 DEF Prefix
  <2>5. /\ u \in Odds(Len(c.vals)) /\ n + 1 \in Odds(Len(c.vals)) /\ u < n + 1
    BY <1>3, <1>5, <1>9, <2>2, <2>4, SMTT(30) DEF Odds
  <2>6. \E v, w \in Odds(Len(c.vals)) : v < w /\ c.vals[v] = c.vals[w]
    BY <2>4, <2>5
  <2> QED
    BY <1>1, <1>9, <2>6, RepeatedKeys
<1> QED
  BY <1>10

(* An activation that has taken a member x.                                *)
Took(t, g, f, x) ==
  /\ g.start = f.start /\ g.head = f.head /\ g.read = f.read + 1
  /\ g.left = (IF f.left = Open THEN Open ELSE f.left - 1)
  /\ g.keys = IF f.head.k = "map" /\ f.read % 2 = 0 /\ Rejects(t)
              THEN f.keys \cup {x.val} ELSE f.keys

(* It has parsed as far as the end of x.                                   *)
LEMMA MemberTaken ==
  ASSUME NEW t, IsTask(t), NEW f, NEW p, NEW depth \in Nat, FrameGood(t, f, p, depth),
         f.left # 0, NEW x \in ItemAt(t.d, p), ItemGood(t, x, depth + 1),
         NEW g, Took(t, g, f, x),
         f.head.k \in Strings => t.d[p].k = f.head.k /\ t.d[p].n # Open,
         f.head.k = "map" /\ f.read % 2 = 0 /\ Rejects(t) => x.val \notin f.keys
  PROVE  FrameGood(t, g, x.end, depth)
<1> DEFINE F == ItemsOf(t.d)
           j == f.start + 1
           n == f.read
<1>1. PICK a : HasParsed(t, f, p, depth, a)
  BY DEF FrameGood
<1>2. /\ Grammar(F, t.d) /\ j \in 1 .. Len(t.d) + 1 /\ n \in Nat /\ n \in Counts
      /\ p \in 1 .. Len(t.d) + 1 /\ a \in F[<<j, n>>] /\ a.end = p
      /\ x \in Here(t.d, F, p) /\ Open \notin Nat /\ t.depth \in Nat
  BY <1>1, TaskGrammar, FrameFacts DEF HasParsed, FrameGood, ItemAt
<1>3. /\ ItemGood(t, a, depth) /\ Chunks(t, f, a.heads) /\ KeysApart(t, f, a.vals)
  BY <1>1 DEF HasParsed
<1> HIDE DEF F, j, n
<1>4. PICK b \in F[<<j, n + 1>>] : Extends(b, a, x)
  <2>1. TakesOneMore(F, t.d, n)
    BY <1>2, OneMoreBehind
  <2> QED
    BY <1>2, <2>1 DEF TakesOneMore
<1>5. Len(a.vals) = n
  <2>1. BeginsMore(F, t.d, n)
    BY <1>2, MembersBegin
  <2>2. Reaches(n, n)
    BY <1>2 DEF Reaches
  <2> QED
    BY <1>2, <2>1, <2>2 DEF BeginsMore
<1>6. a.height \in Nat /\ x.height \in Nat
  <2>1. KnownAt(F, t.d, j) /\ ItemKnown(F, t.d, p)
    BY <1>2, OneParse
  <2> QED
    BY <1>2, <2>1 DEF KnownAt, ItemKnown, IsParse, IsItem
<1>7. ItemGood(t, b, depth)
  <2>1. b.height = IF x.height >= a.height THEN x.height + 1 ELSE a.height
    BY <1>4 DEF Extends
  <2>2. depth + b.height <= t.depth
    BY <1>2, <1>3, <1>6, <2>1 DEF ItemGood
  <2> QED
    BY <1>3, <1>4, <2>2 DEF ItemGood, Extends
<1>8. Chunks(t, g, b.heads)
  BY <1>2, <1>3, <1>4 DEF Chunks, Extends, Took
<1>9. KeysApart(t, g, b.vals)
  <2> SUFFICES ASSUME f.head.k = "map", Rejects(t)
               PROVE  /\ g.keys = {b.vals[u] : u \in Odds(n + 1)}
                      /\ \A u, v \in Odds(n + 1) : u < v => b.vals[u] # b.vals[v]
    BY DEF KeysApart, Took, n
  <2>1. /\ f.keys = {a.vals[u] : u \in Odds(n)}
        /\ \A u, v \in Odds(n) : u < v => a.vals[u] # a.vals[v]
    BY <1>3 DEF KeysApart, n
  <2>2. \A u \in Odds(n) : b.vals[u] = a.vals[u]
    <3>1. \A u \in Odds(n) : u \in 1 .. Len(a.vals)
      BY <1>5 DEF Odds
    <3> QED
      BY <1>4, <3>1 DEF Extends
  <2>3. CASE n % 2 = 0
    <3>1. Odds(n + 1) = Odds(n) \cup {n + 1}
      BY <1>2, <2>3 DEF Odds
    <3>2. b.vals[n + 1] = x.val
      BY <1>4, <1>5 DEF Extends
    <3>3. g.keys = f.keys \cup {x.val} /\ x.val \notin f.keys
      BY <2>3 DEF Took, n
    <3>4. \A u \in Odds(n) : u < n + 1 /\ ~ (n + 1 < u)
      BY <1>2 DEF Odds
    <3>5. g.keys = {b.vals[u] : u \in Odds(n + 1)}
      BY <2>1, <2>2, <3>1, <3>2, <3>3
    <3>6. \A u \in Odds(n) : b.vals[u] # b.vals[n + 1]
      BY <2>1, <2>2, <3>2, <3>3
    <3>7. ASSUME NEW u \in Odds(n + 1), NEW v \in Odds(n + 1), u < v
          PROVE  b.vals[u] # b.vals[v]
      <4>1. u \in Odds(n)
        BY <1>2, <3>1, <3>4, <3>7
      <4>2. CASE v \in Odds(n)
        BY <2>1, <2>2, <3>7, <4>1, <4>2
      <4>3. CASE v = n + 1
        BY <3>6, <4>1, <4>3
      <4> QED
        BY <3>1, <4>2, <4>3
    <3> QED
      BY <3>5, <3>7
  <2>4. CASE n % 2 # 0
    <3>1. Odds(n + 1) = Odds(n)
      BY <1>2, <2>4 DEF Odds
    <3>2. g.keys = f.keys
      BY <2>4 DEF Took, n
    <3> QED
      BY <2>1, <2>2, <3>1, <3>2
  <2> QED
    BY <2>3, <2>4
<1>10. MembersLeft(g)
  <2>1. MembersLeft(f) /\ f.left # 0
    BY DEF FrameGood
  <2>2. CASE Members(f.head) = Open
    BY <2>1, <2>2 DEF MembersLeft, Took
  <2>3. CASE Members(f.head) # Open
    <3>1. f.left \in Nat /\ f.left # Open /\ f.left + n = Members(f.head)
      BY <1>2, <2>1, <2>3 DEF MembersLeft, n
    <3>2. g.left = f.left - 1 /\ g.read = n + 1 /\ g.head = f.head
      BY <3>1 DEF Took, n
    <3>3. g.left \in Nat /\ g.left + g.read = Members(g.head)
      BY <1>2, <2>1, <3>1, <3>2
    <3> QED
      BY <2>3, <3>2, <3>3 DEF MembersLeft
  <2> QED
    BY <2>2, <2>3
<1>11. HasParsed(t, g, x.end, depth, b)
  <2>1. b \in ItemsOf(t.d)[<<g.start + 1, g.read>>]
    BY <1>4 DEF Took, F, j, n
  <2>2. b.end = x.end
    BY <1>4 DEF Extends
  <2> QED
    BY <1>7, <1>8, <1>9, <2>1, <2>2 DEF HasParsed
<1>12. /\ g.start \in 1 .. Len(t.d) /\ g.head = t.d[g.start] /\ Opens(g.head)
       /\ g.read \in Nat
  <2>1. g.read = n + 1 /\ n + 1 \in Nat
    BY <1>2 DEF Took, n
  <2> QED
    BY <2>1 DEF Took, FrameGood
<1> QED
  BY <1>10, <1>11, <1>12 DEF FrameGood

(* An activation that has all its members is an item.                      *)
LEMMA ItemIsWhole ==
  ASSUME NEW t, IsTask(t), NEW f, NEW p, NEW depth \in Nat, NEW c,
         FrameGood(t, f, p, depth),
         c \in ItemsOf(t.d)[<<f.start + 1, Members(f.head)>>],
         ItemGood(t, c, depth), Chunks(t, f, c.heads), KeysApart(t, f, c.vals),
         Len(c.vals) = f.read, f.head.k = "map" => f.read % 2 = 0
  PROVE  /\ Around(f.head, c) \in ItemAt(t.d, f.start)
         /\ ItemGood(t, Around(f.head, c), depth)
<1> DEFINE x == Around(f.head, c)
<1>1. /\ f.start \in 1 .. Len(t.d) /\ f.head = t.d[f.start] /\ Opens(f.head)
      /\ f.read \in Nat /\ Len(t.d) \in Nat
  BY TaskGrammar DEF FrameGood
<1>2. Fits(t.d, f.head, c)
  BY DEF Fits, Chunks
<1>3. f.head.k \notin {"break", "reserved"} /\ ~ (f.start > Len(t.d))
  BY <1>1 DEF Opens, Containers, Strings
<1>4. x \in ItemAt(t.d, f.start)
  BY <1>1, <1>2, <1>3 DEF ItemAt, Here
<1>5. x.height = c.height
      /\ (x.repeats <=> c.repeats \/ (f.head.k = "map" /\
             Repeated([k \in 1 .. Len(c.vals) \div 2 |-> c.vals[2 * k - 1]])))
  BY DEF Around
<1>6. ASSUME f.head.k = "map", Rejects(t)
      PROVE  ~ Repeated([k \in 1 .. Len(c.vals) \div 2 |-> c.vals[2 * k - 1]])
  <2>1. Len(c.vals) \in Nat /\ Len(c.vals) % 2 = 0
    BY <1>1, <1>6
  <2>2. \A u, v \in Odds(Len(c.vals)) : u < v => c.vals[u] # c.vals[v]
    BY <1>6 DEF KeysApart
  <2> QED
    BY <2>1, <2>2, RepeatedKeys
<1>7. Rejects(t) => ~ x.repeats
  BY <1>5, <1>6 DEF ItemGood
<1>8. ItemGood(t, x, depth)
  BY <1>5, <1>7 DEF ItemGood
<1> QED
  BY <1>4, <1>8

(* At a break that is not between a key and its value, it is an item.      *)
LEMMA ClosedAtStop ==
  ASSUME NEW t, IsTask(t), NEW f, NEW p, NEW depth \in Nat, FrameGood(t, f, p, depth),
         f.left = Open, AtStop(t.d, p), f.head.k = "map" => f.read % 2 = 0
  PROVE  \E x \in ItemAt(t.d, f.start) : x.end = p + 1 /\ ItemGood(t, x, depth)
<1> DEFINE F == ItemsOf(t.d)
           j == f.start + 1
           n == f.read
<1>1. PICK a : HasParsed(t, f, p, depth, a)
  BY DEF FrameGood
<1>2. /\ Grammar(F, t.d) /\ j \in 1 .. Len(t.d) + 1 /\ n \in Nat /\ n \in Counts
      /\ a \in F[<<j, n>>] /\ a.end = p /\ Open \notin Nat
  BY <1>1, TaskGrammar, FrameFacts DEF HasParsed, FrameGood
<1>3. Members(f.head) = Open
  BY <1>2 DEF FrameGood, MembersLeft
<1>4. PICK c \in F[<<j, Open>>] : Stopped(c, a)
  <2> HIDE DEF F, j, n
  <2>1. StopsThere(F, t.d, n)
    BY <1>2, StopIsTheEnd
  <2> QED
    BY <1>2, <2>1 DEF StopsThere
<1>5. Len(a.vals) = n
  <2> HIDE DEF F, j, n
  <2>1. BeginsMore(F, t.d, n)
    BY <1>2, MembersBegin
  <2>2. Reaches(n, n)
    BY <1>2 DEF Reaches
  <2> QED
    BY <1>2, <2>1, <2>2 DEF BeginsMore
<1>6. /\ ItemGood(t, c, depth) /\ Chunks(t, f, c.heads) /\ KeysApart(t, f, c.vals)
      /\ Len(c.vals) = f.read /\ c.end = p + 1
  BY <1>1, <1>2, <1>4, <1>5 DEF HasParsed, Stopped, ItemGood
<1>7. /\ Around(f.head, c) \in ItemAt(t.d, f.start)
      /\ ItemGood(t, Around(f.head, c), depth)
  <2>1. c \in ItemsOf(t.d)[<<f.start + 1, Members(f.head)>>]
    BY <1>3, <1>4
  <2> QED
    BY <1>6, <2>1, ItemIsWhole
<1>8. Around(f.head, c).end = p + 1
  BY <1>6 DEF Around
<1> QED
  BY <1>7, <1>8

(* And so it is with all its members.                                      *)
LEMMA ClosedFull ==
  ASSUME NEW t, IsTask(t), NEW f, NEW p, NEW depth \in Nat, FrameGood(t, f, p, depth),
         f.left = 0
  PROVE  \E x \in ItemAt(t.d, f.start) : x.end = p /\ ItemGood(t, x, depth)
<1> DEFINE F == ItemsOf(t.d)
           j == f.start + 1
           n == f.read
<1>1. PICK a : HasParsed(t, f, p, depth, a)
  BY DEF FrameGood
<1>2. /\ Grammar(F, t.d) /\ j \in 1 .. Len(t.d) + 1 /\ n \in Nat /\ n \in Counts
      /\ a \in F[<<j, n>>] /\ a.end = p /\ Open \notin Nat
  BY <1>1, TaskGrammar, FrameFacts DEF HasParsed, FrameGood
<1>3. Members(f.head) = n
  BY <1>2 DEF FrameGood, MembersLeft
<1>4. f.head.k = "map" => n % 2 = 0
  <2> SUFFICES ASSUME f.head.k = "map" PROVE n % 2 = 0
    OBVIOUS
  <2>1. IsHead(f.head)
    BY TaskGrammar DEF FrameGood, IsTask, IsData
  <2>2. f.head.n \in Counts /\ Members(f.head) = IF f.head.n = Open THEN Open ELSE 2 * f.head.n
    BY <2>1 DEF IsHead, Members, Counts, Strings
  <2>3. f.head.n \in Nat /\ n = 2 * f.head.n
    BY <1>2, <1>3, <2>2 DEF Counts
  <2> QED
    BY <2>3
<1>5. Len(a.vals) = n
  <2> HIDE DEF F, j, n
  <2>1. BeginsMore(F, t.d, n)
    BY <1>2, MembersBegin
  <2>2. Reaches(n, n)
    BY <1>2 DEF Reaches
  <2> QED
    BY <1>2, <2>1, <2>2 DEF BeginsMore
<1>6. /\ ItemGood(t, a, depth) /\ Chunks(t, f, a.heads) /\ KeysApart(t, f, a.vals)
      /\ Len(a.vals) = f.read
  BY <1>1, <1>5 DEF HasParsed
<1>7. /\ Around(f.head, a) \in ItemAt(t.d, f.start)
      /\ ItemGood(t, Around(f.head, a), depth)
  <2>1. a \in ItemsOf(t.d)[<<f.start + 1, Members(f.head)>>]
    BY <1>2, <1>3
  <2> QED
    BY <1>4, <1>6, <2>1, ItemIsWhole
<1>8. Around(f.head, a).end = p
  BY <1>2 DEF Around
<1> QED
  BY <1>7, <1>8

-----------------------------------------------------------------------------
(* The stack: every activation stands where the one above it began, and    *)
(* has a member to come; the one on top stands at the position p.          *)
Place(s, p, i) == IF i = Len(s) THEN p ELSE s[i + 1].start
Chain(t, s, p) ==
  /\ IsRow(s)
  /\ \A i \in 1 .. Len(s) :
       /\ FrameGood(t, s[i], Place(s, p, i), i - 1)
       /\ i = 1 => s[i].start = 1
       /\ i < Len(s) => s[i].left # 0
AllFine(t, s) == \A i \in 1 .. Len(s) : Fine(t, s[i].start, i - 1)
(* An item may begin at p.                                                 *)
Waits(s, p) == IF s = << >> THEN p = 1 ELSE s[Len(s)].left # 0

(* One activation more.                                                    *)
LEMMA ChainPush ==
  ASSUME NEW t, NEW s, NEW p, Chain(t, s, p), Waits(s, p),
         NEW g, g.start = p, NEW q, FrameGood(t, g, q, Len(s))
  PROVE  /\ Chain(t, Append(s, g), q) /\ Len(Append(s, g)) = Len(s) + 1
         /\ AllFine(t, s) /\ Fine(t, p, Len(s)) => AllFine(t, Append(s, g))
<1> DEFINE n == Len(s)
           r == Append(s, g)
<1>1. n \in Nat /\ DOMAIN s = 1 .. n /\ IsRow(s)
  BY DEF Chain, IsRow
<1>2. IsRow(r) /\ Len(r) = n + 1 /\ (\A i \in 1 .. n : r[i] = s[i]) /\ r[n + 1] = g
  BY <1>1, RowAppend
<1>3. s = << >> <=> n = 0
  BY <1>1 DEF IsRow
<1>0. /\ \A i \in 1 .. n :
                          /\ FrameGood(t, s[i], Place(s, p, i), i - 1)
                          /\ i = 1 => s[i].start = 1
                          /\ i < n => s[i].left # 0
      /\ IF s = << >> THEN p = 1 ELSE s[n].left # 0
      /\ FrameGood(t, g, q, n) /\ n = Len(s)
  BY DEF Chain, Waits
<1> HIDE DEF r, n
<1>4. ASSUME NEW i \in 1 .. n + 1
      PROVE  /\ FrameGood(t, r[i], Place(r, q, i), i - 1)
             /\ i = 1 => r[i].start = 1
             /\ i < n + 1 => r[i].left # 0
  <2>1. CASE i = n + 1
    <3>1. Place(r, q, i) = q /\ i - 1 = n
      BY <1>1, <1>2, <2>1 DEF Place
    <3>2. i = 1 => g.start = 1
      BY <1>0, <1>1, <1>3, <2>1
    <3>3. r[i] = g /\ ~ (i < n + 1)
      BY <1>1, <1>2, <2>1
    <3>4. FrameGood(t, r[i], Place(r, q, i), i - 1)
      BY <1>0, <3>1, <3>3
    <3> QED
      BY <3>2, <3>3, <3>4
  <2>2. CASE i \in 1 .. n
    <3>1. Place(r, q, i) = Place(s, p, i)
      <4>1. CASE i = n
        <5>1. i + 1 = n + 1 /\ i # n + 1 /\ r[n + 1].start = p
          BY <1>1, <1>2, <4>1
        <5>2. Place(s, p, i) = p
          BY <1>0, <4>1 DEF Place
        <5>3. Place(r, q, i) = r[n + 1].start
          BY <1>2, <5>1 DEF Place
        <5> QED
          BY <5>1, <5>2, <5>3
      <4>2. CASE i # n
        <5>1. i + 1 \in 1 .. n /\ i # n + 1
          BY <1>1, <2>2, <4>2
        <5>2. Place(s, p, i) = s[i + 1].start
          BY <1>0, <4>2 DEF Place
        <5>3. Place(r, q, i) = r[i + 1].start
          BY <1>2, <5>1 DEF Place
        <5> QED
          BY <1>2, <5>1, <5>2, <5>3
      <4> QED
        BY <4>1, <4>2
    <3>2. r[i] = s[i]
      BY <1>2, <2>2
    <3>3. s[i].left # 0
      <4>1. CASE i = n
        BY <1>0, <1>1, <1>3, <2>2, <4>1
      <4>2. CASE i # n
        BY <1>0, <1>1, <2>2, <4>2
      <4> QED
        BY <4>1, <4>2
    <3> QED
      BY <1>0, <2>2, <3>1, <3>2, <3>3
  <2> QED
    BY <1>1, <2>1, <2>2
<1>5. Chain(t, r, q)
  BY <1>2, <1>4 DEF Chain
<1>6. ASSUME AllFine(t, s), Fine(t, p, n) PROVE AllFine(t, r)
  <2>1. ASSUME NEW i \in 1 .. n + 1 PROVE Fine(t, r[i].start, i - 1)
    <3>1. CASE i = n + 1
      <4>1. i - 1 = n /\ r[i].start = p
        BY <1>1, <1>2, <3>1
      <4> QED
        BY <1>6, <4>1
    <3>2. CASE i \in 1 .. n
      BY <1>0, <1>2, <1>6, <3>2 DEF AllFine
    <3> QED
      BY <1>1, <3>1, <3>2
  <2> QED
    BY <1>2, <2>1 DEF AllFine
<1> QED
  BY <1>2, <1>5, <1>6 DEF r, n

(* One less; below it an item may begin.                                   *)
LEMMA ChainPop ==
  ASSUME NEW t, NEW s, NEW p, Chain(t, s, p), s # << >>
  PROVE  LET below == SubSeq(s, 1, Len(s) - 1)
             start == s[Len(s)].start
         IN /\ Chain(t, below, start) /\ Waits(below, start)
            /\ Len(below) = Len(s) - 1 /\ Len(s) - 1 \in Nat
            /\ AllFine(t, s) => AllFine(t, below)
            /\ FrameGood(t, s[Len(s)], p, Len(s) - 1)
<1> DEFINE n == Len(s)
           r == SubSeq(s, 1, Len(s) - 1)
           e == s[Len(s)].start
<1>1. IsRow(s) /\ n \in Nat /\ DOMAIN s = 1 .. n
  BY DEF Chain, IsRow
<1>2. /\ IsRow(r) /\ Len(r) = n - 1 /\ n \in 1 .. n
      /\ \A i \in DOMAIN r : r[i] = s[i]
  <2>1. LET front == SubSeq(s, 1, Len(s) - 1)
        IN /\ IsRow(front) /\ Len(front) = Len(s) - 1
           /\ Len(s) \in 1 .. Len(s) /\ DOMAIN s = 1 .. Len(s)
           /\ \A i \in DOMAIN front : i \in DOMAIN s /\ front[i] = s[i]
    BY <1>1, RowFront
  <2> QED
    BY <2>1
<1>0. /\ \A i \in 1 .. n :
                          /\ FrameGood(t, s[i], Place(s, p, i), i - 1)
                          /\ i = 1 => s[i].start = 1
                          /\ i < n => s[i].left # 0
      /\ n = Len(s) /\ e = s[n].start
  BY DEF Chain
<1> HIDE DEF r, n, e
<1>3. DOMAIN r = 1 .. n - 1 /\ (r = << >> <=> n = 1)
  BY <1>1, <1>2 DEF IsRow
<1>4. ASSUME NEW i \in 1 .. n - 1
      PROVE  /\ FrameGood(t, r[i], Place(r, e, i), i - 1)
             /\ i = 1 => r[i].start = 1
             /\ r[i].left # 0
  <2>1. i \in 1 .. n /\ i < n /\ r[i] = s[i]
    BY <1>1, <1>2, <1>3
  <2>2. Place(r, e, i) = Place(s, p, i)
    <3>1. CASE i = n - 1
      <4>1. i + 1 = n /\ i # n
        BY <1>1, <2>1, <3>1
      <4>2. Place(r, e, i) = e
        BY <1>2, <3>1 DEF Place
      <4>3. Place(s, p, i) = s[n].start
        BY <1>0, <4>1 DEF Place
      <4> QED
        BY <1>0, <4>2, <4>3
    <3>2. CASE i # n - 1
      <4>1. i + 1 \in 1 .. n - 1 /\ i # n
        BY <1>1, <2>1, <3>2
      <4>2. Place(r, e, i) = r[i + 1].start
        BY <1>2, <3>2 DEF Place
      <4>3. Place(s, p, i) = s[i + 1].start
        BY <1>0, <4>1 DEF Place
      <4> QED
        BY <1>2, <1>3, <4>1, <4>2, <4>3
    <3> QED
      BY <3>1, <3>2
  <2> QED
    BY <1>0, <2>1, <2>2
<1>5. Chain(t, r, e)
  BY <1>2, <1>4 DEF Chain
<1>6. Waits(r, e)
  <2>1. CASE n = 1
    <3>1. s[1].start = 1
      BY <1>0, <1>2, <2>1
    <3> QED
      BY <1>0, <1>3, <2>1, <3>1 DEF Waits
  <2>2. CASE n # 1
    <3>1. n - 1 \in 1 .. n - 1
      BY <1>1, <1>2, <2>2
    <3>2. r[n - 1].left # 0
      BY <1>4, <3>1
    <3> QED
      BY <1>2, <1>3, <2>2, <3>2 DEF Waits
  <2> QED
    BY <2>1, <2>2
<1>7. AllFine(t, s) => AllFine(t, r)
  <2>1. \A i \in 1 .. n - 1 : i \in 1 .. n /\ r[i] = s[i]
    BY <1>1, <1>2, <1>3
  <2> QED
    BY <1>0, <1>2, <2>1 DEF AllFine
<1>8. FrameGood(t, s[n], p, n - 1)
  BY <1>0, <1>2 DEF Place
<1>9. n - 1 \in Nat
  BY <1>1, <1>2
<1> QED
  BY <1>2, <1>5, <1>6, <1>7, <1>8, <1>9 DEF r, n, e

(* Another on top, from the same place.                                    *)
LEMMA ChainTake ==
  ASSUME NEW t, NEW s, NEW p, Chain(t, s, p), s # << >>,
         NEW g, g.start = s[Len(s)].start, NEW q, FrameGood(t, g, q, Len(s) - 1)
  PROVE  LET r == [s EXCEPT ![Len(s)] = g]
         IN Chain(t, r, q) /\ Len(r) = Len(s) /\ r # << >> /\ (AllFine(t, s) => AllFine(t, r))
<1> DEFINE n == Len(s)
           r == [s EXCEPT ![Len(s)] = g]
<1>1. IsRow(s) /\ n \in Nat /\ DOMAIN s = 1 .. n /\ n \in 1 .. n
  <2>1. IsRow(s)
    BY DEF Chain
  <2>2. LET front == SubSeq(s, 1, Len(s) - 1)
        IN /\ IsRow(front) /\ Len(front) = Len(s) - 1
           /\ Len(s) \in 1 .. Len(s) /\ DOMAIN s = 1 .. Len(s)
           /\ \A i \in DOMAIN front : i \in DOMAIN s /\ front[i] = s[i]
    BY <2>1, RowFront
  <2> QED
    BY <2>1, <2>2 DEF IsRow
<1>2. /\ IsRow(r) /\ Len(r) = n /\ r[n] = g
      /\ \A i \in 1 .. n : i # n => r[i] = s[i]
  <2>1. n \in DOMAIN s
    BY <1>1
  <2> QED
    BY <1>1, <2>1, RowExcept
<1>0. /\ \A i \in 1 .. n :
                          /\ FrameGood(t, s[i], Place(s, p, i), i - 1)
                          /\ i = 1 => s[i].start = 1
                          /\ i < n => s[i].left # 0
      /\ n = Len(s) /\ g.start = s[n].start /\ FrameGood(t, g, q, n - 1)
  BY DEF Chain
<1> HIDE DEF r, n
<1>3. r # << >>
  BY <1>1, <1>2
<1>4. \A i \in 1 .. n : r[i].start = s[i].start
  BY <1>0, <1>2
<1>5. ASSUME NEW i \in 1 .. n
      PROVE  /\ FrameGood(t, r[i], Place(r, q, i), i - 1)
             /\ i = 1 => r[i].start = 1
             /\ i < n => r[i].left # 0
  <2>1. i = 1 => r[i].start = 1
    BY <1>0, <1>4
  <2>2. CASE i = n
    BY <1>0, <1>1, <1>2, <2>1, <2>2 DEF Place
  <2>3. CASE i # n
    <3>1. i + 1 \in 1 .. n /\ i < n
      BY <1>1, <2>3
    <3>2. Place(r, q, i) = Place(s, p, i)
      <4>1. Place(r, q, i) = r[i + 1].start /\ Place(s, p, i) = s[i + 1].start
        BY <1>0, <1>2, <2>3 DEF Place
      <4> QED
        BY <1>4, <3>1, <4>1
    <3>3. r[i] = s[i]
      BY <1>2, <2>3
    <3> QED
      BY <1>0, <2>1, <3>1, <3>2, <3>3
  <2> QED
    BY <2>2, <2>3
<1>6. Chain(t, r, q)
  BY <1>2, <1>5 DEF Chain
<1>7. AllFine(t, s) => AllFine(t, r)
  BY <1>0, <1>2, <1>4 DEF AllFine
<1> QED
  <2>1. Len(r) = Len(s)
    BY <1>0, <1>2
  <2> QED
    BY <1>3, <1>6, <1>7, <2>1 DEF r, n

-----------------------------------------------------------------------------
(* What a parse has read: so many heads, all of them within the limits.    *)
Task == [d |-> data, depth |-> limits.max_depth, op |-> call.op]
Heads(k) == {i \in 1 .. k : data[i] # Break}
HeadsRead ==
  /\ pos \in 1 .. Len(data) + 1
  /\ items = Cardinality(Heads(pos - 1)) /\ items <= limits.max_items
  /\ limits.require_definite => \A i \in 1 .. pos - 1 : data[i].n # Open

(* And the items they make: every activation has parsed its members as the *)
(* grammar does, and the root is the item the grammar has at the front.    *)
MembersRead ==
  /\ Chain(Task, stack, pos)
  /\ IsValid(data) => AllFine(Task, stack)
  /\ stack = << >> /\ root = << >> => pos = 1
  /\ root # << >> =>
       /\ stack = << >> /\ root[1].head = data[1]
       /\ \E x \in ItemAt(data, 1) : x.end = pos /\ ItemGood(Task, x, 0)

(* And what it answers: for valid data what the function makes of the root. *)
Answered ==
  IF IsValid(data)
  THEN /\ root # << >> /\ root[1].head = data[1] /\ pos = Len(data) + 1
       /\ result = IF Answer(root[1]).ok THEN "Ok" ELSE "Err"
  ELSE result = "Err"

ParseInv ==
  /\ IsData(data)
  /\ result = "Running" => HeadsRead /\ MembersRead
  /\ Done => Answered

(* The parser's own reading of the grammar is the grammar.                 *)
LEMMA SameGrammar ==
  ASSUME NEW d, NEW j, NEW h
  PROVE  /\ Parser!ItemAt(d, j) = ItemAt(d, j) /\ Parser!Opens(h) = Opens(h)
         /\ Parser!Members(h) = Members(h) /\ Parser!Break = Break
         /\ Parser!Strings = Strings
         /\ Parser!RejectsDuplicates = RejectsDuplicates
<1>1. Parser!ItemAt(d, j) = ItemAt(d, j)
  BY DEF Parser!ItemAt, ItemAt, Parser!Here, Here, Parser!ItemsOf, ItemsOf,
         Parser!Rest, Rest, Parser!Alone, Alone, Parser!Around, Around,
         Parser!Fits, Fits, Parser!NoMembers, NoMembers, Parser!Followed, Followed,
         Parser!Opens, Opens, Parser!Members, Members, Parser!Break, Break,
         Parser!Lead, Lead, Parser!Value, Value, Parser!Repeated, Repeated,
         Parser!Strings, Strings, Parser!Containers, Containers
<1>2. Parser!Opens(h) = Opens(h) /\ Parser!Strings = Strings
  BY DEF Parser!Opens, Opens, Parser!Containers, Containers, Parser!Strings, Strings
<1>3. Parser!Members(h) = Members(h)
  BY DEF Parser!Members, Members, Parser!Strings, Strings
<1>4. Parser!Break = Break
  BY DEF Parser!Break, Break, Parser!Lead, Lead
<1>5. Parser!RejectsDuplicates = RejectsDuplicates
  BY SMTT(30) DEF Parser!RejectsDuplicates, RejectsDuplicates
<1> QED
  BY <1>1, <1>2, <1>3, <1>4, <1>5

(* And its answer the answer.                                              *)
LEMMA SameAnswer ==
  ASSUME NEW x
  PROVE  Parser!Answer(x) = Answer(x)
BY DEF Parser!Answer, Answer, Parser!MessageItem, MessageItem, Parser!TaggedItem,
       TaggedItem, Parser!UntaggedItem, UntaggedItem, Parser!MessageTags, MessageTags,
       Parser!MessageShape, MessageShape, Parser!Peel, Peel, Parser!IsTag, IsTag,
       Parser!BytesOrNull, BytesOrNull, Parser!Kinds, Kinds, Parser!RecipientsShape,
       RecipientsShape, Parser!SignaturesShape, SignaturesShape

(* What a whole item is compared by, in whatever form it is written, is    *)
(* what it means.                                                          *)
LEMMA KeyIsTheValue ==
  ASSUME IsData(data), NEW item, item.start \in 1 .. Len(data),
         item.head = data[item.start], NEW x \in ItemAt(data, item.start)
  PROVE  Parser!CanonicalKey(item) = x.val
<1> DEFINE h == item.head
           plain == ~ Opens(h) /\ h.k \in {"uint", "nint", "bytes", "text"} /\ ~ h.wide
<1>1. Len(data) \in Nat
  BY DEF IsData, IsRow
<1>2. CASE plain
  <2>1. x = Alone(h, item.start)
    BY <1>1, <1>2 DEF ItemAt, Here
  <2>2. x.val = IF h.k \in Strings THEN <<h.k, <<h.n>>>> ELSE <<h.k, h.n>>
    BY <2>1 DEF Alone
  <2> QED
    BY <1>2, <2>2, SameGrammar DEF Parser!CanonicalKey
<1>3. CASE ~ plain
  <2>1. \A y \in ItemAt(data, item.start) : y = x
    <3>1. Grammar(ItemsOf(data), data)
      BY ItemsAreTheGrammar DEF Grammar
    <3>2. ItemKnown(ItemsOf(data), data, item.start)
      BY <1>1, <3>1, OneParse
    <3> QED
      BY <3>2 DEF ItemKnown, ItemAt
  <2>2. (CHOOSE y \in ItemAt(data, item.start) : TRUE) = x
    BY <2>1
  <2>3. Parser!CanonicalKey(item) = (CHOOSE y \in ItemAt(data, item.start) : TRUE).val
    BY <1>3, SameGrammar DEF Parser!CanonicalKey
  <2> QED
    BY <2>2, <2>3
<1> QED
  BY <1>2, <1>3

(* Valid data has a good item at its front, and no more heads than allowed. *)
LEMMA ValidData ==
  ASSUME IsValid(data), IsData(data)
  PROVE  /\ Fine(Task, 1, 0) /\ ItemCount(data) <= limits.max_items
         /\ limits.require_definite => \A i \in 1 .. Len(data) : data[i].n # Open
<1>1. PICK x \in WholeItem(data) : /\ x.height <= limits.max_depth
                                   /\ RejectsDuplicates => ~ x.repeats
  BY DEF IsValid
<1>2. Fine(Task, 1, 0)
  <2>1. x \in ItemAt(data, 1)
    BY DEF WholeItem
  <2>2. x.height \in Nat
    <3>1. Grammar(ItemsOf(data), data) /\ Len(data) \in Nat
      BY ItemsAreTheGrammar DEF Grammar, IsData, IsRow
    <3>2. ItemKnown(ItemsOf(data), data, 1)
      BY <3>1, OneParse
    <3> QED
      BY <2>1, <3>2 DEF ItemKnown, ItemAt, IsItem
  <2>3. 0 + x.height <= limits.max_depth
    BY <1>1, <2>2
  <2>4. ItemGood(Task, x, 0)
    BY <1>1, <2>3 DEF ItemGood, Task, Rejects, RejectsDuplicates
  <2> QED
    BY <2>1, <2>4 DEF Fine, Task
<1>3. DOMAIN data = 1 .. Len(data)
  BY DEF IsData, IsRow
<1> QED
  BY <1>2, <1>3 DEF IsValid, Definite

(* An activation that adds an item takes it, in the words of the grammar.  *)
LEMMA AddedIsTaken ==
  ASSUME IsData(data), NEW f, IsFrame(f), NEW item, item.start \in 1 .. Len(data),
         item.head = data[item.start], NEW x \in ItemAt(data, item.start)
  PROVE  /\ Took(Task, Parser!AddTo(f, item), f, x)
         /\ IsFrame(Parser!AddTo(f, item))
         /\ Parser!Takes(f, item) <=>
              /\ f.head.k \in Strings =>
                   data[item.start].k = f.head.k /\ data[item.start].n # Open
              /\ f.head.k = "map" /\ f.read % 2 = 0 /\ Rejects(Task) => x.val \notin f.keys
<1> DEFINE g == Parser!AddTo(f, item)
<1>1. Parser!CanonicalKey(item) = x.val
  BY KeyIsTheValue
<1>2. Parser!KeyNext(f) <=> f.head.k = "map" /\ f.read % 2 = 0
  BY DEF Parser!KeyNext
<1>3. Parser!RejectsDuplicates <=> Rejects(Task)
  BY DEF Parser!RejectsDuplicates, Rejects, Task
<1>4. f = [head |-> f.head, start |-> f.start, left |-> f.left,
           kids |-> f.kids, read |-> f.read, keys |-> f.keys]
  BY DEF IsFrame
<1> DEFINE l == IF f.left = Open THEN Open ELSE f.left - 1
           kids == IF f.head.k = "map" THEN f.kids ELSE Append(f.kids, item)
           ks == IF Parser!KeyNext(f) /\ Parser!RejectsDuplicates
                 THEN f.keys \cup {Parser!CanonicalKey(item)} ELSE f.keys
<1>5. g = [f EXCEPT !.left = l, !.read = f.read + 1, !.kids = kids, !.keys = ks]
  BY <1>4 DEF Parser!AddTo
<1>6. /\ g.start = f.start /\ g.head = f.head /\ g.read = f.read + 1 /\ g.left = l
      /\ g.keys = ks /\ g.kids = kids
      /\ g = [head |-> g.head, start |-> g.start, left |-> g.left,
              kids |-> g.kids, read |-> g.read, keys |-> g.keys]
  <2> HIDE DEF g, l, kids, ks
  <2> QED
    BY <1>4, <1>5
<1>7. Took(Task, g, f, x)
  <2> HIDE DEF g
  <2> QED
    BY <1>1, <1>2, <1>3, <1>6 DEF Took
<1>8. IsFrame(g)
  <2>1. IsRow(f.kids)
    BY DEF IsFrame
  <2>2. IsRow(kids)
    BY <2>1, RowAppend
  <2> HIDE DEF g, kids
  <2> QED
    BY <1>6, <2>2 DEF IsFrame
<1>9. item.head.k = f.head.k /\ f.head.k \in Strings =>
        (~ Opens(item.head) <=> item.head.n # Open)
  BY DEF Opens, Containers, Strings
<1>10. Parser!Takes(f, item) <=>
         /\ f.head.k \in Strings => item.head.k = f.head.k /\ ~ Opens(item.head)
         /\ f.head.k = "map" /\ f.read % 2 = 0 /\ Rejects(Task) => x.val \notin f.keys
  BY <1>1, <1>2, <1>3, SameGrammar DEF Parser!Takes
<1> QED
  BY <1>7, <1>8, <1>9, <1>10

(* Delivering an item the grammar has where it stands.                     *)
LEMMA DeliveryReads ==
  ASSUME IsData(data), limits.max_depth \in Nat, result = "Running", root = << >>,
         NEW below, NEW item, Chain(Task, below, item.start), Waits(below, item.start),
         Frames(below), IsValid(data) => AllFine(Task, below),
         item.start \in 1 .. Len(data), item.head = data[item.start],
         NEW x \in ItemAt(data, item.start), ItemGood(Task, x, Len(below)),
         Parser!Deliver(item, below), pos' = x.end,
         data' = data, call' = call, limits' = limits
  PROVE  \/ result' = "Running" /\ MembersRead'
         \/ result' = "Err" /\ ~ IsValid(data)
<1> DEFINE n == Len(below)
           f == below[n]
           g == Parser!AddTo(f, item)
           r == [below EXCEPT ![n] = g]
<1>1. IsTask(Task) /\ Task.d = data /\ Task' = Task /\ (IsValid(data)' <=> IsValid(data))
  BY DEF IsTask, Task, IsValid, RejectsDuplicates
<1>2. CASE below = << >>
  <2>1. item.start = 1 /\ n = 0
    BY <1>2 DEF Waits
  <2>2. stack' = << >> /\ root' = <<item>> /\ result' = "Running"
    BY <1>2 DEF Parser!Deliver
  <2>3. Chain(Task, << >>, pos') /\ AllFine(Task, << >>)
    BY <1>2 DEF Chain, AllFine
  <2>4. root'[1].head = data[1] /\ x \in ItemAt(data, 1) /\ ItemGood(Task, x, 0)
        /\ root' # << >>
    BY <2>1, <2>2
  <2>5. \E y \in ItemAt(data, 1) : y.end = pos' /\ ItemGood(Task, y, 0)
    BY <2>4
  <2>6. Chain(Task', stack', pos') /\ AllFine(Task', stack') /\ root' # << >>
    BY <1>1, <2>2, <2>3, <2>4
  <2>7. root'[1].head = data'[1]
        /\ \E y \in ItemAt(data', 1) : y.end = pos' /\ ItemGood(Task', y, 0)
    BY <1>1, <2>4, <2>5
  <2>8. MembersRead'
    BY <2>2, <2>6, <2>7 DEF MembersRead
  <2> QED
    BY <2>2, <2>8
<1>3. CASE below # << >>
  <2>1. /\ stack' = r /\ root' = << >>
        /\ result' = IF Parser!Takes(f, item) THEN "Running" ELSE "Err"
    BY <1>3 DEF Parser!Deliver
  <2>2. /\ FrameGood(Task, f, item.start, n - 1) /\ n - 1 \in Nat
        /\ n \in DOMAIN below /\ IsFrame(f) /\ f.left # 0
    <3>1. FrameGood(Task, f, item.start, n - 1) /\ n - 1 \in Nat
      <4>1. LET lower == SubSeq(below, 1, Len(below) - 1)
                start == below[Len(below)].start
            IN /\ Chain(Task, lower, start) /\ Waits(lower, start)
               /\ Len(lower) = Len(below) - 1 /\ Len(below) - 1 \in Nat
               /\ AllFine(Task, below) => AllFine(Task, lower)
               /\ FrameGood(Task, below[Len(below)], item.start, Len(below) - 1)
        BY <1>3, ChainPop
      <4> QED
        BY <4>1
    <3>2. n \in Nat /\ DOMAIN below = 1 .. n
      BY DEF Frames, IsRow
    <3>3. n \in DOMAIN below
      <4> HIDE DEF n, f
      <4> QED
        BY <3>1, <3>2
    <3>4. IsFrame(f)
      BY <3>3 DEF Frames
    <3>5. f.left # 0
      BY <1>3 DEF Waits
    <3> QED
      BY <3>1, <3>3, <3>4, <3>5
  <2>3. /\ Took(Task, g, f, x) /\ IsFrame(g)
        /\ Parser!Takes(f, item) <=>
              /\ f.head.k \in Strings =>
                   data[item.start].k = f.head.k /\ data[item.start].n # Open
              /\ f.head.k = "map" /\ f.read % 2 = 0 /\ Rejects(Task) => x.val \notin f.keys
    BY <2>2, AddedIsTaken
  <2>4. n - 1 + 1 = n
    BY <2>2 DEF Frames, IsRow
  <2> HIDE DEF f, g, n
  <2>5. CASE Parser!Takes(f, item)
    <3>1. FrameGood(Task, g, x.end, n - 1)
      BY <1>1, <2>2, <2>3, <2>4, <2>5, MemberTaken DEF n
    <3>2. g.start = f.start
      BY <2>3 DEF Took
    <3>3. Chain(Task, r, x.end) /\ r # << >> /\ (AllFine(Task, below) => AllFine(Task, r))
      BY <1>3, <3>1, <3>2, ChainTake DEF n, f
    <3>4. MembersRead'
      BY <1>1, <2>1, <3>3 DEF MembersRead
    <3> QED
      BY <2>1, <2>5, <3>4
  <2>6. CASE ~ Parser!Takes(f, item)
    <3> SUFFICES ASSUME IsValid(data) PROVE FALSE
      BY <2>1, <2>6
    <3>1. Fine(Task, f.start, n - 1)
      BY <2>2 DEF AllFine, Frames, IsRow, f, n
    <3>2. ~ AtStop(data, item.start)
      BY DEF ItemAt, Here, AtStop, Break, Lead
    <3>3. f.head.k \in Strings =>
             data[item.start].k = f.head.k /\ data[item.start].n # Open
      BY <1>1, <2>2, <3>1, <3>2, NextIsFine
    <3>4. f.head.k = "map" /\ f.read % 2 = 0 /\ Rejects(Task) => x.val \notin f.keys
      BY <1>1, <2>2, <3>1, NextIsNew
    <3> QED
      BY <2>3, <2>6, <3>3, <3>4
  <2> QED
    BY <2>5, <2>6
<1> QED
  BY <1>2, <1>3

(* What is known while the parser runs.                                    *)
Running ==
  /\ IsTask(Task) /\ Task.d = data /\ Task.depth = limits.max_depth
  /\ limits.max_depth \in Nat /\ limits.max_items \in Nat
  /\ IsData(data) /\ Len(data) \in Nat /\ DOMAIN data = 1 .. Len(data) /\ Open \notin Nat
  /\ result = "Running" /\ HeadsRead /\ MembersRead
  /\ Frames(stack) /\ (stack # << >> => root = << >>)

(* It follows from the invariants.                                         *)
LEMMA WhileRunning ==
  ASSUME Parser!CborConstants, ParserInv, ParseInv, result = "Running"
  PROVE  Running
<1>1. limits.max_depth \in Nat /\ limits.max_items \in Nat
  BY DEF ParserInv, ParserShape, Parser!CborConstants
<1>2. IsData(data) /\ Len(data) \in Nat /\ DOMAIN data = 1 .. Len(data) /\ Open \notin Nat
  BY DEF ParseInv, IsData, IsRow
<1>3. IsTask(Task) /\ Task.d = data /\ Task.depth = limits.max_depth
  BY <1>1, <1>2 DEF IsTask, Task
<1>4. HeadsRead /\ MembersRead
  BY DEF ParseInv
<1>5. Frames(stack) /\ (stack # << >> => root = << >>)
  BY DEF ParserInv, ParserShape
<1> QED
  BY <1>1, <1>2, <1>3, <1>4, <1>5 DEF Running

(* The activation on top, and the stack below it.                          *)
LEMMA OnTop ==
  ASSUME Running, stack # << >>
  PROVE  LET below == SubSeq(stack, 1, Len(stack) - 1)
             f == Parser!Top
         IN /\ f = stack[Len(stack)] /\ FrameGood(Task, f, pos, Len(stack) - 1)
            /\ Len(stack) - 1 \in Nat /\ Len(below) = Len(stack) - 1
            /\ IsValid(data) => Fine(Task, f.start, Len(stack) - 1)
            /\ Chain(Task, below, f.start) /\ Waits(below, f.start)
            /\ IsValid(data) => AllFine(Task, below)
            /\ Frames(below)
            /\ f.start \in 1 .. Len(data) /\ f.head = data[f.start]
<1> DEFINE n == Len(stack)
           below == SubSeq(stack, 1, n - 1)
           f == stack[n]
<1>1. Chain(Task, stack, pos) /\ (IsValid(data) => AllFine(Task, stack))
  BY DEF Running, MembersRead
<1>2. /\ Chain(Task, below, f.start) /\ Waits(below, f.start)
      /\ Len(below) = n - 1 /\ n - 1 \in Nat
      /\ AllFine(Task, stack) => AllFine(Task, below)
      /\ FrameGood(Task, f, pos, n - 1)
  <2>1. LET below1 == SubSeq(stack, 1, Len(stack) - 1)
            start == stack[Len(stack)].start
        IN /\ Chain(Task, below1, start) /\ Waits(below1, start)
           /\ Len(below1) = Len(stack) - 1 /\ Len(stack) - 1 \in Nat
           /\ AllFine(Task, stack) => AllFine(Task, below1)
           /\ FrameGood(Task, stack[Len(stack)], pos, Len(stack) - 1)
    BY <1>1, ChainPop
  <2> QED
    BY <2>1
<1>3. /\ IsRow(below) /\ n \in 1 .. n /\ DOMAIN stack = 1 .. n
      /\ \A i \in DOMAIN below : i \in DOMAIN stack /\ below[i] = stack[i]
  <2>1. IsRow(stack)
    BY DEF Running, Frames
  <2>2. LET front == SubSeq(stack, 1, Len(stack) - 1)
        IN /\ IsRow(front) /\ Len(front) = Len(stack) - 1
           /\ Len(stack) \in 1 .. Len(stack) /\ DOMAIN stack = 1 .. Len(stack)
           /\ \A i \in DOMAIN front : i \in DOMAIN stack /\ front[i] = stack[i]
    BY <2>1, RowFront
  <2> QED
    BY <2>2
<1> HIDE DEF below
<1>4. Frames(below)
  BY <1>3 DEF Running, Frames
<1>5. IsValid(data) => Fine(Task, f.start, n - 1)
  BY <1>1, <1>3 DEF AllFine
<1>6. f.start \in 1 .. Len(data) /\ f.head = data[f.start]
  BY <1>2 DEF FrameGood, Task
<1> QED
  BY <1>1, <1>2, <1>4, <1>5, <1>6 DEF Parser!Top, below

(* Where a member is due, valid data has one, and it breaks no rule.       *)
LEMMA DueIsFine ==
  ASSUME Running, Parser!MemberDue
  PROVE  /\ root = << >> /\ Waits(stack, pos)
         /\ IsValid(data) => Fine(Task, pos, Len(stack))
<1>1. CASE stack = << >>
  <2>1. root = << >> /\ pos = 1
    BY <1>1 DEF Parser!MemberDue, Running, MembersRead
  <2>2. IsValid(data) => Fine(Task, 1, 0)
    BY ValidData DEF Running
  <2> QED
    BY <1>1, <2>1, <2>2 DEF Waits
<1>2. CASE stack # << >>
  <2> DEFINE f == Parser!Top
  <2>1. /\ f = stack[Len(stack)] /\ FrameGood(Task, f, pos, Len(stack) - 1)
        /\ Len(stack) - 1 \in Nat
        /\ IsValid(data) => Fine(Task, f.start, Len(stack) - 1)
    BY <1>2, OnTop
  <2>2. f.left # 0 /\ ~ (f.left = Open /\ AtStop(data, pos))
    <3>1. Parser!Break = Break
      BY SameGrammar
    <3> QED
      BY <1>2, <3>1 DEF Parser!MemberDue, Parser!IsFull, Parser!AtBreak, AtStop
  <2>3. IsValid(data) => Fine(Task, pos, Len(stack) - 1 + 1)
    <3> HIDE DEF f
    <3> QED
      BY <2>1, <2>2, NextIsFine DEF Running
  <2>4. Len(stack) - 1 + 1 = Len(stack)
    BY DEF Running, Frames, IsRow
  <2> QED
    BY <1>2, <2>1, <2>2, <2>3, <2>4 DEF Waits, Running
<1> QED
  BY <1>1, <1>2

(* How many heads are read when one more is.                               *)
LEMMA HeadsCount ==
  ASSUME Running
  PROVE  /\ IsFiniteSet(Heads(pos - 1)) /\ Cardinality(Heads(pos - 1)) \in Nat
         /\ pos <= Len(data) =>
              Cardinality(Heads(pos)) =
                IF data[pos] = Break THEN Cardinality(Heads(pos - 1))
                                     ELSE Cardinality(Heads(pos - 1)) + 1
         /\ pos <= Len(data) /\ data[pos] # Break =>
              Cardinality(Heads(pos - 1)) < ItemCount(data)
<1>1. pos \in 1 .. Len(data) + 1 /\ Len(data) \in Nat /\ DOMAIN data = 1 .. Len(data)
  BY DEF Running, HeadsRead
<1>2. /\ IsFiniteSet(Heads(pos - 1)) /\ IsFiniteSet(Heads(Len(data)))
      /\ Cardinality(Heads(pos - 1)) \in Nat
  <2>1. IsFiniteSet(1 .. pos - 1) /\ IsFiniteSet(1 .. Len(data))
    BY <1>1, FS_Interval
  <2>2. Heads(pos - 1) \subseteq 1 .. pos - 1 /\ Heads(Len(data)) \subseteq 1 .. Len(data)
    BY DEF Heads
  <2>3. IsFiniteSet(Heads(pos - 1)) /\ IsFiniteSet(Heads(Len(data)))
    BY <2>1, <2>2, FS_Subset
  <2> QED
    BY <2>3, FS_CardinalityType
<1>3. pos \notin Heads(pos - 1)
  BY <1>1 DEF Heads
<1>4. Heads(pos) = IF data[pos] = Break THEN Heads(pos - 1) ELSE Heads(pos - 1) \cup {pos}
  <2>1. 1 .. pos = (1 .. pos - 1) \cup {pos}
    BY <1>1
  <2> QED
    BY <2>1 DEF Heads
<1>5. Cardinality(Heads(pos - 1) \cup {pos}) = Cardinality(Heads(pos - 1)) + 1
  BY <1>2, <1>3, FS_AddElement
<1>6. ASSUME pos <= Len(data), data[pos] # Break
      PROVE  Cardinality(Heads(pos - 1)) < ItemCount(data)
  <2>1. Heads(pos - 1) \cup {pos} \subseteq Heads(Len(data))
    BY <1>1, <1>6 DEF Heads
  <2>2. Cardinality(Heads(pos - 1) \cup {pos}) <= Cardinality(Heads(Len(data)))
    BY <1>2, <2>1, FS_Subset
  <2>3. ItemCount(data) = Cardinality(Heads(Len(data)))
    BY <1>1 DEF ItemCount, Heads
  <2>4. Cardinality(Heads(Len(data))) \in Nat
    BY <1>2, FS_CardinalityType
  <2> QED
    BY <1>2, <1>5, <2>2, <2>3, <2>4
<1> QED
  BY <1>2, <1>4, <1>5, <1>6

(* A step that reads on, or gives up on data that is not valid.            *)
LEMMA ParseGoesOn ==
  ASSUME IsData(data), data' = data, call' = call, limits' = limits,
         \/ result' = "Running" /\ HeadsRead' /\ MembersRead'
         \/ result' = "Err" /\ ~ IsValid(data)
  PROVE  ParseInv'
<1>1. IsData(data') /\ (IsValid(data)' <=> IsValid(data))
  BY DEF IsValid, RejectsDuplicates
<1>2. Done' => Answered'
  BY <1>1 DEF Answered, Done
<1> QED
  BY <1>1, <1>2 DEF ParseInv

(* One head more.                                                          *)
LEMMA OneHeadRead ==
  ASSUME Running, pos <= Len(data), pos' = pos + 1, data' = data, limits' = limits,
         items' = Cardinality(Heads(pos)), items' <= limits.max_items,
         limits.require_definite => data[pos].n # Open
  PROVE  HeadsRead'
<1>1. pos \in 1 .. Len(data) /\ Len(data) \in Nat
  BY DEF Running, HeadsRead
<1>2. pos + 1 \in 1 .. Len(data) + 1 /\ pos + 1 - 1 = pos
  BY <1>1
<1>3. pos' - 1 = pos
  <2>1. pos \in Int
    BY <1>1
  <2> QED
    BY <2>1
<1>4. limits.require_definite => \A i \in 1 .. pos : data[i].n # Open
  <2>1. \A i \in 1 .. pos : i = pos \/ i \in 1 .. pos - 1
    BY <1>1
  <2> QED
    BY <2>1 DEF Running, HeadsRead
<1>5. Heads(pos - 1)' = Heads(pos)
  <2>1. Heads(pos - 1)' = {i \in 1 .. pos' - 1 : data'[i] # Break}
    BY DEF Heads
  <2>2. {i \in 1 .. pos' - 1 : data'[i] # Break} = Heads(pos)
    BY <1>3 DEF Heads
  <2> QED
    BY <2>1, <2>2
<1>6. pos' \in 1 .. Len(data') + 1
  BY <1>2
<1>7. limits'.require_definite => \A i \in 1 .. pos' - 1 : data'[i].n # Open
  BY <1>3, <1>4
<1> QED
  BY <1>5, <1>6, <1>7 DEF HeadsRead

(* A head that is read is in its place, alone or as an activation.         *)
LEMMA HeadIsRead ==
  ASSUME Running, Parser!ReadHead
  PROVE  ParseInv'
<1> DEFINE h == data[pos]
           n == Len(stack)
<1>1. /\ root = << >> /\ Waits(stack, pos) /\ Chain(Task, stack, pos) /\ Frames(stack)
      /\ IsValid(data) => Fine(Task, pos, n)
      /\ IsValid(data) => AllFine(Task, stack)
  BY DueIsFine DEF Running, MembersRead, Parser!ReadHead
<1>2. /\ n <= limits.max_depth /\ items < limits.max_items /\ pos <= Len(data)
      /\ h.k \notin {"break", "reserved"}
      /\ limits.require_definite => h.n # Open
      /\ pos' = pos + 1 /\ items' = items + 1
      /\ data' = data /\ call' = call /\ limits' = limits
  BY DEF Parser!ReadHead, Parser!HeadAllowed, Parser!input
<1>3. /\ pos \in 1 .. Len(data) /\ Len(data) \in Nat /\ IsData(data) /\ n \in Nat
      /\ result = "Running" /\ limits.max_depth \in Nat /\ limits.max_items \in Nat
      /\ IsTask(Task) /\ Task.d = data /\ Task.depth = limits.max_depth /\ IsHead(h)
  BY <1>2 DEF Running, HeadsRead, Frames, IsRow, IsData
<1>4. HeadsRead'
  <2>1. h # Break
    BY <1>2 DEF Break, Lead
  <2>2. /\ items = Cardinality(Heads(pos - 1)) /\ items \in Nat
        /\ Cardinality(Heads(pos)) = items + 1
    BY <1>2, <2>1, HeadsCount DEF Running, HeadsRead
  <2>3. items + 1 <= limits.max_items
    BY <1>2, <1>3, <2>2
  <2> QED
    BY <1>2, <2>2, <2>3, OneHeadRead
<1>5. CASE Opens(h)
  <2> DEFINE g == Parser!Frame(h)
  <2>1. stack' = Append(stack, g) /\ root' = root /\ result' = result
    BY <1>5, SameGrammar DEF Parser!ReadHead
  <2>2. /\ g.head = h /\ g.start = pos /\ g.left = Members(h) /\ g.read = 0 /\ g.keys = {}
    BY SameGrammar DEF Parser!Frame
  <2> HIDE DEF g, n
  <2>3. FrameGood(Task, g, pos + 1, n)
    <3> DEFINE a == NoMembers(pos + 1)
    <3>1. a \in ItemsOf(data)[<<pos + 1, 0>>]
      <4>1. Grammar(ItemsOf(data), data) /\ pos + 1 \in 1 .. Len(data) + 1
        BY <1>3, TaskGrammar
      <4> QED
        BY <4>1, BegunEmpty
    <3>2. a.end = pos + 1 /\ a.height = 0 /\ a.repeats = FALSE /\ a.heads = {}
      BY DEF NoMembers
    <3> HIDE DEF a
    <3>3. ItemGood(Task, a, n) /\ Chunks(Task, g, a.heads)
      BY <1>2, <1>3, <3>2 DEF ItemGood, Chunks
    <3>4. KeysApart(Task, g, a.vals)
      <4>1. Odds(0) = {}
        BY DEF Odds
      <4> QED
        BY <2>2, <4>1 DEF KeysApart
    <3>5. HasParsed(Task, g, pos + 1, n, a)
      BY <1>3, <2>2, <3>1, <3>2, <3>3, <3>4 DEF HasParsed
    <3>6. MembersLeft(g)
      <4>1. Members(h) \in Counts
        BY <1>3, <1>5, MembersCount DEF IsData
      <4> QED
        BY <2>2, <4>1 DEF MembersLeft, Counts
    <3> QED
      BY <1>3, <1>5, <2>2, <3>5, <3>6 DEF FrameGood
  <2>4. /\ Chain(Task, Append(stack, g), pos + 1)
        /\ AllFine(Task, stack) /\ Fine(Task, pos, n) => AllFine(Task, Append(stack, g))
    BY <1>1, <2>2, <2>3, ChainPush DEF n
  <2>5. Append(stack, g) # << >>
    <3>1. IsRow(stack)
      BY <1>1 DEF Frames
    <3>2. Len(Append(stack, g)) = Len(stack) + 1
      BY <3>1, RowAppend
    <3>3. Len(stack) \in Nat /\ Len(<< >>) = 0
      BY <3>1 DEF IsRow
    <3> QED
      BY <3>2, <3>3
  <2>6. Task' = Task /\ (IsValid(data)' <=> IsValid(data))
    BY <1>2 DEF Task, IsValid, RejectsDuplicates
  <2>7. MembersRead'
    BY <1>1, <1>2, <2>1, <2>4, <2>5, <2>6 DEF MembersRead, n
  <2> QED
    BY <1>2, <1>3, <1>4, <2>1, <2>7, ParseGoesOn
<1>6. CASE ~ Opens(h)
  <2> DEFINE item == Parser!Item(h, << >>, pos, pos + 1)
             x == Alone(h, pos)
  <2>1. Parser!Deliver(item, stack)
    BY <1>6, SameGrammar DEF Parser!ReadHead
  <2>2. item.start = pos /\ item.head = h
    BY DEF Parser!Item
  <2>3. x \in ItemAt(data, pos)
    BY <1>2, <1>3, <1>6 DEF ItemAt, Here
  <2>4. x.end = pos + 1 /\ x.height = 0 /\ x.repeats = FALSE
    BY DEF Alone
  <2> HIDE DEF item, x
  <2>5. ItemGood(Task, x, n)
    BY <1>2, <1>3, <2>4 DEF ItemGood
  <2>6. \/ result' = "Running" /\ MembersRead'
        \/ result' = "Err" /\ ~ IsValid(data)
    BY <1>1, <1>2, <1>3, <2>1, <2>2, <2>3, <2>4, <2>5, DeliveryReads
  <2> QED
    BY <1>2, <1>3, <1>4, <2>6, ParseGoesOn
<1> QED
  BY <1>5, <1>6

(* A container that is complete is delivered.                              *)
LEMMA TopIsDelivered ==
  ASSUME Running, stack # << >>, NEW e,
         Parser!Deliver(Parser!Item(Parser!Top.head, Parser!Top.kids, Parser!Top.start, e),
                        SubSeq(stack, 1, Len(stack) - 1)),
         NEW x \in ItemAt(data, Parser!Top.start), ItemGood(Task, x, Len(stack) - 1),
         pos' = x.end, data' = data, call' = call, limits' = limits
  PROVE  \/ result' = "Running" /\ MembersRead'
         \/ result' = "Err" /\ ~ IsValid(data)
<1> DEFINE below == SubSeq(stack, 1, Len(stack) - 1)
           f == Parser!Top
           item == Parser!Item(f.head, f.kids, f.start, e)
<1>1. /\ Chain(Task, below, f.start) /\ Waits(below, f.start) /\ Frames(below)
      /\ IsValid(data) => AllFine(Task, below)
      /\ Len(below) = Len(stack) - 1
      /\ f.start \in 1 .. Len(data) /\ f.head = data[f.start]
  BY OnTop
<1>2. item.start = f.start /\ item.head = f.head
  BY DEF Parser!Item
<1>3. Parser!Deliver(item, below)
  OBVIOUS
<1>4. IsData(data) /\ limits.max_depth \in Nat /\ result = "Running" /\ root = << >>
  BY DEF Running
<1> HIDE DEF item, below, f
<1>5. x \in ItemAt(data, f.start) /\ ItemGood(Task, x, Len(below))
  BY <1>1 DEF f
<1> QED
  BY <1>1, <1>2, <1>3, <1>4, <1>5, DeliveryReads

(* A break that is read completes an item.                                 *)
LEMMA BreakIsRead ==
  ASSUME Running, Parser!ReadBreak
  PROVE  ParseInv'
<1> DEFINE f == Parser!Top
           n == Len(stack)
<1>1. /\ stack # << >> /\ f.left = Open /\ ~ Parser!OwesValue(f)
      /\ pos <= Len(data) /\ data[pos] = Break
      /\ pos' = pos + 1 /\ items' = items
      /\ data' = data /\ call' = call /\ limits' = limits
      /\ Parser!Deliver(Parser!Item(f.head, f.kids, f.start, pos + 1),
                        SubSeq(stack, 1, Len(stack) - 1))
  BY SameGrammar DEF Parser!ReadBreak, Parser!AtBreak, Parser!input
<1>2. FrameGood(Task, f, pos, n - 1) /\ n - 1 \in Nat
  BY <1>1, OnTop
<1>3. IsTask(Task) /\ Task.d = data /\ Open \notin Nat /\ IsData(data)
  BY DEF Running
<1> HIDE DEF f, n
<1>4. f.head.k = "map" => f.read % 2 = 0
  <2>1. f.read \in Nat
    BY <1>2 DEF FrameGood
  <2>2. f.head.k = "map" => f.read % 2 # 1
    BY <1>1 DEF Parser!OwesValue, f
  <2> QED
    BY <2>1, <2>2
<1>5. PICK x \in ItemAt(data, f.start) : x.end = pos + 1 /\ ItemGood(Task, x, n - 1)
  <2>1. AtStop(data, pos)
    BY <1>1 DEF AtStop
  <2> QED
    BY <1>1, <1>2, <1>3, <1>4, <2>1, ClosedAtStop
<1>6. \/ result' = "Running" /\ MembersRead'
      \/ result' = "Err" /\ ~ IsValid(data)
  BY <1>1, <1>5, TopIsDelivered DEF f, n
<1>7. HeadsRead'
  <2>1. /\ items = Cardinality(Heads(pos - 1)) /\ items <= limits.max_items
        /\ Cardinality(Heads(pos)) = Cardinality(Heads(pos - 1))
    BY <1>1, HeadsCount DEF Running, HeadsRead
  <2>2. data[pos].n # Open
    BY <1>1, <1>3 DEF Break, Lead
  <2> QED
    BY <1>1, <2>1, <2>2, OneHeadRead
<1> QED
  BY <1>1, <1>3, <1>6, <1>7, ParseGoesOn

(* As does the last of the members that were announced.                    *)
LEMMA CountedIsClosed ==
  ASSUME Running, Parser!CloseCounted
  PROVE  ParseInv'
<1> DEFINE f == Parser!Top
           n == Len(stack)
<1>1. /\ stack # << >> /\ f.left = 0
      /\ pos' = pos /\ items' = items
      /\ data' = data /\ call' = call /\ limits' = limits
      /\ Parser!Deliver(Parser!Item(f.head, f.kids, f.start, pos),
                        SubSeq(stack, 1, Len(stack) - 1))
  BY DEF Parser!CloseCounted, Parser!IsFull, Parser!input
<1>2. FrameGood(Task, f, pos, n - 1) /\ n - 1 \in Nat
  BY <1>1, OnTop
<1>3. IsTask(Task) /\ Task.d = data /\ IsData(data)
  BY DEF Running
<1> HIDE DEF f, n
<1>4. PICK x \in ItemAt(data, f.start) : x.end = pos /\ ItemGood(Task, x, n - 1)
  BY <1>1, <1>2, <1>3, ClosedFull
<1>5. \/ result' = "Running" /\ MembersRead'
      \/ result' = "Err" /\ ~ IsValid(data)
  BY <1>1, <1>4, TopIsDelivered DEF f, n
<1>6. HeadsRead'
  <2>1. Heads(pos - 1)' = Heads(pos - 1)
    BY <1>1 DEF Heads
  <2> QED
    BY <1>1, <2>1 DEF Running, HeadsRead
<1> QED
  BY <1>1, <1>3, <1>5, <1>6, ParseGoesOn

(* Where the parser refuses a head, the data is not valid.                 *)
LEMMA HeadIsRefused ==
  ASSUME Running, Parser!RefuseHead
  PROVE  ParseInv'
<1>1. /\ Parser!MemberDue /\ ~ Parser!HeadAllowed /\ result' = "Err"
      /\ data' = data /\ call' = call /\ limits' = limits
  BY DEF Parser!RefuseHead, Parser!Fail, Parser!input
<1>2. /\ IsData(data) /\ Len(data) \in Nat /\ limits.max_depth \in Nat
      /\ limits.max_items \in Nat /\ Task.d = data /\ Task.depth = limits.max_depth
      /\ pos \in 1 .. Len(data) + 1 /\ Len(stack) \in Nat
      /\ items = Cardinality(Heads(pos - 1)) /\ items \in Nat
  BY HeadsCount DEF Running, HeadsRead, Frames, IsRow
<1>3. ASSUME IsValid(data) PROVE FALSE
  <2>1. PICK x \in ItemAt(data, pos) : ItemGood(Task, x, Len(stack))
    BY <1>1, <1>2, <1>3, DueIsFine DEF Fine
  <2>2. x.height \in Nat
    <3>1. Grammar(ItemsOf(data), data)
      BY <1>2, ItemsAreTheGrammar DEF Grammar
    <3>2. ItemKnown(ItemsOf(data), data, pos)
      BY <1>2, <3>1, OneParse
    <3> QED
      BY <2>1, <3>2 DEF ItemKnown, ItemAt, IsItem
  <2>3. Len(stack) <= limits.max_depth
    <3>1. Len(stack) + x.height <= limits.max_depth
      BY <1>2, <2>1 DEF ItemGood
    <3> QED
      BY <1>2, <2>2, <3>1
  <2>4. pos <= Len(data) /\ data[pos].k \notin {"break", "reserved"}
    BY <1>2, <2>1 DEF ItemAt, Here
  <2>5. limits.require_definite => data[pos].n # Open
    BY <1>2, <1>3, <2>4, ValidData
  <2>6. items < limits.max_items
    <3>1. data[pos] # Break
      BY <2>4 DEF Break, Lead
    <3>2. items < ItemCount(data) /\ ItemCount(data) <= limits.max_items
      BY <1>2, <1>3, <2>4, <3>1, HeadsCount, ValidData
    <3>3. ItemCount(data) \in Nat
      <4>1. IsFiniteSet(1 .. Len(data)) /\ DOMAIN data = 1 .. Len(data)
        BY <1>2, FS_Interval DEF Running
      <4>2. {i \in DOMAIN data : data[i] # Break} \subseteq 1 .. Len(data)
        BY <4>1
      <4> QED
        BY <4>1, <4>2, FS_Subset, FS_CardinalityType DEF ItemCount
    <3> QED
      BY <1>2, <3>2, <3>3
  <2> QED
    BY <1>1, <2>3, <2>4, <2>5, <2>6 DEF Parser!HeadAllowed
<1> QED
  BY <1>1, <1>2, <1>3, ParseGoesOn

(* A break that leaves a key without a value is in no valid data either.   *)
LEMMA BreakIsRefused ==
  ASSUME Running, Parser!RefuseBreak
  PROVE  ParseInv'
<1> DEFINE f == Parser!Top
           depth == Len(stack) - 1
<1>1. /\ stack # << >> /\ f.left = Open /\ AtStop(data, pos)
      /\ f.head.k = "map" /\ f.read % 2 = 1 /\ result' = "Err"
      /\ data' = data /\ call' = call /\ limits' = limits
  BY SameGrammar
  DEF Parser!RefuseBreak, Parser!Fail, Parser!input, Parser!AtBreak,
      Parser!OwesValue, AtStop
<1>2. /\ FrameGood(Task, f, pos, depth) /\ depth \in Nat
      /\ IsValid(data) => Fine(Task, f.start, depth)
  BY <1>1, OnTop
<1>3. IsTask(Task) /\ Task.d = data /\ IsData(data)
  BY DEF Running
<1> HIDE DEF f, depth
<1>4. ASSUME IsValid(data) PROVE FALSE
  <2> DEFINE F == ItemsOf(data)
             j == f.start + 1
             n == f.read
  <2>1. PICK c \in F[<<j, Members(f.head)>>] : Fits(data, f.head, c)
    BY <1>2, <1>3, <1>4, FineInside
  <2>2. PICK a : HasParsed(Task, f, pos, depth, a)
    BY <1>2 DEF FrameGood
  <2>3. /\ Grammar(F, data) /\ j \in 1 .. Len(data) + 1 /\ n \in Nat /\ n \in Counts
        /\ a \in F[<<j, n>>] /\ a.end = pos /\ Open \notin Nat /\ Open \in Counts
    BY <1>2, <1>3, <2>2, TaskGrammar, FrameFacts DEF HasParsed, FrameGood, Counts
  <2>4. Members(f.head) = Open
    BY <1>1, <1>2, <2>3 DEF FrameGood, MembersLeft
  <2> HIDE DEF F, j, n
  <2>5. PICK q \in F[<<j, Open>>] : Stopped(q, a)
    <3>1. StopsThere(F, data, n)
      BY <2>3, StopIsTheEnd
    <3> QED
      BY <1>1, <2>3, <3>1 DEF StopsThere
  <2>6. Len(a.vals) = n
    <3>1. BeginsMore(F, data, n)
      BY <2>3, MembersBegin
    <3>2. Reaches(n, n)
      BY <2>3 DEF Reaches
    <3> QED
      BY <2>3, <3>1, <3>2 DEF BeginsMore
  <2>7. c = q
    <3>1. KnownAt(F, data, j)
      BY <2>3, OneParse
    <3> QED
      BY <2>1, <2>3, <2>4, <2>5, <3>1 DEF KnownAt
  <2>8. Len(c.vals) = n /\ Len(c.vals) % 2 = 0
    BY <1>1, <2>1, <2>5, <2>6, <2>7 DEF Stopped, Fits
  <2> QED
    BY <1>1, <2>8 DEF n
<1> QED
  BY <1>1, <1>3, <1>4, ParseGoesOn

(* The answer is right.                                                    *)
LEMMA AnswerIsRight ==
  ASSUME Running, Parser!Return
  PROVE  ParseInv'
<1>1. /\ root # << >> /\ data' = data /\ call' = call /\ limits' = limits
      /\ result' = IF pos = Len(data) + 1 /\ Parser!Answer(root[1]).ok THEN "Ok" ELSE "Err"
  BY DEF Parser!Return, Parser!input
<1>2. /\ IsData(data) /\ Len(data) \in Nat /\ limits.max_depth \in Nat
      /\ limits.max_items \in Nat /\ Task.d = data /\ Task.depth = limits.max_depth
      /\ DOMAIN data = 1 .. Len(data)
      /\ items = Cardinality(Heads(pos - 1)) /\ items <= limits.max_items
      /\ limits.require_definite => \A i \in 1 .. pos - 1 : data[i].n # Open
  BY DEF Running, HeadsRead
<1>3. PICK x \in ItemAt(data, 1) : x.end = pos /\ ItemGood(Task, x, 0)
  BY <1>1 DEF Running, MembersRead
<1>4. root[1].head = data[1]
  BY <1>1 DEF Running, MembersRead
<1>5. ItemKnown(ItemsOf(data), data, 1)
  <2>1. Grammar(ItemsOf(data), data)
    BY <1>2, ItemsAreTheGrammar DEF Grammar
  <2> QED
    BY <1>2, <2>1, OneParse
<1>6. x.height \in Nat /\ \A y \in ItemAt(data, 1) : y = x
  BY <1>3, <1>5 DEF ItemKnown, ItemAt, IsItem
<1>7. IsValid(data) <=> pos = Len(data) + 1
  <2>1. ASSUME IsValid(data) PROVE pos = Len(data) + 1
    <3>1. PICK y \in WholeItem(data) : TRUE
      BY <2>1 DEF IsValid
    <3> QED
      BY <1>3, <1>6, <3>1 DEF WholeItem
  <2>2. ASSUME pos = Len(data) + 1 PROVE IsValid(data)
    <3>1. pos - 1 = Len(data)
      BY <1>2, <2>2
    <3>2. x \in WholeItem(data)
      BY <1>3, <2>2 DEF WholeItem
    <3>3. x.height <= limits.max_depth /\ (RejectsDuplicates => ~ x.repeats)
      <4>1. 0 + x.height <= limits.max_depth
        BY <1>2, <1>3 DEF ItemGood
      <4>2. RejectsDuplicates => ~ x.repeats
        BY <1>3 DEF ItemGood, Rejects, RejectsDuplicates, Task
      <4> QED
        BY <1>2, <1>6, <4>1, <4>2
    <3>4. ItemCount(data) <= limits.max_items
      BY <1>2, <3>1 DEF ItemCount, Heads
    <3>5. limits.require_definite => Definite(data)
      BY <1>2, <3>1 DEF Definite
    <3> QED
      BY <3>2, <3>3, <3>4, <3>5 DEF IsValid
  <2> QED
    BY <2>1, <2>2
<1>8. Parser!Answer(root[1]) = Answer(root[1])
  BY SameAnswer
<1>9. (IsValid(data)' <=> IsValid(data)) /\ IsData(data)'
  BY <1>1, <1>2 DEF IsValid, RejectsDuplicates
<1>10. Answered'
  <2>1. root' = root /\ pos' = pos
    BY DEF Parser!Return
  <2>2. Answer(root[1])' = Answer(root[1])
    BY <1>1, <2>1 DEF Answer
  <2> QED
    BY <1>1, <1>4, <1>7, <1>8, <1>9, <2>1, <2>2 DEF Answered
<1>11. result' # "Running"
  BY <1>1
<1> QED
  BY <1>9, <1>10, <1>11 DEF ParseInv

(* The invariant holds at first.                                           *)
LEMMA ParseBegins ==
  ASSUME Parser!CborConstants, Parser!Init PROVE ParseInv
<1>1. /\ pos = 1 /\ items = 0 /\ stack = << >> /\ root = << >> /\ result = "Running"
      /\ limits \in LimitChoices \cup {DefaultLimits}
  BY DEF Parser!Init
<1>2. IsData(data)
  <2>1. PICK c \in Cases : data = c.data
    BY DEF Parser!Init
  <2>2. /\ data \in Seq({data[i] : i \in DOMAIN data}) /\ Open \notin Nat
        /\ \A i \in DOMAIN data : Parser!IsHead(data[i])
    BY <2>1 DEF Parser!CborConstants
  <2>3. IsRow(data)
    BY <2>2 DEF IsRow
  <2>4. \A i \in DOMAIN data : IsHead(data[i])
    BY <2>2 DEF Parser!IsHead, IsHead, Parser!Break, Break, Parser!Lead, Lead,
                Parser!Strings, Strings
  <2> QED
    BY <2>2, <2>3, <2>4 DEF IsData
<1>3. Len(data) \in Nat /\ limits.max_items \in Nat
  BY <1>1, <1>2 DEF IsData, IsRow, Parser!CborConstants
<1>4. HeadsRead
  <2>1. 1 - 1 = 0 /\ 1 .. 0 = {}
    OBVIOUS
  <2>2. Heads(pos - 1) = {} /\ Cardinality({}) = 0
    BY <1>1, <2>1, FS_EmptySet DEF Heads
  <2>3. limits.require_definite => \A i \in 1 .. pos - 1 : data[i].n # Open
    BY <1>1, <2>1
  <2>4. 1 \in 1 .. Len(data) + 1 /\ 0 <= limits.max_items
    BY <1>3
  <2>5. pos \in 1 .. Len(data) + 1 /\ items <= limits.max_items
    BY <1>1, <2>4
  <2>6. items = Cardinality(Heads(pos - 1))
    BY <1>1, <2>2
  <2> QED
    BY <2>3, <2>5, <2>6 DEF HeadsRead
<1>5. MembersRead
  <2>1. IsRow(<< >>) /\ Len(<< >>) = 0
    BY DEF IsRow
  <2>2. Chain(Task, << >>, 1) /\ AllFine(Task, << >>)
    BY <2>1 DEF Chain, AllFine
  <2> QED
    BY <1>1, <2>2 DEF MembersRead
<1> QED
  BY <1>1, <1>2, <1>4, <1>5 DEF ParseInv, Done

(* Every step keeps it.                                                    *)
LEMMA ParseSteps ==
  ASSUME Parser!CborConstants, ParserInv, ParseInv, [Parser!Next]_(Parser!vars)
  PROVE  ParseInv'
<1>1. ASSUME result = "Running" PROVE Running
  BY <1>1, WhileRunning
<1>2. CASE Parser!ReadHead
  BY <1>1, <1>2, HeadIsRead DEF Parser!ReadHead
<1>3. CASE Parser!RefuseHead
  BY <1>1, <1>3, HeadIsRefused DEF Parser!RefuseHead
<1>4. CASE Parser!ReadBreak
  BY <1>1, <1>4, BreakIsRead DEF Parser!ReadBreak
<1>5. CASE Parser!RefuseBreak
  BY <1>1, <1>5, BreakIsRefused DEF Parser!RefuseBreak
<1>6. CASE Parser!CloseCounted
  BY <1>1, <1>6, CountedIsClosed DEF Parser!CloseCounted
<1>7. CASE Parser!Return
  BY <1>1, <1>7, AnswerIsRight DEF Parser!Return
<1>8. CASE UNCHANGED Parser!vars
  <2>1. UNCHANGED <<data, call, limits, pos, items, stack, root, result>>
    BY <1>8 DEF Parser!vars
  <2> QED
    BY <2>1
    DEF ParseInv, HeadsRead, MembersRead, Heads, Task, Answered, Answer,
        Done, IsValid, RejectsDuplicates
<1> QED
  BY <1>2, <1>3, <1>4, <1>5, <1>6, <1>7, <1>8 DEF Parser!Next

(* A call that only validates succeeds exactly for the data that is one    *)
(* item of the grammar within its limits, with no key twice in a map, for  *)
(* data of every length and shape and all limits (strict.rs:113-240).      *)
THEOREM ParserAcceptsTheGrammar ==
  Parser!CborConstants => (Parser!Spec => []AcceptsExactlyTheGrammar)
<1> SUFFICES ASSUME Parser!CborConstants
             PROVE  Parser!Spec => []AcceptsExactlyTheGrammar
  OBVIOUS
<1>1. Parser!Init => ParserInv /\ ParseInv
  BY ParserStarts, ParseBegins
<1>2. (ParserInv /\ ParseInv) /\ [Parser!Next]_(Parser!vars) => (ParserInv /\ ParseInv)'
  BY ParserSteps, ParseSteps
<1>3. ParserInv /\ ParseInv => AcceptsExactlyTheGrammar
  BY DEF ParseInv, Answered, Answer, AcceptsExactlyTheGrammar
<1> QED
  BY <1>1, <1>2, <1>3, PTL DEF Parser!Spec

-----------------------------------------------------------------------------
(* What is handed out.  An item is whole when it is what the data has at   *)
(* its place; a tag's member begins behind the tag and ends with it.       *)
Whole(x) ==
  /\ x.start \in 1 .. Len(data) /\ x.head = data[x.start]
  /\ x.head.k = "tag" =>
       /\ 1 \in DOMAIN x.kids
       /\ x.kids[1].start = x.start + 1 /\ x.kids[1].end = x.end
(* These items and all that is below them.                                 *)
AllWhole(tops) ==
  \E W : tops \subseteq W /\ KidsOf(W) \subseteq W /\ \A x \in W : Whole(x)

(* A look through one tag.                                                 *)
LEMMA PeelsOne ==
  ASSUME NEW y, AllWhole({y}), NEW S
  PROVE  LET z == Peel(y, S)
         IN /\ AllWhole({z}) /\ z.end = y.end
            /\ y.start \in 1 .. Len(data) /\ y.head = data[y.start]
            /\ z.start \in 1 .. Len(data) /\ z.head = data[z.start]
            /\ IsTag(y, S) => z = y.kids[1] /\ z.start = y.start + 1
            /\ ~ IsTag(y, S) => z = y /\ z.start = y.start
<1> DEFINE z == Peel(y, S)
<1>1. PICK W : {y} \subseteq W /\ KidsOf(W) \subseteq W /\ \A x \in W : Whole(x)
  BY DEF AllWhole
<1>2. Whole(y)
  BY <1>1
<1>3. CASE IsTag(y, S)
  <2>1. z = y.kids[1] /\ y.head.k = "tag"
    BY <1>3 DEF Peel, IsTag
  <2>2. 1 \in DOMAIN y.kids /\ z.start = y.start + 1 /\ z.end = y.end
    BY <1>2, <2>1 DEF Whole
  <2>3. z \in W
    <3>1. z \in {y.kids[i] : i \in DOMAIN y.kids}
      BY <2>1, <2>2
    <3> QED
      BY <1>1, <3>1 DEF KidsOf
  <2>4. {z} \subseteq W /\ Whole(z)
    BY <1>1, <2>3
  <2>5. AllWhole({z})
    BY <1>1, <2>4 DEF AllWhole
  <2> HIDE DEF z
  <2> QED
    BY <1>2, <1>3, <2>1, <2>2, <2>4, <2>5 DEF Whole, z
<1>4. CASE ~ IsTag(y, S)
  <2>1. z = y
    BY <1>4 DEF Peel
  <2> HIDE DEF z
  <2> QED
    BY <1>2, <1>4, <2>1 DEF Whole, z
<1> QED
  BY <1>3, <1>4

(* The first place behind the tags.                                        *)
LEMMA InsideIs ==
  ASSUME NEW x, x.start = 1, x.end = Len(data) + 1, Len(data) \in Nat,
         NEW m \in 1 .. Len(data), data[m].k # "tag",
         \A j \in 1 .. m - 1 : data[j].k = "tag"
  PROVE  Inside(x) = m
<1> DEFINE First(i) == /\ data[i].k # "tag"
                       /\ \A j \in x.start .. i - 1 : data[j].k = "tag"
<1>1. x.end - 1 = Len(data)
  OBVIOUS
<1>2. m \in x.start .. x.end - 1 /\ First(m)
  BY <1>1
<1>3. ASSUME NEW i \in x.start .. x.end - 1, First(i) PROVE i = m
  <2>1. i \in 1 .. Len(data)
    BY <1>1
  <2>2. ~ i < m
    BY <1>3, <2>1
  <2>3. ~ m < i
    BY <1>3, <2>1
  <2> QED
    BY <2>1, <2>2, <2>3
<1>4. Inside(x) = CHOOSE i \in x.start .. x.end - 1 : First(i)
  BY DEF Inside
<1> HIDE DEF First
<1> QED
  BY <1>2, <1>3, <1>4

(* Two rows with the same members.                                         *)
LEMMA SameRow ==
  ASSUME NEW s, NEW w, IsRow(s), IsRow(w), Len(s) = Len(w),
         \A i \in 1 .. Len(s) : s[i] = w[i]
  PROVE  s = w
<1>1. s = [i \in 1 .. Len(s) |-> s[i]] /\ w = [i \in 1 .. Len(s) |-> w[i]]
  BY DEF IsRow
<1>2. [i \in 1 .. Len(s) |-> s[i]] = [i \in 1 .. Len(s) |-> w[i]]
  OBVIOUS
<1> QED
  BY <1>1, <1>2

(* The six wrappings of a message.                                         *)
LEMMA WrappingIs ==
  ASSUME NEW w, IsRow(w), NEW t
  PROVE  LET L(n) == Lead("tag", n)
         IN w \in Wrapping(t) <=>
              \/ Len(w) = 0
              \/ Len(w) = 1 /\ (w[1] = L(55799) \/ w[1] = L(t))
              \/ Len(w) = 2 /\ (w[1] = L(55799) \/ w[1] = L(61)) /\ w[2] = L(t)
              \/ Len(w) = 3 /\ w[1] = L(55799) /\ w[2] = L(61) /\ w[3] = L(t)
<1> DEFINE L(n) == Lead("tag", n)
           e == << >>
           b == <<L(t)>>
           c == <<L(61)>> \o b
           d == <<L(55799)>>
           f == d \o b
           g == d \o c
<1>1. IsRow(e) /\ Len(e) = 0
  BY DEF IsRow
<1>2. /\ IsRow(b) /\ Len(b) = 1 /\ b[1] = L(t)
      /\ IsRow(d) /\ Len(d) = 1 /\ d[1] = L(55799)
  BY DEF IsRow
<1>3. IsRow(c) /\ Len(c) = 2 /\ c[1] = L(61) /\ c[2] = L(t)
  <2> HIDE DEF b
  <2> QED
    BY <1>2, RowCons
<1>4. IsRow(f) /\ Len(f) = 2 /\ f[1] = L(55799) /\ f[2] = L(t)
  <2> HIDE DEF b
  <2> QED
    BY <1>2, RowCons
<1>5. IsRow(g) /\ Len(g) = 3 /\ g[1] = L(55799) /\ g[2] = L(61) /\ g[3] = L(t)
  <2> HIDE DEF c
  <2> QED
    BY <1>3, RowCons
<1>6. w \in Wrapping(t) <=> w \in {e \o e, e \o b, e \o c, d \o e, d \o b, d \o c}
  BY DEF Wrapping, Tag
<1> HIDE DEF b, c, d, f, g
<1>7. e \o e = e /\ e \o b = b /\ e \o c = c /\ d \o e = d
  <2>0. ASSUME NEW s, IsRow(s) PROVE s \in Seq({s[i] : i \in DOMAIN s})
    <3> DEFINE S == {s[i] : i \in DOMAIN s}
    <3>1. Len(s) \in Nat /\ DOMAIN s = 1 .. Len(s) /\ s = [i \in 1 .. Len(s) |-> s[i]]
      BY <2>0 DEF IsRow
    <3>2. \A i \in 1 .. Len(s) : s[i] \in S
      BY <3>1
    <3> HIDE DEF S
    <3>3. s \in [1 .. Len(s) -> S]
      BY <3>1, <3>2
    <3> QED
      BY <3>1, <3>3 DEF S
  <2>1. b \in Seq({b[i] : i \in DOMAIN b}) /\ c \in Seq({c[i] : i \in DOMAIN c})
        /\ d \in Seq({d[i] : i \in DOMAIN d})
    BY <1>2, <1>3, <2>0
  <2> QED
    BY <2>1, ConcatEmptySeq
<1>8. w \in Wrapping(t) <=> w \in {e, b, c, d, f, g}
  BY <1>6, <1>7 DEF f, g
<1>9. Len(w) = 0 => w = e
  BY <1>1, SameRow
<1>10. /\ Len(w) = 1 /\ w[1] = L(t) => w = b
       /\ Len(w) = 1 /\ w[1] = L(55799) => w = d
  BY <1>2, SameRow
<1>11. /\ Len(w) = 2 /\ w[1] = L(61) /\ w[2] = L(t) => w = c
       /\ Len(w) = 2 /\ w[1] = L(55799) /\ w[2] = L(t) => w = f
  BY <1>3, <1>4, SameRow, SMTT(30)
<1>12. Len(w) = 3 /\ w[1] = L(55799) /\ w[2] = L(61) /\ w[3] = L(t) => w = g
  BY <1>5, SameRow
<1> HIDE DEF L, e
<1>13. ASSUME w \in {e, b, c, d, f, g}
       PROVE  \/ Len(w) = 0
              \/ Len(w) = 1 /\ (w[1] = L(55799) \/ w[1] = L(t))
              \/ Len(w) = 2 /\ (w[1] = L(55799) \/ w[1] = L(61)) /\ w[2] = L(t)
              \/ Len(w) = 3 /\ w[1] = L(55799) /\ w[2] = L(61) /\ w[3] = L(t)
  BY <1>1, <1>2, <1>3, <1>4, <1>5, <1>13
<1>14. w \in Wrapping(t) <=>
              \/ Len(w) = 0
              \/ Len(w) = 1 /\ (w[1] = L(55799) \/ w[1] = L(t))
              \/ Len(w) = 2 /\ (w[1] = L(55799) \/ w[1] = L(61)) /\ w[2] = L(t)
              \/ Len(w) = 3 /\ w[1] = L(55799) /\ w[2] = L(61) /\ w[3] = L(t)
  BY <1>8, <1>9, <1>10, <1>11, <1>12, <1>13
<1> QED
  BY <1>14 DEF L

(* What a message decoder makes of a whole item.                           *)
LEMMA Unwrapped ==
  ASSUME NEW x, AllWhole({x}), x.start = 1, x.end = Len(data) + 1,
         Len(data) \in Nat, NEW t \in MessageTags
  PROVE  LET out == MessageItem(x, t).item
             ok == MessageItem(x, t).ok
             tags == [i \in 1 .. Inside(x) - 1 |-> Lead("tag", data[i].n)]
         IN /\ ok =>
                 /\ tags \in Wrapping(t)
                 /\ out.start = Inside(x) /\ out.end = Len(data) + 1
                 /\ UntaggedItem(x).item = out
                 /\ Tag(t)[1] \in {tags[i] : i \in DOMAIN tags} =>
                      \A u \in MessageTags \ {t} : ~ MessageItem(x, u).ok
            /\ tags \in Wrapping(t) /\ MessageShape(out, t) => ok
<1> DEFINE plain == Peel(x, {55799})
           inner == Peel(plain, {61})
           out == Peel(inner, {t})
           ok == MessageItem(x, t).ok
           m == out.start
           tags == [i \in 1 .. Inside(x) - 1 |-> Lead("tag", data[i].n)]
           A == IsTag(x, {55799})
           B == IsTag(plain, {61})
           C == IsTag(inner, {t})
<1>1. /\ MessageItem(x, t).item = out
      /\ ok <=> /\ inner.head.k = "tag" => inner.head.n = t
                /\ B => C
                /\ MessageShape(out, t)
  BY DEF MessageItem
<1>2. UntaggedItem(x).item = Peel(inner, MessageTags)
  BY DEF UntaggedItem
<1>3. /\ AllWhole({plain}) /\ plain.end = x.end
      /\ x.head = data[1]
      /\ A => plain.start = 2
      /\ ~ A => plain.start = 1
  <2>1. /\ AllWhole({plain}) /\ plain.end = x.end
        /\ x.head = data[x.start]
        /\ A => plain.start = x.start + 1
        /\ ~ A => plain.start = x.start
    <3> DEFINE S == {55799}
    <3>1. plain = Peel(x, S) /\ (A <=> IsTag(x, S))
      OBVIOUS
    <3> HIDE DEF S, plain, A
    <3>2. /\ AllWhole({Peel(x, S)}) /\ Peel(x, S).end = x.end
          /\ x.head = data[x.start]
          /\ IsTag(x, S) => Peel(x, S).start = x.start + 1
          /\ ~ IsTag(x, S) => Peel(x, S).start = x.start
      BY PeelsOne, Zenon
    <3> QED
      BY <3>1, <3>2
  <2> HIDE DEF plain, A
  <2> QED
    BY <2>1
<1>4. /\ AllWhole({inner}) /\ inner.end = x.end
      /\ plain.head = data[plain.start]
      /\ B => inner.start = plain.start + 1
      /\ ~ B => inner.start = plain.start
  <2>1. AllWhole({plain}) /\ plain.end = x.end
    BY <1>3
  <2> HIDE DEF plain
  <2>2. inner.end = plain.end
    BY <2>1, PeelsOne, Zenon
  <2> QED
    BY <2>1, <2>2, PeelsOne, Zenon
<1>5. /\ out.end = x.end /\ inner.head = data[inner.start]
      /\ m \in 1 .. Len(data) /\ out.head = data[m]
      /\ C => out = inner.kids[1] /\ m = inner.start + 1
      /\ ~ C => out = inner /\ m = inner.start
  <2>1. AllWhole({inner}) /\ inner.end = x.end
    BY <1>4
  <2> HIDE DEF inner
  <2>2. out.end = inner.end
    BY <2>1, PeelsOne, Zenon
  <2> QED
    BY <2>1, <2>2, PeelsOne, Zenon
<1>6. /\ A <=> x.head.k = "tag" /\ x.head.n = 55799
      /\ B <=> plain.head.k = "tag" /\ plain.head.n = 61
      /\ C <=> inner.head.k = "tag" /\ inner.head.n = t
  BY DEF IsTag
<1>7. t # 55799 /\ t # 61
  BY DEF MessageTags
<1>8. ASSUME NEW u \in MessageTags, u # t, C PROVE ~ MessageItem(x, u).ok
  <2>1. MessageItem(x, u).ok => (inner.head.k = "tag" => inner.head.n = u)
    BY DEF MessageItem
  <2> QED
    BY <1>6, <1>8, <2>1
<1> HIDE DEF plain, inner, out, m, A, B, C, ok
<1> SUFFICES ASSUME MessageShape(out, t)
             PROVE  /\ ok <=> tags \in Wrapping(t)
                    /\ m = Inside(x)
                    /\ ok => UntaggedItem(x).item = out
                    /\ ok /\ Tag(t)[1] \in {tags[i] : i \in DOMAIN tags} => C
  BY <1>1, <1>5, <1>8 DEF ok, m
<1>9. data[m].k # "tag"
  BY <1>5 DEF MessageShape
<1>10. /\ A => data[1].k = "tag" /\ data[1].n = 55799
       /\ B => data[plain.start].k = "tag" /\ data[plain.start].n = 61
       /\ C => data[inner.start].k = "tag" /\ data[inner.start].n = t
  BY <1>3, <1>4, <1>5, <1>6
<1>11. Inside(x) = m
  <2>1. ASSUME NEW j \in 1 .. m - 1 PROVE data[j].k = "tag"
    <3> DEFINE p == plain.start
               q == inner.start
    <3>1. /\ A => p = 2
          /\ ~ A => p = 1
          /\ B => q = p + 1
          /\ ~ B => q = p
          /\ C => m = q + 1
          /\ ~ C => m = q
      BY <1>3, <1>4, <1>5
    <3> HIDE DEF p, q
    <3>2. (A /\ j = 1) \/ (B /\ j = p) \/ (C /\ j = q)
      BY <3>1
    <3> QED
      BY <1>10, <3>2 DEF p, q
  <2> QED
    BY <1>5, <1>9, <2>1, InsideIs
<1>13. ~ C => inner.head.k # "tag"
  BY <1>5, <1>9
<1>12. ok <=> (B => C)
  BY <1>1, <1>6, <1>13
<1>14. IsRow(tags) /\ Len(tags) = m - 1 /\ \A i \in 1 .. m - 1 : tags[i] = Lead("tag", data[i].n)
  <2>1. tags = [i \in 1 .. m - 1 |-> Lead("tag", data[i].n)]
    BY <1>11
  <2>2. m - 1 \in Nat
    BY <1>5
  <2>3. \A i \in 1 .. m - 1 : tags[i] = Lead("tag", data[i].n)
    BY <2>1
  <2>4. tags = [i \in 1 .. m - 1 |-> tags[i]]
    BY <2>1, <2>3
  <2> HIDE DEF tags
  <2>5. IsRow(tags) /\ Len(tags) = m - 1
    BY <2>2, <2>4, RowOf
  <2> QED
    BY <2>3, <2>5
<1>15. \A a, b : Lead("tag", a) = Lead("tag", b) <=> a = b
  BY DEF Lead
<1>16. Tag(t)[1] = Lead("tag", t)
  BY DEF Tag
<1> HIDE DEF tags
<1>17. (B => C) <=> tags \in Wrapping(t)
  <2>1. tags \in Wrapping(t) <=>
          \/ m - 1 = 0
          \/ m - 1 = 1 /\ data[1].n \in {55799, t}
          \/ m - 1 = 2 /\ data[1].n \in {55799, 61} /\ data[2].n = t
          \/ m - 1 = 3 /\ data[1].n = 55799 /\ data[2].n = 61 /\ data[3].n = t
    <3> DEFINE L(n) == Lead("tag", n)
    <3>0. IsRow(tags)
      BY <1>14
    <3>1. tags \in Wrapping(t) <=>
            \/ Len(tags) = 0
            \/ Len(tags) = 1 /\ (tags[1] = L(55799) \/ tags[1] = L(t))
            \/ Len(tags) = 2 /\ (tags[1] = L(55799) \/ tags[1] = L(61)) /\ tags[2] = L(t)
            \/ Len(tags) = 3 /\ tags[1] = L(55799) /\ tags[2] = L(61) /\ tags[3] = L(t)
      BY <3>0, WrappingIs
    <3>2. /\ m - 1 >= 1 => tags[1] = Lead("tag", data[1].n)
          /\ m - 1 >= 2 => tags[2] = Lead("tag", data[2].n)
          /\ m - 1 >= 3 => tags[3] = Lead("tag", data[3].n)
      BY <1>5, <1>14
    <3> QED
      BY <1>14, <1>15, <3>1, <3>2
  <2> QED
    BY <1>3, <1>4, <1>5, <1>7, <1>10, <2>1
<1>18. ok => UntaggedItem(x).item = out
  <2>1. CASE C
    <3>1. IsTag(inner, MessageTags)
      BY <1>6, <2>1 DEF IsTag
    <3> QED
      BY <1>2, <1>5, <2>1, <3>1 DEF Peel
  <2>2. CASE ~ C
    <3>1. ~ IsTag(inner, MessageTags)
      BY <1>13, <2>2 DEF IsTag
    <3> QED
      BY <1>2, <1>5, <2>2, <3>1 DEF Peel
  <2> QED
    BY <2>1, <2>2
<1>19. ASSUME ok, ~ C, Tag(t)[1] \in {tags[i] : i \in DOMAIN tags} PROVE FALSE
  <2>1. PICK i \in DOMAIN tags : tags[i] = Lead("tag", t)
    BY <1>16, <1>19
  <2>2. DOMAIN tags = 1 .. m - 1
    BY <1>14 DEF IsRow
  <2>3. i \in 1 .. m - 1 /\ data[i].n = t
    BY <1>14, <1>15, <2>1, <2>2
  <2>4. ~ B
    BY <1>12, <1>19
  <2> QED
    BY <1>3, <1>4, <1>5, <1>7, <1>10, <1>19, <2>3, <2>4
<1> QED
  BY <1>11, <1>12, <1>17, <1>18, <1>19

(* An activation of a tag has read its one member or none, and a member    *)
(* begins behind the tag; p is where the activation on top stands.         *)
TagsFilled(s, p) ==
  \A i \in DOMAIN s : s[i].head.k = "tag" =>
    /\ Len(s[i].kids) = s[i].read
    /\ s[i].read = 1 => /\ s[i].kids[1].start = s[i].start + 1
                        /\ s[i].kids[1].end = Place(s, p, i)

(* What a parse has built is what the data has, and the root is all of it. *)
ItemsInv ==
  /\ call.op = "body" => call.tag \in MessageTags
  /\ TagsFilled(stack, pos) /\ AllWhole(Tops(stack, root))
  /\ root # << >> => 1 \in DOMAIN root /\ root[1].start = 1 /\ root[1].end = pos

(* An activation of a tag is due its one member right behind the tag.      *)
LEMMA TagFrame ==
  ASSUME NEW t, IsTask(t), NEW f, NEW p, NEW depth, FrameGood(t, f, p, depth),
         f.head.k = "tag"
  PROVE  /\ f.left # Open
         /\ f.left = 0 => f.read = 1
         /\ f.left # 0 => f.read = 0 /\ p = f.start + 1
<1>1. Grammar(ItemsOf(t.d), t.d) /\ Len(t.d) \in Nat /\ Open \notin Nat
  BY TaskGrammar
<1>2. Members(f.head) = 1
  BY DEF Members, Strings
<1>3. f.left \in Nat /\ f.left + f.read = 1 /\ f.read \in Nat
  BY <1>1, <1>2 DEF FrameGood, MembersLeft
<1>4. ASSUME f.left # 0 PROVE f.read = 0 /\ p = f.start + 1
  <2>1. f.read = 0
    BY <1>3, <1>4
  <2>2. PICK a : a \in ItemsOf(t.d)[<<f.start + 1, 0>>] /\ a.end = p
    BY <2>1 DEF FrameGood, HasParsed
  <2>3. f.start + 1 \in 1 .. Len(t.d) + 1
    BY <1>1 DEF FrameGood
  <2>4. a = NoMembers(f.start + 1)
    BY <1>1, <2>2, <2>3, BegunEmpty
  <2> QED
    BY <2>1, <2>2, <2>4 DEF NoMembers
<1> QED
  BY <1>1, <1>3, <1>4

(* A delivery of a whole item.                                             *)
LEMMA WholeDelivered ==
  ASSUME IsTask(Task), root = << >>, data' = data, call' = call, NEW below, NEW item,
         Chain(Task, below, item.start), Waits(below, item.start), Frames(below),
         Whole(item), item.end = pos',
         KidsOf({item}) \subseteq Tops(stack, root),
         Tops(below, << >>) \subseteq Tops(stack, root),
         AllWhole(Tops(stack, root)), TagsFilled(below, item.start),
         call.op = "body" => call.tag \in MessageTags,
         Parser!Deliver(item, below)
  PROVE  ItemsInv'
<1>1. AllWhole(Tops(stack', root'))
  <2>1. PICK W : /\ Tops(stack, root) \subseteq W /\ KidsOf(W) \subseteq W
                 /\ \A x \in W : Whole(x)
    BY DEF AllWhole
  <2> DEFINE V == W \cup {item}
  <2>2. Tops(stack', root') \subseteq V
    <3>1. Tops(stack', root') \subseteq Tops(below, << >>) \cup {item}
      BY Delivered
    <3> QED
      BY <2>1, <3>1
  <2>3. KidsOf(V) \subseteq V
    <3>1. KidsOf(V) \subseteq KidsOf(W) \cup KidsOf({item})
      BY DEF KidsOf
    <3> QED
      BY <2>1, <3>1
  <2>4. \A x \in V : Whole(x)
    BY <2>1
  <2> HIDE DEF V
  <2> QED
    BY <2>2, <2>3, <2>4 DEF AllWhole
<1>2. AllWhole(Tops(stack, root))'
  BY <1>1 DEF AllWhole, Whole
<1>3. CASE below = << >>
  <2>1. item.start = 1
    BY <1>3 DEF Waits
  <2>2. stack' = << >> /\ root' = <<item>>
    BY <1>3 DEF Parser!Deliver
  <2>3. 1 \in DOMAIN root' /\ root'[1] = item
    BY <2>2
  <2>4. TagsFilled(stack', pos')
    BY <2>2 DEF TagsFilled
  <2> QED
    BY <1>2, <2>1, <2>3, <2>4 DEF ItemsInv
<1>4. CASE below # << >>
  <2> DEFINE n == Len(below)
             f == below[n]
             g == Parser!AddTo(f, item)
             r == [below EXCEPT ![n] = g]
  <2>1. stack' = r /\ root' = << >>
    BY <1>4 DEF Parser!Deliver
  <2>2. /\ IsRow(below) /\ n \in DOMAIN below /\ IsFrame(f)
        /\ n \in Nat /\ DOMAIN below = 1 .. n
    BY <1>4, RowFront DEF Frames, IsRow
  <2>3. /\ IsRow(r) /\ Len(r) = n /\ DOMAIN r = DOMAIN below /\ r[n] = g
        /\ \A i \in DOMAIN below \ {n} : r[i] = below[i]
    BY <2>2, RowExcept
  <2>4. /\ g.head = f.head /\ g.start = f.start /\ g.read = f.read + 1
        /\ f.head.k = "tag" => g.kids = Append(f.kids, item)
    <3>1. f = [head |-> f.head, start |-> f.start, left |-> f.left,
               kids |-> f.kids, read |-> f.read, keys |-> f.keys]
      BY <2>2 DEF IsFrame
    <3> HIDE DEF f
    <3> QED
      BY <3>1 DEF Parser!AddTo
  <2>5. FrameGood(Task, f, item.start, n - 1)
    BY <2>2 DEF Chain, Place
  <2>6. f.left # 0
    BY <1>4 DEF Waits
  <2>7. ASSUME f.head.k = "tag"
        PROVE  /\ g.read = 1 /\ Len(g.kids) = 1
               /\ g.kids[1] = item /\ item.start = f.start + 1
    <3>1. f.read = 0 /\ item.start = f.start + 1
      BY <2>5, <2>6, <2>7, TagFrame
    <3>2. Len(f.kids) = 0 /\ IsRow(f.kids)
      BY <2>2, <2>7, <3>1 DEF TagsFilled, IsFrame
    <3> HIDE DEF f, g
    <3>3. Len(g.kids) = 1 /\ g.kids[1] = item
      <4> DEFINE ks == f.kids
                 k == Len(ks) + 1
      <4>1. k = 1
        BY <3>2
      <4>2. g.kids = Append(ks, item)
        BY <2>4, <2>7
      <4> HIDE DEF ks
      <4>3. Len(Append(ks, item)) = k /\ Append(ks, item)[k] = item
        BY <3>2, RowAppend DEF ks
      <4> HIDE DEF k
      <4> QED
        BY <4>1, <4>2, <4>3
    <3> QED
      BY <2>4, <3>1, <3>3
  <2> HIDE DEF n, f, g, r
  <2>8. ASSUME NEW i \in DOMAIN r, r[i].head.k = "tag"
        PROVE  /\ Len(r[i].kids) = r[i].read
               /\ r[i].read = 1 => /\ r[i].kids[1].start = r[i].start + 1
                                   /\ r[i].kids[1].end = Place(r, pos', i)
    <3>1. CASE i = n
      <4>1. Place(r, pos', i) = pos'
        BY <2>3, <3>1 DEF Place
      <4>2. r[i] = g /\ f.head.k = "tag"
        BY <2>3, <2>4, <2>8, <3>1
      <4> QED
        BY <2>4, <2>7, <4>1, <4>2
    <3>2. CASE i # n
      <4>1. r[i] = below[i] /\ i \in DOMAIN below /\ i + 1 \in DOMAIN below
        BY <2>2, <2>3, <3>2
      <4>2. r[i + 1].start = below[i + 1].start
        BY <2>3, <2>4, <4>1 DEF f
      <4>3. Place(r, pos', i) = Place(below, item.start, i)
        BY <2>3, <3>2, <4>2 DEF Place, n
      <4> QED
        BY <2>8, <4>1, <4>3 DEF TagsFilled
    <3> QED
      BY <3>1, <3>2
  <2>9. TagsFilled(r, pos')
    BY <2>8 DEF TagsFilled
  <2> QED
    BY <1>2, <2>1, <2>9 DEF ItemsInv
<1> QED
  BY <1>3, <1>4

(* A head that opens an item adds an empty activation.                     *)
LEMMA WholeOpened ==
  ASSUME ParserShape, ItemsInv, root = << >>, root' = root, pos \in Nat, pos' = pos + 1,
         data' = data, call' = call, NEW h, stack' = Append(stack, Parser!Frame(h))
  PROVE  ItemsInv'
<1> DEFINE g == Parser!Frame(h)
           n == Len(stack)
           t == Append(stack, g)
<1>1. AllWhole(Tops(stack, root))'
  <2>1. Tops(stack', root') = Tops(stack, root)
    BY Opened
  <2>2. AllWhole(Tops(stack', root'))
    BY <2>1 DEF ItemsInv
  <2> QED
    BY <2>2 DEF AllWhole, Whole
<1>2. g.start = pos /\ g.read = 0 /\ Len(g.kids) = 0
  BY DEF Parser!Frame
<1>3. IsRow(stack) /\ n \in Nat /\ DOMAIN stack = 1 .. n
  BY DEF ParserShape, Frames, IsRow
<1> HIDE DEF g
<1>4. /\ IsRow(t) /\ Len(t) = n + 1 /\ t[n + 1] = g
      /\ \A i \in DOMAIN stack : t[i] = stack[i]
  BY <1>3, RowAppend
<1>5. stack' = t
  BY DEF g
<1> HIDE DEF n, t
<1>6. DOMAIN t = 1 .. n + 1
  BY <1>4 DEF IsRow
<1>7. ASSUME NEW i \in DOMAIN t, t[i].head.k = "tag"
      PROVE  /\ Len(t[i].kids) = t[i].read
             /\ t[i].read = 1 => /\ t[i].kids[1].start = t[i].start + 1
                                 /\ t[i].kids[1].end = Place(t, pos', i)
  <2>1. CASE i = n + 1
    BY <1>2, <1>4, <2>1
  <2>2. CASE i # n + 1
    <3>1. i \in DOMAIN stack /\ t[i] = stack[i]
      BY <1>3, <1>4, <1>6, <2>2
    <3>2. Place(t, pos', i) = t[i + 1].start
      BY <1>4, <2>2 DEF Place
    <3>3. t[i + 1].start = Place(stack, pos, i)
      <4>1. CASE i = n
        BY <1>2, <1>4, <4>1 DEF Place, n
      <4>2. CASE i # n
        <5>1. i + 1 \in DOMAIN stack
          BY <1>3, <3>1, <4>2
        <5> QED
          BY <1>4, <4>2, <5>1 DEF Place, n
      <4> QED
        BY <4>1, <4>2
    <3> QED
      BY <1>7, <3>1, <3>2, <3>3 DEF ItemsInv, TagsFilled
  <2> QED
    BY <2>1, <2>2
<1>8. TagsFilled(t, pos')
  BY <1>7 DEF TagsFilled
<1> QED
  BY <1>1, <1>5, <1>8 DEF ItemsInv

(* The activation on top is delivered as a whole item.                     *)
LEMMA WholeTop ==
  ASSUME Running, ParserShape, ItemsInv, stack # << >>, NEW e, e = pos',
         data' = data, call' = call,
         (Parser!Top.left = 0 /\ pos' = pos) \/ Parser!Top.left = Open,
         Parser!Deliver(Parser!Item(Parser!Top.head, Parser!Top.kids, Parser!Top.start, e),
                        SubSeq(stack, 1, Len(stack) - 1))
  PROVE  ItemsInv'
<1> DEFINE n == Len(stack)
           f == Parser!Top
           below == SubSeq(stack, 1, n - 1)
           item == Parser!Item(f.head, f.kids, f.start, e)
<1>1. /\ f = stack[n] /\ FrameGood(Task, f, pos, n - 1)
      /\ Len(below) = n - 1 /\ n - 1 \in Nat
      /\ Chain(Task, below, f.start) /\ Waits(below, f.start) /\ Frames(below)
      /\ f.start \in 1 .. Len(data) /\ f.head = data[f.start]
  BY OnTop
<1>2. /\ KidsOf({item}) \subseteq Tops(stack, root)
      /\ Tops(below, << >>) \subseteq Tops(stack, root)
  BY TopOff
<1>3. /\ item.start = f.start /\ item.head = f.head /\ item.kids = f.kids
      /\ item.end = e
  BY DEF Parser!Item
<1>4. /\ IsTask(Task) /\ root = << >> /\ n \in DOMAIN stack /\ DOMAIN stack = 1 .. n
      /\ IsFrame(f) /\ n \in Nat
  <2>1. Frames(stack) /\ IsTask(Task) /\ root = << >>
    BY DEF Running
  <2>2. n \in DOMAIN stack /\ DOMAIN stack = 1 .. n /\ n \in Nat
    BY <2>1, RowFront DEF Frames, IsRow
  <2> QED
    BY <1>1, <2>1, <2>2 DEF Frames
<1>5. /\ IsRow(below) /\ \A i \in DOMAIN below : i \in DOMAIN stack /\ below[i] = stack[i]
  BY RowFront DEF Running, Frames
<1>6. Parser!Deliver(item, below)
  OBVIOUS
<1> HIDE DEF n, f, below, item
<1>7. TagsFilled(below, f.start)
  <2> SUFFICES ASSUME NEW i \in DOMAIN below, below[i].head.k = "tag"
               PROVE  /\ Len(below[i].kids) = below[i].read
                      /\ below[i].read = 1 =>
                           /\ below[i].kids[1].start = below[i].start + 1
                           /\ below[i].kids[1].end = Place(below, f.start, i)
    BY DEF TagsFilled
  <2>1. i \in 1 .. n - 1 /\ DOMAIN below = 1 .. n - 1
    BY <1>1, <1>5 DEF IsRow
  <2>2. Place(stack, pos, i) = stack[i + 1].start
    BY <1>4, <2>1 DEF Place, n
  <2>3. Place(below, f.start, i) = stack[i + 1].start
    <3>1. CASE i = n - 1
      <4>1. i + 1 = n
        BY <1>4, <3>1
      <4> QED
        BY <1>1, <3>1, <4>1 DEF Place
    <3>2. CASE i # n - 1
      <4>1. i + 1 \in DOMAIN below
        BY <1>4, <2>1, <3>2
      <4> QED
        BY <1>1, <1>5, <3>2, <4>1 DEF Place
    <3> QED
      BY <3>1, <3>2
  <2> QED
    BY <1>5, <2>2, <2>3 DEF ItemsInv, TagsFilled
<1>8. Whole(item)
  <2> SUFFICES ASSUME f.head.k = "tag"
               PROVE  /\ 1 \in DOMAIN f.kids
                      /\ f.kids[1].start = f.start + 1 /\ f.kids[1].end = e
    BY <1>1, <1>3 DEF Whole
  <2>1. f.left # Open /\ (f.left = 0 => f.read = 1)
    BY <1>1, <1>4, TagFrame
  <2>2. pos' = pos /\ f.read = 1
    BY <2>1 DEF f
  <2>3. /\ Len(f.kids) = 1
        /\ f.kids[1].start = f.start + 1 /\ f.kids[1].end = Place(stack, pos, n)
    BY <1>1, <1>4, <2>2 DEF ItemsInv, TagsFilled
  <2>4. Place(stack, pos, n) = pos
    BY DEF Place, n
  <2>5. 1 \in DOMAIN f.kids
    BY <1>4, <2>3 DEF IsFrame, IsRow
  <2> QED
    BY <2>2, <2>3, <2>4, <2>5
<1>9. AllWhole(Tops(stack, root)) /\ (call.op = "body" => call.tag \in MessageTags)
  BY DEF ItemsInv
<1>10. /\ Chain(Task, below, item.start) /\ Waits(below, item.start)
       /\ TagsFilled(below, item.start) /\ item.end = pos'
  BY <1>1, <1>3, <1>7
<1> QED
  BY <1>1, <1>2, <1>4, <1>6, <1>8, <1>9, <1>10, WholeDelivered

(* Nothing is built before the first byte.                                 *)
LEMMA ItemsBegin ==
  ASSUME Parser!CborConstants, Parser!Init PROVE ItemsInv
<1>1. call.op = "body" => call.tag \in MessageTags
  <2>1. PICK c \in Cases : call = c.call
    BY DEF Parser!Init
  <2>2. c.call.op = "body" => c.call.tag \in Parser!MessageTags
    BY DEF Parser!CborConstants
  <2> QED
    BY <2>1, <2>2 DEF Parser!MessageTags, MessageTags
<1>2. stack = << >> /\ root = << >>
  BY DEF Parser!Init
<1>3. TagsFilled(stack, pos)
  BY <1>2 DEF TagsFilled
<1>4. Tops(stack, root) = {} /\ KidsOf({}) = {}
  BY <1>2 DEF Tops, KidsOf
<1>5. AllWhole(Tops(stack, root))
  BY <1>4 DEF AllWhole
<1> QED
  BY <1>1, <1>2, <1>3, <1>5 DEF ItemsInv

(* Every step keeps it.                                                    *)
LEMMA ItemsSteps ==
  ASSUME Parser!CborConstants, ParserInv, ParseInv, ItemsInv,
         [Parser!Next]_(Parser!vars)
  PROVE  ItemsInv'
<1>1. ASSUME result = "Running" PROVE Running
  BY <1>1, WhileRunning
<1>2. ParserShape /\ pos \in Nat
  BY DEF ParserInv, ParserShape
<1>3. CASE Parser!ReadHead
  <2> DEFINE h == data[pos]
  <2>1. /\ Running /\ Parser!MemberDue /\ pos <= Len(data)
        /\ data' = data /\ call' = call /\ pos' = pos + 1
    BY <1>1, <1>3 DEF Parser!ReadHead, Parser!HeadAllowed, Parser!input
  <2>2. root = << >> /\ Waits(stack, pos)
    BY <2>1, DueIsFine
  <2>3. CASE Opens(h)
    <3>1. stack' = Append(stack, Parser!Frame(h)) /\ root' = root
      BY <1>3, <2>3, SameGrammar DEF Parser!ReadHead
    <3> QED
      BY <1>2, <2>1, <2>2, <3>1, WholeOpened
  <2>4. CASE ~ Opens(h)
    <3> DEFINE item == Parser!Item(h, << >>, pos, pos + 1)
    <3>1. Parser!Deliver(item, stack)
      BY <1>3, <2>4, SameGrammar DEF Parser!ReadHead
    <3>2. /\ item.start = pos /\ item.head = h /\ item.kids = << >>
          /\ item.end = pos + 1
      BY DEF Parser!Item
    <3> HIDE DEF item
    <3>3. Whole(item)
      <4>1. h.k # "tag"
        BY <2>4 DEF Opens, Containers
      <4>2. pos \in 1 .. Len(data)
        BY <2>1 DEF Running, HeadsRead
      <4> QED
        BY <3>2, <4>1, <4>2 DEF Whole
    <3>4. /\ KidsOf({item}) \subseteq Tops(stack, root)
          /\ Tops(stack, << >>) \subseteq Tops(stack, root)
      BY <2>2, <3>2 DEF KidsOf
    <3>5. /\ IsTask(Task) /\ Chain(Task, stack, pos) /\ Frames(stack)
          /\ AllWhole(Tops(stack, root)) /\ TagsFilled(stack, pos)
          /\ call.op = "body" => call.tag \in MessageTags
      BY <2>1 DEF Running, MembersRead, ItemsInv
    <3> QED
      BY <2>1, <2>2, <3>1, <3>2, <3>3, <3>4, <3>5, WholeDelivered
  <2> QED
    BY <2>3, <2>4
<1>4. CASE Parser!ReadBreak
  <2>1. /\ Running /\ stack # << >> /\ Parser!Top.left = Open
        /\ data' = data /\ call' = call /\ pos' = pos + 1
        /\ Parser!Deliver(Parser!Item(Parser!Top.head, Parser!Top.kids,
                                      Parser!Top.start, pos + 1),
                          SubSeq(stack, 1, Len(stack) - 1))
    BY <1>1, <1>4 DEF Parser!ReadBreak, Parser!input
  <2> QED
    BY <1>2, <2>1, WholeTop
<1>5. CASE Parser!CloseCounted
  <2>1. /\ Running /\ stack # << >> /\ Parser!Top.left = 0
        /\ data' = data /\ call' = call /\ pos' = pos
        /\ Parser!Deliver(Parser!Item(Parser!Top.head, Parser!Top.kids,
                                      Parser!Top.start, pos),
                          SubSeq(stack, 1, Len(stack) - 1))
    BY <1>1, <1>5 DEF Parser!CloseCounted, Parser!IsFull, Parser!input
  <2> QED
    BY <1>2, <2>1, WholeTop
<1>6. ASSUME UNCHANGED <<data, call, pos, stack, root>> PROVE ItemsInv'
  <2>1. AllWhole(Tops(stack, root))'
    <3>1. AllWhole(Tops(stack', root'))
      BY <1>6 DEF ItemsInv
    <3> QED
      BY <1>6, <3>1 DEF AllWhole, Whole
  <2> QED
    BY <1>6, <2>1 DEF ItemsInv
<1>7. CASE Parser!RefuseHead \/ Parser!RefuseBreak \/ Parser!Return
  BY <1>6, <1>7
  DEF Parser!RefuseHead, Parser!RefuseBreak, Parser!Return, Parser!Fail, Parser!input
<1>8. CASE UNCHANGED Parser!vars
  BY <1>6, <1>8 DEF Parser!vars, Parser!input
<1> QED
  BY <1>3, <1>4, <1>5, <1>7, <1>8 DEF Parser!Next

(* The message inside is handed out.                                       *)
LEMMA MessageIsHandedOut ==
  ASSUME ParseInv, ItemsInv PROVE HandsOutWhatWasWrapped
<1> SUFFICES ASSUME Done, call.op = "body", IsValid(data)
             PROVE  HandsOutWhatWasWrapped
  BY DEF HandsOutWhatWasWrapped, ParseInv, Answered
<1> DEFINE x == root[1]
           t == call.tag
<1>1. /\ root # << >> /\ pos = Len(data) + 1
      /\ result = IF Answer(x).ok THEN "Ok" ELSE "Err"
      /\ Len(data) \in Nat
  BY DEF ParseInv, Answered, IsData, IsRow
<1>2. Answer(x) = MessageItem(x, t)
  BY DEF Answer
<1>3. x.start = 1 /\ x.end = Len(data) + 1 /\ 1 \in DOMAIN root /\ t \in MessageTags
  BY <1>1 DEF ItemsInv
<1>4. AllWhole({x})
  <2>1. PICK W : /\ Tops(stack, root) \subseteq W /\ KidsOf(W) \subseteq W
                 /\ \A y \in W : Whole(y)
    BY DEF ItemsInv, AllWhole
  <2>2. x \in Tops(stack, root)
    BY <1>3 DEF Tops
  <2>3. {x} \subseteq W
    BY <2>1, <2>2
  <2> HIDE DEF x
  <2> QED
    BY <2>1, <2>3 DEF AllWhole
<1> HIDE DEF x, t
<1> DEFINE out == MessageItem(x, t).item
           ok == MessageItem(x, t).ok
           tags == [i \in 1 .. Inside(x) - 1 |-> Lead("tag", data[i].n)]
<1>5. /\ ok =>
           /\ tags \in Wrapping(t)
           /\ out.start = Inside(x) /\ out.end = Len(data) + 1
           /\ UntaggedItem(x).item = out
           /\ Tag(t)[1] \in {tags[i] : i \in DOMAIN tags} =>
                \A u \in MessageTags \ {t} : ~ MessageItem(x, u).ok
      /\ tags \in Wrapping(t) /\ MessageShape(out, t) => ok
  BY <1>1, <1>3, <1>4, Unwrapped
<1>6. result = "Ok" <=> ok
  BY <1>1, <1>2
<1>7. Answer(x).item = out
  BY <1>2
<1> HIDE DEF out, ok, tags
<1>8. /\ result = "Ok" =>
           /\ tags \in Wrapping(t)
           /\ out.start = Inside(x) /\ out.end = Len(data) + 1
           /\ UntaggedItem(x).item = out
           /\ Tag(t)[1] \in {tags[i] : i \in DOMAIN tags} =>
                \A u \in MessageTags \ {t} : ~ MessageItem(x, u).ok
      /\ tags \in Wrapping(t) /\ MessageShape(out, t) => result = "Ok"
  BY <1>5, <1>6
<1> QED
  BY <1>7, <1>8 DEF HandsOutWhatWasWrapped, tags, x, t

(* A message decoder takes its message from any of the six wrappings and   *)
(* from no other, hands out the array inside, and shares no tagged bytes   *)
(* with another decoder, for all data and limits (strict.rs:388-424,       *)
(* 548-577).                                                               *)
THEOREM MessageDecodersAgree ==
  Parser!CborConstants => (Parser!Spec => []HandsOutWhatWasWrapped)
<1> SUFFICES ASSUME Parser!CborConstants
             PROVE  Parser!Spec => []HandsOutWhatWasWrapped
  OBVIOUS
<1> DEFINE Inv == ParserInv /\ ParseInv /\ ItemsInv
<1>1. Parser!Init => Inv
  BY ParserStarts, ParseBegins, ItemsBegin
<1>2. Inv /\ [Parser!Next]_(Parser!vars) => Inv'
  BY ParserSteps, ParseSteps, ItemsSteps
<1>3. Inv => HandsOutWhatWasWrapped
  BY MessageIsHandedOut
<1> QED
  BY <1>1, <1>2, <1>3, PTL DEF Parser!Spec
=============================================================================
