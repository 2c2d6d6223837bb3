# cose2: COSE messages, CWT and SD-CWT in TLA+

`cose2` is a Rust crate for COSE (RFC 9052): signed, MACed and encrypted CBOR
messages, their headers and keys, CWT claims, and, in the `sd-cwt` crate, claims
with selective disclosure.  It is a passive library.  Nothing runs concurrently
inside it, and every call returns.  What is hard about it is that

- a message object lives across many calls, made in any order by a caller who
  may also write its public fields (`protected`, `unprotected`, `payload`,
  `signatures`, ...) between any two of them;
- the bytes that are authenticated (`protected_raw`) are private and frozen,
  while the header the caller reads and edits is a separate, public copy;
- signing, MACing or encrypting may happen elsewhere (`prepare_*` then `set_*`),
  so an answer can arrive late, twice, for another preparation, or never;
- a call may fail after it has already changed the object;
- claims are compared with a clock at the edge of a second, in two number formats;
- selectively disclosed claims are restored from whatever subset of disclosures, in
  whatever order, a holder chooses to show.

The models are about exactly that.

## 1. Inventory

| Component | Source | State | Operations | What is hard | Correct when | Model |
|---|---|---|---|---|---|---|
| Headers | `src/header.rs`, `src/util.rs`, `src/map.rs` | two buckets, protected bytes, `OperationState` | bucket validation, `crit`, alg/kid placement, encoding, decoding, `prepare_headers`, `sync_protected_raw` | public view against frozen bytes; non-canonical foreign bytes; mutation before validation | bytes and view denote the same header whenever a result is stored, encoded or accepted | `CoseHeader` |
| COSE_Sign1 | `src/sign1.rs` | headers, payload, signature, bytes, state | new, prepare (embedded, detached), set_signature, sign (embedded, detached, and encode), encode, from_slice, verify (embedded, detached) | late and repeated answers, edits after signing, failing preparation | accepted = signed as seen; signing gives a verifiable message | `Sign1Message` |
| COSE_Sign | `src/sign.rs` | the same for the body, and a public vector of slots with the same fields | the same over several signers, per-slot `set_signature` | partial failure over several slots, slots pushed or dropped later, kid matching, two `crit` headers | every slot is verified; signing is all or nothing | `SignMessage` |
| Nonces | `src/util.rs` | none | IV, or Partial IV with Base IV | padding, lengths, both present | different Partial IVs, different nonces | `CoseNonce` |
| COSE_Encrypt0 | `src/encrypt0.rs` | headers, plaintext, ciphertext, detached flag, bytes, state | prepare, set_ciphertext, encrypt (embedded, detached, moved out), encode, from_slice, decrypt (embedded, detached) | ciphertext apart from its message; decrypt that fails half way | plaintext and ciphertext belong together; decryption all or nothing | `EncryptMessage` |
| COSE_Mac0, COSE_Mac | `src/mac0.rs`, `src/mac.rs` | as COSE_Sign1 with a tag, and recipients | prepare_tag, set_tag, compute, encode, from_slice, verify | as COSE_Sign1; recipients checked first; one MAC service for both kinds | accepted = MACed as seen, as this kind; bad recipients block everything and change nothing | `MacMessage` |
| COSE_Encrypt | `src/encrypt.rs` | as COSE_Encrypt0, and recipients | as COSE_Encrypt0 | recipients edited between calls | as COSE_Encrypt0; what encrypts also encodes | `EncryptMessage` |
| Recipients | `src/recipient.rs` | a tree of layers | validation on use, encoding and decoding | nesting depth, one rule set per algorithm, mixed recipients | the same trees are refused on every path, the accepted ones travel unharmed | `Recipients` |
| Countersignatures | `src/countersign.rs` | headers, signature, bytes, state; a header field that carries one or several | new, prepare, set_signature, sign, verify, to and from a value, set and get in a header | the target is the caller's, an answer may have been made for a slot of COSE_Sign, one travels bare and several in an array | accepted = countersigned as seen; what is put in a header comes back | `CounterSignature` |
| CWT | `src/cwt.rs` | claims, validator options, the system clock | to/from map, encode, decode, validate, validate_map | leeway boundaries, integers against floats of any size, a clock before the epoch or set back, two paths that read the same claims | a token is accepted exactly in its window | `NumericDate`, `CwtToken` |
| Keys, providers | `src/key.rs`, `src/crypto.rs`, `src/aes_gcm.rs`, `src/ed25519.rs` | key maps, sets; a provider's algorithm, kid, operations, material | edit, validate, export, import, put in a set, encode, decode leniently and strictly, lookup; DER of RSA keys | unreadable members are dropped; operations are copied and asked for later; numbers with leading zeros or a high bit | no operation the key forbids; export then import restores; sets travel whole; DER names the same numbers | `CoseKey`, `KeyRing`, `Pkcs1Der` |
| Parser | `src/strict.rs`, `src/tag.rs` | position, depth, budget, the keys seen at each level | parse one item, canonical keys, validate, members, tags | limits and duplicates at every depth, indefinite lengths, tags in any order | accepts exactly the grammar, never holds more than allowed, every parse ends, hands out what was wrapped | `CborGrammar`, `ParseState`, `ParseAnswer`, `StrictCbor` |
| SD-CWT | `sd-cwt/src/*` | claims tree, digests, disclosures, budgets | issue, disclose, restore, validate | order and nesting of disclosures, duplicates, decoys, budgets, claims compared while parts are hidden | restored = issued without the withheld | `SdValues`, `SdIssuance`, `SdRestore`, `SdToken` |

The calls go one way: a message module calls the header helpers and, through a
trait object (`Signer`, `Verifier`, `Macer`, `Encryptor`), the cryptography.  The
shared state is the message object itself, which the caller can write too.

## 2. Modules

- **`CoseHeader`**: headers as total functions from labels to values (`None` when
  absent), and the helpers every message uses.  A protected byte string is a
  record: the header it decodes to and whether it is the canonical encoding, which
  is all the code ever distinguishes.  `PrepareHeaders` and the other steps that can
  fail return `[ok, msg]`: the Rust result and the object as the call leaves it,
  *including* what a failing call has already changed.
- **`AuthLayer`** is the abstract specification: one layer with a view, bytes, a
  result and a phase.  A result is only stored when the view denotes the bytes, a
  preparation drops the old result, and bytes do not move under a result.
  `Sign1Message`, `EncryptMessage`, `MacMessage` and `CounterSignature` implement it.
- **`Sign1Message`**, **`SignMessage`**, **`EncryptMessage`**, **`MacMessage`**: one operator per
  method that changes the message (`SetSig`, `SignEmbedded`, ...), one predicate
  per method that reads it (`CanEncode`, `Verify`, ...), and one action per call.
  The environment is the caller (`Edit*`, `PushSlot`, `DropSlot`, `NewMessage`), remote
  services (`requests`, `transit`: what they may still deliver), and other
  implementations (`ForeignWire`).
- **`CoseNonce`**: the AEAD nonce.
- **`MCSign1`**, **`MCSign`**, **`MCEncrypt`**, **`MCMac`**: instances for TLC.
- **`Sign1Proofs`**, **`SignProofs`**, **`EncryptProofs`**, **`MacProofs`**: theorems about these four
  modules, on the lemmas of **`HeaderProofs`**.
- COSE_Mac0 and COSE_Mac differ, as COSE_Encrypt0 and COSE_Encrypt do, in the context string and
  the recipients, and are modelled in one module each: the field `context` tells them apart, and a
  remote service serves both kinds with the same keys.
- **`Recipients`**: the recipients of a message.  The nested vectors are one function from
  paths to nodes (`<<2, 1>>` is the first recipient nested in the second), so what the code does by
  recursion is said of every path, without a recursive operator.  It holds the rules per
  algorithm class, the checks of ECDH sender keys, the encoder's validation with its depth limit, and
  what the decoder accepts: it validates node by node and leaves depth to the strict parser,
  whose levels `FitsParser` counts.
- **`NumericDate`**: dates, their comparison and the clock.  Time is a whole number of
  parts of a second, `Scale` to the second; every finite `f64` and every nanosecond is
  such a number for some `Scale`, and the widths of CBOR integers and of `i128`
  (`U64Max`, `I128Max`) are constants too.  `Truncate` is the cast of a float to `i128`.
- **`CwtToken`**: the claims object with its public fields (`EditClaims`), the claims map it is
  written to (`Encode`), read from (`Decode`) or that arrives (`Receive`), and the system
  clock, which ticks (`Tick`) and is set (`SetClock`).  Validation changes nothing; the
  properties quantify over all validators of the instance.  `CwtProofs` holds the theorems.
- **`SdValues`**: claims as trees of maps, arrays, tags and atoms; the marks for redaction and
  decoys; disclosures.  The hash is ideal: a digest *is* the disclosure it was taken of.  A
  *work record* is threaded through each pass; it holds what the code keeps in mutable
  references (budgets, salts, statistics) and its field `ok` latches the first error.
- **`SdIssuance`**, **`SdRestore`**: the two passes, as recursive operators over the trees, and the
  comparison of payload with protected claims while parts of either are hidden.
- **`SdToken`**: a token's life: `IssueToken` here or `ReceiveToken` from elsewhere, `Disclose` in any
  order (again, or a stray disclosure of another token), `WithholdAll`.  Restoring and
  validating are operators the properties apply in every state.
- **`CborGrammar`**: what an item of CBOR is, by the grammar: a sequence of heads is or is not an
  item, of a value, a height and a number of items.  It is the reference the parser is compared with, and what
  the external decoder reads, which the code asks for the canonical form of unusual map keys.
- **`ParseState`**: the state of one call into the strict parser, how much of it is held at a moment
  (activations, items and keys), and what the answer promises (`AcceptsExactlyTheGrammar`).
- **`ParseAnswer`**: what a caller makes of the item it is handed: the tags it looks through, the shapes it
  asks for (`MessageItem`, `TaggedItem`, ...), and what is promised of that (`HandsOutWhatWasWrapped`).
- **`StrictCbor`**: one call into the strict parser.  The nested activations of `Parser::parse` are a stack
  of frames; a step reads a head (`ReadHead`) or a stop code (`ReadBreak`), closes a counted
  container (`CloseCounted`), refuses, or returns to the caller, whose checks are `Answer`.  So the states in between are the moments at which limits must already hold.
- **`CoseKey`**: keys as functions from parameters to values, what validation and each provider ask of them
  (`FromCoseKey`), what providers export (`ToCoseKey`), and key sets, read leniently and strictly.
- **`KeyRing`**: a program that keeps keys: it writes and edits them (`WriteKey`, `EditKey`), makes
  providers of them or of raw bytes (`Import`, `MakeRaw`), exports those (`Export`), and keeps, sends
  and receives sets.  `granted` remembers what the hand-written keys permitted with each secret.
- **`Pkcs1Der`**: the DER documents RSA keys pass through, with `Radix` values to a byte and
  `WordBytes` bytes to a length, so that short documents meet every form of both.
- **`CounterSignature`**: a countersignature over a target that only its caller knows, made here or by a
  remote service that also serves slots of COSE_Sign (`Answers`), its value in a header (`ToValue`,
  `FromValue`), and the header field, bare or with several (`SetCounterSignatures`,
  `GetCounterSignatures`).  `ReadBack` takes one out of a field of this program or of another.
- **`MCCwt`**, **`MCSdToken`**, **`MCStrict`**, **`MCKeys`**, **`MCCountersign`**: their instances for TLC;
  **`CountersignProofs`** and **`KeyRingProofs`** hold the theorems about `CounterSignature` and `KeyRing`.

Conventions that hold in every module:

- The code's `*_and_encode` methods are the operation followed by `encode`, which
  changes nothing; they are the action followed by the predicate `CanEncode`.
  `encrypt_detached_and_encode` moves the ciphertext out and is an action.
- Cryptography is ideal: a signature records its key and the exact structure signed,
  a ciphertext its key, nonce, additional data and plaintext.  Forgery and
  key recovery are not modelled.  Whether a provider fails (`available`) is a choice.
- `None` also stands for an empty result buffer (`Vec::new()`), which is what an
  unsigned message holds.
- The message modules leave tags and the parser to `StrictCbor`: `WireOf` is the array that tags
  enclose, and `CanDecode` starts from an array the parser accepted.
- `*_Suffix` operators whose comment starts with "Faulty variant" are plausible bugs.
  Nothing uses them; they show what each property would catch.

## 3. Runs

| Run | Question | Bounds |
|---|---|---|
| `sign1` | With signers in process or remote (answers late, repeated or lost) and every public field edited at will: does what signs verify, does what encodes decode to itself, do foreign bytes survive, was what verifies signed, does the message implement `AuthLayer`? | 3 signers (with and without alg, kid), 4 verifiers, 4 headers per bucket incl. a colliding, a critical, a malformed and an invalid one, 2 payloads, one external data; `MaxRequests` = 1, enough for a stale answer, because the message may be prepared again, in process or with the request dropped, while the request is outstanding |
| `sign_local` | Does verification cover every slot, and are `sign` and `sign_detached` all or nothing, when slots are pushed, dropped and edited? | `MaxSlots` = 2, any of the signers failing, every subset of the verifiers |
| `sign_remote` | What does `set_signatures` leave when it stops half way; do answers of one round of external signing get into the next, through slots handed back half filled, slots filled one at a time, or rows of another length? | `MaxSlots` = 2, `MaxRequests` = 2; one key and two external data, so that two rounds of the same signer differ in nothing but what was signed |
| `sign_unsigned_slot` | Is every slot of an encoded message signed? **Violated**: see section 5 | as `sign_local` |
| `encrypt_embedded` | Does what encrypts decrypt, with every way of giving a nonce and recipients good, missing, edited or nested? | 2 encryptors (with and without Base IV), IVs and Partial IVs of right and wrong length in both buckets, nonces of two one-bit bytes; symmetric in the external data |
| `encrypt_apart` | Are plaintext and ciphertext always a pair when ciphertexts travel apart; does the message implement `AuthLayer`? | `MaxTransit` = 2; one valid and one missing recipient; symmetric in the plaintexts |
| `sd` | Does restoring undo issuing, in whatever order and selection the disclosures are shown; when do payload and protected claims disagree; what does restoring do with tokens no issuer here would make; is everything disclosed back in its place (compared with `InPlace`, which substitutes disclosures for digests without any order)? | sixteen trees, each chosen for one place a mark can stand in or one way two maps can differ, and five requests an issuer must refuse among them; salt generators that run dry or repeat; seven foreign tokens (a digest twice, a name twice, a disclosure of the wrong kind, a hidden issuer, nesting beyond `MaxDepth`); `MaxDepth` = 7, `MaxItems` = 60, `MaxEntries` = 6, `MaxDisclosures` = 5, headers of up to `MaxShown` = 4 |
| `cwt` | Is a token accepted exactly in its window, on every path and in every form, while the clock moves? | `Scale` = 2 (a second has a half), `U64Max` = 4 and `I128Max` = 9, so that dates beyond either exist on both sides; clock from -3 to 4 half seconds; leeways 0 to 2 around `MaxClockSkew` = 1; 17 validators |
| `mac` | Does verification say what was MACed, for this kind of message; do bad recipients stop every path without a trace, and good ones arrive as they were sent? | thirteen forests of recipients, each chosen for one rule (class, sender key, salt, layer, depth); depth limits scaled down to `MaxRecipientDepth` = 1 and `ParserDepth` = 5, which keep the code's order: the parser refuses before the encoder would; up to 2 recipients added by hand; one outstanding request, which is enough for an answer of the other kind; no critical headers, which the runs of COSE_Sign1, COSE_Sign and COSE_Encrypt have |
| `countersign` | Does verification say what was countersigned, for this target and as a countersignature; does what is put in a header come back? | three targets that differ in bytes or body, two signers (one without alg and kid), three verifiers; fields with one bare, several, or an unreadable one; `MaxRequests` = 1, and answers for a slot of COSE_Sign |
| `keys` | Does any way through imports, exports and sets let a provider do what no key allowed; does an export restore its provider; do sets travel whole; do RSA numbers survive DER? | thirteen hand-written keys of every type, some with operations nobody knows, a coordinate too short, or parts of two key pairs; four edits; four raw providers; sets of up to three members with bad kids, repeated or missing parameters; `MaxWritten` = 2, `MaxSet` = 1.  DER with `Radix` = 8 and `WordBytes` = 2: all numbers up to two bytes, and longer ones whose documents cross from the short form of length to the long form with one byte and with two |
| `strict` | Does the parser accept exactly the grammar, within its limits at every moment, does every parse end, and do the decoders hand out exactly what was wrapped? | all data of up to four heads over 13 heads, of up to five over smaller alphabets for map keys and chunks, every map of two entries over ten ways to write a key; the bodies of all six kinds in all wrappings of up to three tags, and the tagged ones with any one head replaced, widened, missing or added; limits that are generous, tight in depth and items, and without indefinite lengths |

Why the bounds are enough to be interesting: two of everything is the least that
can be confused (two payloads, two keys, two preparations outstanding, two slots).
No code counts, compares or combines requests; slots are
treated by one loop whose iterations only share `last_error`.  One-bit bytes are enough
because bytes are only combined by XOR, which never carries.

**Liveness and fairness.**  The library is passive: a caller may stop at any moment and no
scheduler runs its steps, so nothing justifies an assumption that a caller ever makes another call,
and the modules of message objects, tokens and keys state no fairness.  In place of liveness,
`SignThenVerify`, `SigningRoundsStayApart`, `EncryptThenDecrypt`, `ComputeThenVerify` and
`FailedSetSignaturesCanBeRetried` say
*from every reachable state* what the next calls would achieve.  One call of the parser is another
matter: it loops over data whose lengths the data itself announces, or leaves open, and runs in its
caller's thread until it returns.  `StrictCbor` makes a step of each item it reads, with `WF_vars(Next)`,
and `EveryParseEnds` says that every parse ends, whatever it is given.

Two runs turn the deadlock check off: `strict`, because a parse is over when it has returned, and
`keys`, because its hand-written keys are bounded by `MaxWritten`.  In the others it is on: in every
state the caller has another call to make.

## 4. Proofs

`Sign1Proofs` proves about `Spec` of `Sign1Message`, for all values of the constants
(any labels, headers, keys, signers, verifiers, any number of requests):

- `TypeCorrect`: `Spec => []TypeOK`;
- `LifecycleCorrect`: `Spec => []LifecycleOK`;
- `Refinement`: `Spec => ImplementsAuthLayer`;
- `AcceptanceCorrect`: `Spec => []AcceptedIsWhatWasSigned`;
- `RoundTripCorrect`: `Spec => []EncodeDecodeIdentity`;
- `SignThenVerifyCorrect`: `Spec => []SignThenVerify`;
- `ForeignBytesCorrect`: `Spec => []ForeignBytesKept`.

They use only the named assumptions of the modules (`HeaderConstants`, `Sign1Constants`,
`NoneIsNoSignature`), which TLC evaluates on every run.  The argument: lemmas first
say what each helper returns (a header operation keeps the private fields, a
preparation that fails changes only the buckets, `ValidateLayer` implies that the
view equals what the bytes decode to).  `TypeOK` is inductive.  `LifecycleOK` is inductive relative to
`TypeOK`: it needs that stored bytes decode to a valid header, which in turn comes
from `ValidateHeaderBuckets` before every encoding.  Acceptance, the round trip and
`SignThenVerify` then follow state by state, because `ValidateLayer` is checked at the moment of use.
The refinement maps each action to the step of `AuthLayer` of the same kind, and the
failing calls to `Edit` or `Prepare`.

`CwtProofs` proves about `Spec` of `CwtToken`, for every resolution of time, every width of
integer, all claims, maps and validators, from `NumericDateConstants` and `CwtConstants`:

- `TypeCorrect`, `AcceptanceCorrect` (`[]AcceptedExactlyInItsWindow`), `LatenessBounded`
  (`[]NeverAcceptedLate`), `LeewayCorrect` (`[]MoreLeewayAcceptsMore`), `FormCorrect`
  (`[]FormDoesNotMatter`), `ExpiryCorrect` (`ExpiryIsFinal`), `PathsAgree` (`[]TypedAndMapAgree`),
  `RoundTripCorrect` (`[]ClaimsRoundTrip`).

The argument: the comparison of floats and integers is exact (`CompareFloatToIntegerIsExact`,
`CompareIsExact`: cutting a fraction off towards zero and correcting by the sign gives the order of
the instants), `SystemNow` is the second the clock is in, before the epoch too
(`SystemNowIsTheSecond`), and monotone.  So each check of `check_times` says what
exact arithmetic says (`ChecksAreExact`), and the properties follow from `TypeOK`.  The round trip rests on
`WriteThenRead`: reading a field's value back gives the field.  An i128 holds every sum of
a time and a leeway by `CwtConstants` (ten minutes are far less than what an i128 has over an i64).

`MacProofs` proves about `Spec` of `MacMessage`, for any keys, any forests of recipients and any depth
limits that keep the order of the code's, from `HeaderConstants`, `RecipientConstants`, `MacConstants`
and `NoneIsNoTag`:

- `TypeCorrect` (`[]TypeOK`), `AcceptanceCorrect` (`[]AcceptedIsWhatWasMaced`), `TravelCorrect`
  (`[]RecipientsTravel`), `ComputeThenVerifyCorrect` (`[]ComputeThenVerify`),
  `Refinement` (`ImplementsAuthLayer`), `BadRecipientsCorrect` (`[]BadRecipientsBlock`).

The argument: `TypeOK` is inductive; its hard part is that recipients stay a finite forest, whose
paths all have their parents (`ExtendedForest`, `EditedForest`).  For `TravelCorrect`,
validation reads a recipient's headers, ciphertext and layer, and its bytes only to compare them with
the view (`ValidateLocalOfSame`); so a node that validates is still valid when its bytes have gone
over the wire (`NodeAcrossTheWire`), and in the other direction the parser's levels imply the encoder's
depth limit (`DecodedValidates`), which needs `ParserDepth <= 2 * MaxRecipientDepth + 3`.
`ComputeThenVerifyCorrect` follows from what a successful compute leaves (`Tagged`) and from the same lemma.

`EncryptProofs` proves about `Spec` of `EncryptMessage`, for both kinds, any encryptors, nonces, recipients
and ciphertexts in transit, from the assumptions of `CoseHeader`, `CoseNonce`, `Recipients` and
`EncryptMessage`:

- `TypeCorrect` (`[]TypeOK`), `LifecycleCorrect` (`[]LifecycleOK`), `Refinement` (`ImplementsAuthLayer`),
  `DecryptionCorrect` (`[]DecryptedIsWhatWasSealed`), `EncryptThenDecryptCorrect` (`[]EncryptThenDecrypt`),
  `PartialIvsCorrect` (`[]PartialIvsGiveDistinctNonces`).

The argument: every call has one of a few effects on the message (it is new again, keeps what is sealed,
is prepared, has a ciphertext stored, is completed in one call, or is loaded from the wire), and
`StepEffect` gives each action its effect once.  The lifecycle, the refinement and acceptance are then
arguments about effects, not about calls.  A message that comes back from the wire without its
ciphertext, which travels apart, is to `AuthLayer` a stored result.  For `EncryptThenDecryptCorrect`, what
encryption leaves is `Sealed`: its inputs are those that decryption will derive from the message as it
arrives, nonce included (`NonceOfHeaders`), so it opens (`SealedOpens`).  `PartialIvsCorrect` holds for byte strings of any length.  The number
a Partial IV stands for is written as the set of the powers of two in it, so that two numbers that differ have a
power that only one of them has; its bit stands at the same place, counted from the right, in both padded
strings (`PaddedApart`), and XOR with one Base IV keeps them apart.

`SignProofs` proves about `Spec` of `SignMessage`, for any number of slots, signers and requests:
`TypeCorrect` (`[]TypeOK`), `AcceptanceCorrect` (`[]AcceptedMeansEverySlotSigned`), `FailureCorrect`
(`[]FailedSignLeavesNoSignature`), `SignThenVerifyCorrect` (`[]SignThenVerify`),
`SigningRoundsCorrect` (`[]SigningRoundsStayApart`), `RetryCorrect` (`[]FailedSetSignaturesCanBeRetried`).  The loops over signers
and slots are operators on sequences, so the argument is position by position: a slot that verifies
names a verifier whose inputs are those of the slot's own bytes, and a failing call empties every slot it
was handed.  The type of a prepared message needs that equal lengths come with equal domains
(`NewSlotsFit`).  For `SignThenVerifyCorrect`, what signing leaves in a slot (`OwnHeaders`) is what the verifier
with that signer's key looks for (`SignedVerifies`).  `RetryCorrect` compares two calls slot by slot: a slot that
was filled before the failure is filled again with the same signature, its bytes being frozen (`HalfFilledRetries`);
the slot that refused is one that neither encoding nor verifying lets pass (`FailedSetSigs`).
`SigningRoundsCorrect` is about messages whose bytes are those of their headers (`RoundOpen`): a preparation makes
one from any state (`PrepareOpens`), and `set_signatures` with a full row makes of it what it makes of the same
message with empty slots (`EmptiedRoundFillsAlike`), which encodes (`CompleteEncodes`) and verifies (`HoldersVerify`).

`CountersignProofs` proves about `Spec` of `CounterSignature`: `TypeCorrect` (`[]TypeOK`),
`AcceptanceCorrect` (`[]AcceptedIsWhatWasCountersigned`), `TravelCorrect` (`[]CountersignaturesTravel`),
`Refinement` (`ImplementsAuthLayer`).
`TravelCorrect` says that what is put in a header comes out again, whether it stands there bare or in an array; it
rests on `ValueRoundTrip`, that reading a value back gives the object it was written from.

`KeyRingProofs` proves about `Spec` of `KeyRing`, for any keys, edits, raw providers and foreign sets, from
`KeyConstants` and `KeyRingConstants`:

- `SetsCorrect` (`[]SetsTravelWhole`), `UseIsEntitled` (`[]NoUnentitledUse`), `ExportCorrect`
  (`[]ExportedKeyRestoresTheProvider`), `RsaDocumentsCorrect` (`[]RsaKeysSurviveDer`).

The argument for sets: `OriginOK` remembers how the set and the bytes came about, and `ReadableKeeps` says
that leaving out the unreadable members keeps the others, which needs that the ranks of the members kept
are numbers without gaps (`RanksCount`).  `NoUnentitledUse` is about the provider alone and not inductive: a provider
exported, sent, read back and imported is only entitled because the key in between was.  `Safe` strengthens it:
every key at hand, in the set or on the wire permits only what was granted for its secrets, as far as an operation
is one for its algorithm (`KeysGranted`), and every provider is well made (`WellMade`).  The restriction to the
algorithm is needed: a raw MACer is granted MAC operations, and the key it exports has no `key_ops`, which forbids
nothing.  `ImportedIsWellMade` and `ExportedPermitsLess` say that neither direction adds a permission or a secret, but
for the verification that comes with signing.  `WellMade` also is what an export needs to be imported again
(`ImportsWhatItGave`).  `KeyRingConstants` says of a raw provider what the raw constructors check (`IsRaw`);
`KeyConstants` says that `None` and `Malformed` are no values of a key.

`RsaDocumentsCorrect` is from `DerConstants`, for every even radix and every word size below half of it; the last
conjunct of `DerConstants` says that two numbers and the octets around them are not longer than a usize can
count, which no slice is.  The conversions of `Pkcs1Der` are recursive functions, and a recursive function is a choice
among the functions that satisfy its equation.  So each is first shown to have one (`Recursion`), by induction, and
induction itself is proved from well-foundedness, as a statement about sets (`LeastNatural`, `UpInduct`).  From
there: a number is what its bytes say (`WordRoundTrip`), leading zeros say nothing (`StrippedKeeps`), a length that was
written is read whatever follows it (`LengthReads`), so a tagged value is taken from the front of any byte string
(`TlvTaken`) and not from one that lost its last byte (`TlvCutOff`).  A document is its first integer followed by the
others (`DocumentIs`), and is taken apart in that order (`DocumentReads`).

`KeyRingProofs` also proves about `Spec` of `StrictCbor`, which it instantiates beside `ParseAnswer`, because its
lemmas about rows and induction serve there too:

- `ParserLimitsCorrect` (`[]NeverHoldsMoreThanAllowed`), `ParserAcceptsTheGrammar`
  (`[]AcceptsExactlyTheGrammar`), `MessageDecodersAgree` (`[]HandsOutWhatWasWrapped`).

All are from `CborConstants`, stated in the theorems: limits are natural numbers, data is a sequence, a
head is what `Parser::uint` can read (`IsHead`: only a string, an array or a map can be of open length, and a length is a
natural number), and a message decoder is called with one of the six message tags, as each of its callers does;
nothing else is asked of the data, which need not be CBOR.  For the limits, the
invariant is the property with the shape of the stack (`ParserShape`).  It is inductive because it counts activations together with items: an item
that is closed takes the place its activation had, so only a head adds to what is held, and the head is counted.
That a delivered item brings no second copy of its members is `NodesGrow`: nodes whose members are there
already add themselves and no others, at any depth.

For acceptance, the grammar is the reference and the stack is the program, and the argument is in three parts.
The grammar is a recursive function of places (a position, and how many members are asked for from there); that
it satisfies its own equation is `ItemsAreTheGrammar`, by induction from the end of the data.  Then, about
the grammar alone: at every place there is at most one parse (`OneParse`); the first members of
a parse are the parse of as many members (`MembersBegin`); one more item behind them makes one member more
(`OneMoreBehind`), a break makes them all (`StopIsTheEnd`), and a parse that is not the whole
of another goes on with an item the other contains (`MoreIsAnItem`).  The third part is the invariant
`ParseInv`: every activation has parsed its first members as the grammar does, within depth and with keys apart, and
stands where the one above it began (`Chain`); and if the data is valid, then so is the item at
every activation's start (`AllFine`).  The second half is what makes refusals right:
where valid data owes a member there is an item, it fits in a string of chunks, and no earlier key equals it (`NextIsFine`,
`NextIsNew`), so none of the parser's reasons to refuse can hold.  The limit on items needs no more than that the
heads read so far are among the heads of the data (`HeadsCount`).  Canonical keys are compared by what they mean,
because there is one item at a place (`KeyIsTheValue`).

For the decoders, `ParseInv` also says that the result is `Answer` of the root (`Answered`), and the invariant
`ItemsInv` says that every item built so far is whole: its head is the one `data` has where it starts, and the
member of a tag begins right behind the tag and ends with it.  It needs that the activation of a tag has read its one
member or none (`TagsFilled`).  So to look through a tag is to move one place on (`PeelsOne`), and however many tags
there are, what `MessageItem` looks through is compared with the six wrappings row by row (`WrappingIs`,
`Unwrapped`).  That the shapes inside are those of a message is the decoder's own test and not proved of the bytes:
the property says which item it is applied to.

`HeaderProofs` holds the lemmas that more than one module needs, about headers and about recipients.  The former
speak of any set of layers that header edits do not leave (`ClosedUnderEdits`), so that what
`prepare_headers` does is proved once for every record type.  Because it extends `Recipients`, the constants of
that module and `RecipientConstants` are in the scope of the proofs about COSE_Sign1, COSE_Sign and countersignatures too;
no step of them uses either.

Of the assumptions, `HeaderConstants` says that `None` is no rank of `kid_match_rank`, and `NonceConstants` that it is no byte
string: in the code they are an `Option`.

What stays with TLC, and why:

- liveness (`EveryParseEnds`);
- everything about SD-CWT, whose operators recurse over trees.

Some theorems go beyond the runs.  `LatenessBounded`, `LeewayCorrect` and `FormCorrect` have no run of their own,
since the `cwt` run checks the exact window they follow from; neither has `Refinement` of `MacProofs` and
`CountersignProofs`, whose property is the one `sign1` and `encrypt_apart` check.  Type invariants and `LifecycleOK` are
proved and no longer listed in the runs.

## 5. Findings

`sign_unsigned_slot`: `SignMessage::encode` checks the state of the body only.  After
`sign`, a `Signature` pushed onto the public `signatures` vector (or one whose own
`set_signature` was never called) is encoded with an empty signature, while the code refuses
with "SignMessage must be signed before encoding" and documents `to_vec` as encoding "a
signed message".  Verification rejects the result (`AcceptedMeansEverySlotSigned` holds), so
the effect is a message that no receiver can accept.

## 6. What is not modelled

Cryptography itself (the backends of `crypto.rs`, `aes_gcm.rs` and `ed25519.rs`; what they take from
keys, what they permit, export, and the DER documents they are handed *are* modelled), registries and
conversions (`iana.rs`, `label.rs`, `error.rs`), KDF context encoding (`context.rs`: plain records with
the mechanism of retained bytes that `Recipients` has), the content-type grammar, the typed setters of
headers.  They keep no state that a model checker could get wrong.

In the modelled parts: the human-readable form of CWT claims and its legacy tag; AEAD-encrypted
disclosures, the byte limits, the header parameters `typ`, `sd_alg` and `sd_aead`, and the types and
dates of registered claims in SD-CWT validation; hash collisions.  Of recipients: the values of
coordinates beyond their length, and the nested array that is present but empty, which only the
decoder can meet and refuses.

Of the parser: the second pass of `validate_with_limits` over the same bytes (`strict.rs:350`), which belongs
to the `cbor2` crate.  `CborGrammar` describes what `strict.rs` accepts, which includes a simple value below 32
written in two bytes (`strict.rs:242`).

One hazard that is modelled has no property: the encoder lets recipients nest deeper than the parser
reads (`recipient.rs:407`).  `ComputeThenVerify` and `RecipientsTravel` hold for recipients within the
parser's depth (`Readable`) and say nothing of deeper ones; no document promises anything of these.

## 7. Plan

Done: the six kinds of signed, MACed and encrypted messages with their recipients, countersignatures,
the authenticated layer, CWT, SD-CWT, keys and providers with their DER documents, the strict parser;
proofs about every kind of message, about countersignatures, keys and CWT, and about what the strict parser holds, accepts and hands out.

Left, in this order:

1. The header checks of SD-CWT validation (`typ`, `sd_alg`, `sd_aead`) and AEAD-encrypted disclosures;
   the human-readable form of CWT claims and its legacy tag; the records of `context.rs`.
2. `AuthLayer` implemented by the body of `SignMessage` too.
