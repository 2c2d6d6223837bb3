------------------------------ MODULE SdToken ------------------------------
(***************************************************************************)
(* A selective disclosure token from issuance to restoration               *)
(* (src/sd-cwt/src).  The issuer turns marked claims into a token and a    *)
(* list of disclosures; whoever holds these writes some of them, in some   *)
(* order, into the unprotected header; a receiver reads the header and     *)
(* restores the claims.  Signatures are the business of Sign1Message.      *)
(*                                                                         *)
(* Claims may stand in the payload and in the protected CWT_Claims header. *)
(* Issuing covers one map, so a token with both is made by two calls.      *)
(***************************************************************************)
EXTENDS SdIssuance, SdRestore

CONSTANTS
  PreIssued,            \* marked claims an issuer starts from
  SaltRun,              \* what a salt generator returns, in order
  ForeignToken,         \* tokens made elsewhere, with their disclosures
  ForeignDisclosure,    \* disclosures of other tokens
  MaxShown,             \* bound: the longest sd_claims header
  IssuerInHeader        \* options.issuer_identified_by_protected_header

VARIABLES
  claims,   \* the marked claims this token was issued from, None if elsewhere
  token,    \* [payload, protected], None before there is one
  secret,   \* the disclosures made with it
  header    \* sd_claims: None or a sequence of disclosures

vars == <<claims, token, secret, header>>

-----------------------------------------------------------------------------
(* set_disclosures: an empty list removes the parameter.                   *)
SetDisclosures(ds) == IF ds = << >> THEN None ELSE ds

(* disclosures_from_unprotected_with_limits: what one disclosure uses of   *)
(* the limit on items is not there for the next.  The result says whether  *)
(* all of them were read.                                                  *)
ReadDisclosure(acc, d) ==
  [ok |-> /\ acc.ok /\ d.salt \notin acc.salts
          /\ ValidateCbor(Encoded(d), acc.left) /\ DisclosureOk(d, acc.left),
   left |-> acc.left - ItemCount(d), salts |-> acc.salts \cup {d.salt}]
ReadDisclosures(h) ==
  h = None \/
  FoldLeft(ReadDisclosure,
           [ok |-> Len(h) <= MaxDisclosures /\ Len(h) + 1 <= MaxItems,
            left |-> MaxItems - (Len(h) + 1), salts |-> {}], h).ok
Shown(h) == IF h = None THEN << >> ELSE h

(* validate_required_claims over the payload and the protected claims.     *)
EntriesOf(x) == IF x = None THEN {} ELSE ToSet(x.e)
RequiredClaims(payload, protected, mayHideSubject) ==
  LET entries == EntriesOf(payload) \cup EntriesOf(protected)
      Has(name) == \E en \in entries : en.key = Label(name)
      hides == \E en \in entries : /\ en.key.mark = "59"
                                   /\ en.val.t = "array" /\ en.val.i # << >>
  IN /\ Has("iss") \/ IssuerInHeader
     /\ Has("cnf")
     /\ Has("sub") \/ (mayHideSubject /\ hides)

(* restore_payload_with_disclosures_and_limits                             *)
RestorePayload(tok, h, mode) ==
  IF ReadDisclosures(h) /\ ValidateCbor(tok.payload, MaxItems)
  THEN Restore(tok.payload, tok.protected, Shown(h), mode, FALSE)
  ELSE Refused

(* SdCwtValidator::validate_and_restore; the types and dates of registered *)
(* claims are left out.                                                    *)
SubjectKnown(r, mode) ==
  IF r.ok /\ (mode = "Holder" =>
                 RequiredClaims(r.value, r.protected_claims, FALSE))
  THEN r ELSE Refused
ValidateAndRestore(tok, h, mode) ==
  IF /\ ReadDisclosures(h) /\ ValidateCbor(tok.payload, MaxItems)
     /\ RequiredClaims(tok.payload, tok.protected, TRUE)
  THEN SubjectKnown(Restore(tok.payload, tok.protected, Shown(h), mode, TRUE),
                    mode)
  ELSE Refused

-----------------------------------------------------------------------------
(* Actions.                                                                *)
Init ==
  /\ claims = None /\ token = None
  /\ secret = << >> /\ header = SetDisclosures(<< >>)

(* Both calls draw on one generator; an error leaves no token.             *)
NoProtectedClaims == [ok |-> TRUE, value |-> None, disclosures |-> << >>]
IssueToken ==
  /\ token = None
  /\ \E c \in PreIssued, salts \in SaltRun :
     \E p \in {Issue(c.payload, salts)} :
     \E q \in {IF c.protected = None THEN NoProtectedClaims
              ELSE Issue(c.protected, p.salts)} :
       /\ p.ok /\ q.ok
       /\ claims' = c
       /\ token' = [payload |-> p.value, protected |-> q.value]
       /\ secret' = p.disclosures \o q.disclosures
  /\ UNCHANGED header

ReceiveToken ==
  /\ token = None
  /\ \E f \in ForeignToken : token' = f.token /\ secret' = f.disclosures
  /\ UNCHANGED <<claims, header>>

(* The holder adds a disclosure to the DisclosureSet and writes the header.*)
Disclose ==
  /\ token # None /\ Len(Shown(header)) < MaxShown
  /\ \E d \in ToSet(secret) \cup ForeignDisclosure :
       header' = SetDisclosures(Append(Shown(header), d))
  /\ UNCHANGED <<claims, token, secret>>

WithholdAll ==
  /\ header # None /\ header' = SetDisclosures(<< >>)
  /\ UNCHANGED <<claims, token, secret>>

Next == IssueToken \/ ReceiveToken \/ Disclose \/ WithholdAll

Spec == Init /\ [][Next]_vars

-----------------------------------------------------------------------------
(* What the properties speak of, independent of any traversal order.       *)

(* A value as its reader understands it: maps without order, marked        *)
(* entries and elements as if they were plain, decoys gone.                *)
RECURSIVE Meaning(_)
Meaning(x) ==
  LET Unmarked(y) == IF y.t = "tag" /\ y.n = "58" THEN y.x ELSE y
      IsDecoy(y) == y.t = "tag" /\ y.n = "62"
      items == SelectSeq(x.i, LAMBDA y : ~ IsDecoy(y))
  IN CASE x.t = "map" ->
            [t |-> "map", e |-> {<<en.key.name, Meaning(en.val)>> : en \in
               {y \in ToSet(x.e) : y.key.mark \in {"label", "58"}}}]
       [] x.t = "array" ->
            Array([i \in DOMAIN items |-> Meaning(Unmarked(items[i]))])
       [] x.t = "tag" -> Tag(x.n, Meaning(x.x))
       [] OTHER -> x

(* Everything within x, without looking behind digests.                    *)
RECURSIVE Parts(_)
Parts(x) ==
  {x} \cup CASE x.t = "map" -> UNION {Parts(en.val) : en \in ToSet(x.e)}
             [] x.t = "array" -> UNION {Parts(y) : y \in ToSet(x.i)}
             [] x.t = "tag" -> Parts(x.x)
             [] OTHER -> {}
Atoms(x) == {y \in Parts(x) : y.t = "atom"}
DigestsIn(x) == {y.d : y \in {z \in Parts(x) : z.t = "bytes"}}

Bodies(tok, h) ==
  {tok.payload} \cup ({tok.protected} \ {None}) \cup
  {d.val : d \in {x \in ToSet(Shown(h)) : x.kind # "decoy"}}

(* Every digest occurrence within x, duplicates counted.                   *)
RECURSIVE DigestCount(_)
DigestCount(x) ==
  CASE x.t = "map" ->
         FoldLeft(LAMBDA n, en : n + DigestCount(en.val), 0, x.e)
    [] x.t = "array" -> FoldLeft(LAMBDA n, y : n + DigestCount(y), 0, x.i)
    [] x.t = "tag" -> DigestCount(x.x)
    [] x.t = "bytes" -> 1
    [] OTHER -> 0

DigestsMet(tok, h) ==
  FoldFunction(LAMBDA x, n : DigestCount(x) + n,
               IF tok.protected = None THEN 0 ELSE DigestCount(tok.protected),
               <<tok.payload>> \o [i \in DOMAIN Shown(h) |-> Shown(h)[i].val])

(* The meaning of x with the shown disclosures put where their digests are.*)
RECURSIVE InPlace(_, _)
InPlace(x, shown) ==
  LET Visible(y) == IsHash(y) => y.x.d \in shown /\ y.x.d.kind = "element"
      items == SelectSeq(x.i, Visible)
      Open(y) == IF IsHash(y) THEN y.x.d.val ELSE y
      redacted == UNION {{h.d : h \in ToSet(en.val.i)} : en \in
                    {y \in ToSet(x.e) : y.key = RedactedKeys}}
      disclosed == {d \in redacted \cap shown : d.kind = "claim"}
      plain == {y \in ToSet(x.e) : y.key.mark = "label"}
  IN CASE x.t = "map" ->
            [t |-> "map",
             e |-> {<<en.key.name, InPlace(en.val, shown)>> : en \in plain}
                   \cup {<<d.key, InPlace(d.val, shown)>> : d \in disclosed}]
       [] x.t = "array" ->
            Array([i \in DOMAIN items |-> InPlace(Open(items[i]), shown)])
       [] x.t = "tag" -> Tag(x.n, InPlace(x.x, shown))
       [] OTHER -> x

Issued == token # None /\ claims # None
AllShown == ToSet(Shown(header)) = ToSet(secret)
Mode == {"Holder", "Verifier"}

(* Claims of one name that the issuer gave two meanings.                   *)
Conflict(c) ==
  /\ c.protected # None
  /\ \E p \in Meaning(c.payload).e, q \in Meaning(c.protected).e :
       p[1] = q[1] /\ p[2] # q[2]

-----------------------------------------------------------------------------
(* Issuing loses nothing: with every disclosure shown, in whatever order,  *)
(* holder and verifier restore the claims the issuer started from, nested  *)
(* and decoy digests included (issuance.rs, restore.rs).                   *)
AllShownRestoresTheClaims ==
  Issued /\ AllShown /\ IsInjective(Shown(header)) =>
    \A mode \in Mode :
      LET r == RestorePayload(token, header, mode)
      IN /\ r.ok /\ Meaning(r.value) = Meaning(claims.payload)
         /\ claims.protected # None =>
              Meaning(r.protected_claims) = Meaning(claims.protected)

(* What a verifier accepts does not depend on the order of sd_claims: each *)
(* disclosure is shown once and answers a digest of the token or of        *)
(* another disclosure that is shown (DisclosureMap::new, restore_value).   *)
AcceptedInAnyOrder ==
  Issued =>
    LET shown == ToSet(Shown(header))
        known == UNION {DigestsIn(x) : x \in Bodies(token, header)}
    IN RestorePayload(token, header, "Verifier").ok
         <=> IsInjective(Shown(header)) /\ shown \subseteq known

(* Restored claims are the clear part of the token and what is shown,      *)
(* nothing else and nothing less, whoever made the token; and unless a     *)
(* digest stands in two places, every disclosed claim is under its own key *)
(* in the map that redacted it, every disclosed element where its digest   *)
(* was in the array (restore_value).                                       *)
OnlyShownIsRestored ==
  token # None =>
    LET r == RestorePayload(token, header, "Verifier")
        restored == {r.value} \cup ({r.protected_claims} \ {None})
        shown == ToSet(Shown(header))
        digests == UNION {DigestsIn(x) : x \in Bodies(token, header)}
    IN r.ok =>
         /\ UNION {Atoms(x) : x \in restored}
              = UNION {Atoms(x) : x \in Bodies(token, header)}
         /\ DigestsMet(token, header) = Cardinality(digests) =>
              /\ Meaning(r.value) = InPlace(token.payload, shown)
              /\ token.protected # None =>
                   Meaning(r.protected_claims) = InPlace(token.protected, shown)

(* No digest is lost: each one met is answered once, by a claim, an        *)
(* element or a decoy, or counted as removed; a holder accepts exactly     *)
(* when none has to be removed (RestoreStats, DisclosureMap::remove).      *)
EveryDigestIsAnsweredOrRemoved ==
  token # None =>
    LET r == RestorePayload(token, header, "Verifier")
        met == DigestsMet(token, header)
    IN /\ r.ok => /\ r.disclosed + r.decoys = Len(Shown(header))
                  /\ r.disclosed + r.decoys + r.removed = met
       /\ RestorePayload(token, header, "Holder").ok
            <=> r.ok /\ r.removed = 0

(* What is still hidden is no evidence: payload and protected claims are   *)
(* only found to disagree when the issuer made them disagree               *)
(* (claim_values_match).                                                   *)
OnlyRealConflictsAreRefused ==
  /\ Issued /\ RestorePayload(token, header, "Verifier").ok
  /\ RequiredClaims(token.payload, token.protected, TRUE)
  /\ ~ ValidateAndRestore(token, header, "Verifier").ok
  => Conflict(claims)

(* ... and once nothing is hidden any more, every conflict is found.       *)
ConflictsAreFoundInTheEnd ==
  Issued /\ AllShown /\ ValidateAndRestore(token, header, "Holder").ok
    => ~ Conflict(claims)

(* Depth is counted across disclosures: however a token nests them, the    *)
(* claims that come out nest no deeper than max_depth and name no claim    *)
(* twice (restore.rs, TraversalBudget).                                    *)
RestoredIsWithinLimits ==
  token # None =>
    \A mode \in Mode :
      LET r == RestorePayload(token, header, mode)
      IN r.ok => /\ Nesting(r.value) <= MaxDepth /\ KeysOnce(r.value)
                 /\ ItemsIn(r.value) <= MaxItems

(* A claim that must never be redacted is only accepted in the clear: the  *)
(* validator lets no disclosure supply it, in either map                   *)
(* (validate_root_disclosure_key).                                         *)
ClearClaimsStayClear ==
  token # None =>
    \A mode \in Mode :
      LET r == ValidateAndRestore(token, header, mode)
          Clear(x) == {en \in ToSet(x.e) : en.key.name \in NeverRedacted}
          Names(x) == {en.key : en \in Clear(x)}
      IN r.ok => /\ Names(r.value) = Names(token.payload)
                 /\ token.protected # None =>
                      Names(r.protected_claims) = Names(token.protected)
=============================================================================
