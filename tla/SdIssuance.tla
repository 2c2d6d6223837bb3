----------------------------- MODULE SdIssuance -----------------------------
(***************************************************************************)
(* Turning a pre-issuance claims map into an issued one                    *)
(* (src/sd-cwt/src/issuance.rs): every marked entry or element is replaced *)
(* by the digest of a disclosure, innermost first, so that the disclosure  *)
(* of an outer value holds the digests of the inner ones.                  *)
(*                                                                         *)
(* The work record is the code's IssueContext: the salts the generator is  *)
(* still to return, the salts and decoy identifiers seen, the disclosures  *)
(* made.  Results are records [w, val]: the work and the issued value.     *)
(***************************************************************************)
EXTENDS SdValues

IssueContext(salts) ==
  [ok |-> TRUE, visited |-> 0, salts |-> salts, salts_used |-> {},
   decoy_ids |-> {}, disclosures |-> << >>]

(* IssueContext::next_salt, which returned the head of w.salts.            *)
NextSalt(w) ==
  [Require(w, Head(w.salts) \notin w.salts_used) EXCEPT
     !.salts = Tail(@), !.salts_used = @ \cup {Head(w.salts)}]

RecordDisclosure(w, d) ==
  [w |-> [Require(w, /\ DisclosureOk(d, MaxItems)
                     /\ Len(w.disclosures) < MaxDisclosures
                     /\ d \notin ToSet(w.disclosures))
            EXCEPT !.disclosures = Append(@, d)],
   val |-> Bytes(d)]

(* add_disclosure with a fresh salt: the work, and the new digest.  A      *)
(* generator with no salt left returns an error.                           *)
AddDisclosure(w, kind, key, x) ==
  IF w.salts = << >> THEN [w |-> Fail(w), val |-> Null]
  ELSE RecordDisclosure(NextSalt(w), Disclosure(kind, Head(w.salts), key, x))

(* record_decoy_id: positive and unique over the whole value.              *)
RecordDecoyId(w, id) ==
  [Require(w, id # "0" /\ id \notin w.decoy_ids) EXCEPT
     !.decoy_ids = @ \cup {id}]

RECURSIVE IssueValue(_, _, _)

(* The value behind a mark is issued before it goes into a disclosure.     *)
DiscloseClaim(r, name) == AddDisclosure(r.w, "claim", name, r.val)
DiscloseElement(r) == AddDisclosure(r.w, "element", None, r.val)

IssueMap(w0, entries, depth) ==
  LET Hash(acc, r) == [acc EXCEPT !.w = r.w, !.hashes = Append(@, r.val)]
      Put(acc, key, r) ==
        [acc EXCEPT !.w = r.w, !.out = Append(@, Entry(key, r.val))]
      (* the marks are stripped: a redacted key and a plain one collide    *)
      Name(key) == IF key.mark = "58" THEN Label(key.name) ELSE key
      Start(acc, en) ==
        [acc EXCEPT !.w = Require(Enter(@, depth + 1),
                                  Name(en.key) \notin acc.keys),
                    !.keys = @ \cup {Name(en.key)}]
      Add(acc, en) ==
        CASE en.key.mark = "58" ->
               Hash(acc, DiscloseClaim(
                 IssueValue(Require(Enter(acc.w, depth + 2),
                                     MayBeRedacted(en.key.name, depth)),
                             en.val, depth + 1), en.key.name))
          [] en.key.mark = "62" ->
               Hash(acc, AddDisclosure(
                 Require(Enter(RecordDecoyId(Enter(acc.w, depth + 2),
                                             en.key.name), depth + 1),
                         en.val = Null), "decoy", None, Null))
          [] en.key.mark = "label" ->
               Put(acc, en.key, IssueValue(acc.w, en.val, depth + 1))
          [] OTHER -> [acc EXCEPT !.w = Fail(@)]
      Close(acc) ==
        [w |-> acc.w, val |-> Map(acc.out \o RedactedEntry(acc.hashes))]
  IN Close(FoldLeft(LAMBDA acc, en : Add(Start(acc, en), en),
                    [w |-> Container(w0, Len(entries)), keys |-> {},
                     out |-> << >>, hashes |-> << >>], entries))

IssueArray(w0, items, depth) ==
  LET Put(acc, r) == [w |-> r.w, val |-> Append(acc.val, r.val)]
      Hash(acc, r) == [w |-> r.w, val |-> Append(acc.val, Tag("60", r.val))]
      Add(acc, x) ==
        CASE x.t = "tag" /\ x.n = "58" ->
               Hash(acc, DiscloseElement(
                 IssueValue(Enter(acc.w, depth + 1), x.x, depth + 2)))
          [] x.t = "tag" /\ x.n = "62" ->
               Hash(acc, AddDisclosure(
                 RecordDecoyId(Enter(Enter(acc.w, depth + 1), depth + 2),
                               x.x.v), "decoy", None, Null))
          [] OTHER -> Put(acc, IssueValue(acc.w, x, depth + 1))
      Close(acc) == [acc EXCEPT !.val = Array(@)]
  IN Close(FoldLeft(Add, [w |-> Container(w0, Len(items)), val |-> << >>],
                    items))

IssueEntered(w, x, depth) ==
  CASE x.t = "map" -> IssueMap(w, x.e, depth)
    [] x.t = "array" -> IssueArray(w, x.i, depth)
    [] x.t = "tag" /\ x.n \notin ReservedTag ->
         Retagged(x.n, IssueValue(w, x.x, depth + 1))
    [] x.t = "simple59" \/ x.t = "tag" -> [w |-> Fail(w), val |-> x]
    [] OTHER -> [w |-> w, val |-> x]

IssueValue(w, x, depth) == IssueEntered(Enter(w, depth), x, depth)

(* issue_from_preissuance_with_limits                                      *)
IssueResult(r) ==
  [ok |-> r.w.ok, value |-> r.val, disclosures |-> r.w.disclosures,
   salts |-> r.w.salts]
Issue(x, salts) == IssueResult(IssueValue(IssueContext(salts), x, 0))
=============================================================================
