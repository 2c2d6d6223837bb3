------------------------------ MODULE SdRestore ------------------------------
(***************************************************************************)
(* Putting disclosed claims back into an issued value                      *)
(* (src/sd-cwt/src/restore.rs), and comparing the restored payload with    *)
(* the restored claims of the protected header while parts of either are   *)
(* still hidden (src/sd-cwt/src/validation.rs).                            *)
(*                                                                         *)
(* The work record holds the disclosures not yet used (DisclosureMap) and  *)
(* the RestoreStats.  mode is "Holder" or "Verifier"; strict is the flag   *)
(* validate_claims of the structural validator.                            *)
(***************************************************************************)
EXTENDS SdValues

(* DisclosureMap::new                                                      *)
AddPending(w, d) ==
  [Consume(Require(w, \A p \in w.pending : p.salt # d.salt), ItemCount(d))
     EXCEPT !.pending = @ \cup {d}]
DisclosureMap(shown) ==
  FoldLeft(AddPending,
           [ok |-> Len(shown) <= MaxDisclosures, visited |-> 0, pending |-> {},
            disclosed |-> 0, decoys |-> 0, removed |-> 0], shown)

(* A disclosure is used up by the first digest it answers.                 *)
Use(w, d, stat) == [w EXCEPT !.pending = @ \ {d}, ![stat] = @ + 1]

\* Faulty variant: a holder, too, drops what it has no disclosure for.
Undisclosed_InAnyMode(w, mode) == [w EXCEPT !.removed = @ + 1]

(* A digest no disclosure answers: a verifier counts it, a holder refuses. *)
Undisclosed(w, mode) ==
  IF mode = "Verifier" THEN [w EXCEPT !.removed = @ + 1] ELSE Fail(w)

RECURSIVE RestoreValue(_, _, _, _, _)

\* Faulty variant: nesting starts again inside a disclosed value.
RestoreDisclosed_FromRoot(w, d, mode, strict, depth) ==
  RestoreValue(Use(w, d, "disclosed"), d.val, mode, strict, 0)

\* Faulty variant: a disclosed value is taken as it is.
RestoreDisclosed_Flat(w, d, mode, strict, depth) ==
  [w |-> Use(w, d, "disclosed"), val |-> d.val]

(* The value of a disclosure continues at the depth of what it replaces.   *)
RestoreDisclosed(w, d, mode, strict, depth) ==
  RestoreValue(Use(w, d, "disclosed"), d.val, mode, strict, depth + 1)

(* The visible entries come first, then the digests found among them.      *)
RestoreMap(w0, entries, mode, strict, depth) ==
  LET Put(acc, key, r) ==
        [acc EXCEPT !.w = r.w, !.keys = @ \cup {key},
                    !.out = Append(@, Entry(key, r.val))]
      Collect(acc, hashes) ==
        [acc EXCEPT !.w = ValidateDigests(Require(@, ~ acc.seen), hashes, depth),
                    !.seen = TRUE, !.hashes = hashes]
      Visible(acc, en) ==
        CASE en.key.mark = "59" /\ en.val.t = "array" -> Collect(acc, en.val.i)
          [] en.key.mark = "label" ->
               Put(acc, en.key,
                   RestoreValue(Require(acc.w, en.key \notin acc.keys), en.val,
                                mode, strict, depth + 1))
          [] OTHER -> [acc EXCEPT !.w = Fail(@)]
      Claim(acc, d) ==
        Put(acc, Label(d.key),
            RestoreDisclosed(
              Require(acc.w, /\ Label(d.key) \notin acc.keys
                             /\ strict => MayBeRedacted(d.key, depth)),
              d, mode, strict, depth))
      Hidden(acc, h) ==
        CASE h.d \notin acc.w.pending ->
               [acc EXCEPT !.w = Undisclosed(@, mode),
                           !.kept = IF strict THEN Append(@, h) ELSE @]
          [] h.d.kind = "claim" -> Claim(acc, h.d)
          [] h.d.kind = "decoy" -> [acc EXCEPT !.w = Use(@, h.d, "decoys")]
          [] OTHER -> [acc EXCEPT !.w = Fail(@)]
      Disclose(acc) ==
        IF acc.w.ok THEN FoldLeft(Hidden, acc, acc.hashes) ELSE acc
      Close(acc) ==
        [w |-> acc.w, val |-> Map(acc.out \o RedactedEntry(acc.kept))]
  IN Close(Disclose(
       FoldLeft(LAMBDA acc, en :
                  Visible([acc EXCEPT !.w = Enter(@, depth + 1)], en),
                [w |-> Container(w0, Len(entries)), keys |-> {}, out |-> << >>,
                 seen |-> FALSE, hashes |-> << >>, kept |-> << >>], entries)))

RestoreArray(w0, items, mode, strict, depth) ==
  LET Put(acc, r) == [w |-> r.w, val |-> Append(acc.val, r.val)]
      Hidden(acc, x) ==
        CASE x.x.t # "bytes" -> [acc EXCEPT !.w = Fail(@)]
          [] x.x.t = "bytes" /\ x.x.d \notin acc.w.pending ->
               [w |-> Undisclosed(acc.w, mode),
                val |-> IF strict THEN Append(acc.val, x) ELSE acc.val]
          [] x.x.t = "bytes" /\ x.x.d \in acc.w.pending ->
               CASE x.x.d.kind = "element" ->
                      Put(acc, RestoreDisclosed(acc.w, x.x.d, mode, strict,
                                                depth))
                 [] x.x.d.kind = "decoy" ->
                      [acc EXCEPT !.w = Use(@, x.x.d, "decoys")]
                 [] OTHER -> [acc EXCEPT !.w = Fail(@)]
      Add(acc, x) ==
        IF IsHash(x)
        THEN Hidden([acc EXCEPT
               !.w = Enter(Enter(@, depth + 1), depth + 2)], x)
        ELSE Put(acc, RestoreValue(acc.w, x, mode, strict, depth + 1))
      Close(acc) == [acc EXCEPT !.val = Array(@)]
  IN Close(FoldLeft(Add, [w |-> Container(w0, Len(items)), val |-> << >>],
                    items))

\* Faulty variant: disclosed elements follow the visible ones, as in a map.
RestoreEntered_ElementsLast(w, x, mode, strict, depth) ==
  CASE ~ w.ok -> [w |-> w, val |-> x]
    [] w.ok /\ x.t = "map" -> RestoreMap(w, x.e, mode, strict, depth)
    [] w.ok /\ x.t = "array" ->
         RestoreArray(w, SelectSeq(x.i, LAMBDA y : ~ IsHash(y))
                           \o SelectSeq(x.i, IsHash), mode, strict, depth)
    [] w.ok /\ x.t = "tag" /\ x.n \notin ReservedTag ->
         Retagged(x.n, RestoreValue(w, x.x, mode, strict, depth + 1))
    [] w.ok /\ x.t \in {"atom", "bytes"} -> [w |-> w, val |-> x]
    [] OTHER -> [w |-> Fail(w), val |-> x]

RestoreEntered(w, x, mode, strict, depth) ==
  CASE ~ w.ok -> [w |-> w, val |-> x]
    [] w.ok /\ x.t = "map" -> RestoreMap(w, x.e, mode, strict, depth)
    [] w.ok /\ x.t = "array" -> RestoreArray(w, x.i, mode, strict, depth)
    [] w.ok /\ x.t = "tag" /\ x.n \notin ReservedTag ->
         Retagged(x.n, RestoreValue(w, x.x, mode, strict, depth + 1))
    [] w.ok /\ x.t \in {"atom", "bytes"} -> [w |-> w, val |-> x]
    [] OTHER -> [w |-> Fail(w), val |-> x]

RestoreValue(w, x, mode, strict, depth) ==
  RestoreEntered(Enter(w, depth), x, mode, strict, depth)

-----------------------------------------------------------------------------
(* claim_values_match: unmatched digests hide values or decoys, so they    *)
(* are no evidence of a difference.                                        *)
ShownEntries(entries) == {en \in ToSet(entries) : en.key.mark # "59"}

\* Faulty variant: any map may be hiding the entries it lacks.
HasHidden_Always(entries) == TRUE

HasHidden(entries) == \E en \in ToSet(entries) : en.key.mark = "59"

(* The items of an array before its first hidden one.                      *)
KnownPrefix(items) ==
  LET hidden == {i \in DOMAIN items : IsHash(items[i])}
  IN IF hidden = {} THEN items
     ELSE SubSeq(items, 1, (CHOOSE i \in hidden :
                              \A j \in hidden : i <= j) - 1)
Known(items) == SelectSeq(items, LAMBDA x : ~ IsHash(x))

RECURSIVE ClaimValuesMatch(_, _)

(* Position by position, as far as the shorter one goes.                   *)
ZipMatch(left, right) ==
  \A i \in DOMAIN left \cap DOMAIN right :
    ClaimValuesMatch(left[i], right[i])

MapsMatch(left, right) ==
  LET Names(es) == {en.key : en \in ShownEntries(es)}
  IN /\ \A l \in ShownEntries(left), r \in ShownEntries(right) :
          l.key = r.key => ClaimValuesMatch(l.val, r.val)
     /\ Names(left) \subseteq Names(right) \/ HasHidden(right)
     /\ Names(right) \subseteq Names(left) \/ HasHidden(left)

ArraysMatch(left, right) ==
  /\ Len(Known(left)) <= Len(right) /\ Len(Known(right)) <= Len(left)
  /\ ZipMatch(KnownPrefix(left), KnownPrefix(right))
  /\ ZipMatch(KnownPrefix(Reverse(left)), KnownPrefix(Reverse(right)))

ClaimValuesMatch(left, right) ==
  CASE left.t = "map" /\ right.t = "map" -> MapsMatch(left.e, right.e)
    [] left.t = "array" /\ right.t = "array" -> ArraysMatch(left.i, right.i)
    [] left.t = "tag" /\ right.t = "tag" /\ left.n = right.n ->
         ClaimValuesMatch(left.x, right.x)
    [] OTHER -> left = right

(* validate_matching_claims, over two restored root maps.                  *)
MatchingClaims(payload, protected) ==
  \A p \in ShownEntries(payload.e), q \in ShownEntries(protected.e) :
    p.key = q.key => ClaimValuesMatch(p.val, q.val)

(* remove_undisclosed_redactions                                           *)
RECURSIVE RemoveUndisclosed(_)
RemoveUndisclosed(x) ==
  CASE x.t = "map" ->
         Map(FoldLeft(LAMBDA out, en :
                        IF en.key.mark = "59" THEN out
                        ELSE Append(out, Entry(en.key,
                                               RemoveUndisclosed(en.val))),
                      << >>, x.e))
    [] x.t = "array" ->
         Array(FoldLeft(LAMBDA out, y : Append(out, RemoveUndisclosed(y)),
                        << >>, Known(x.i)))
    [] x.t = "tag" -> Tag(x.n, RemoveUndisclosed(x.x))
    [] OTHER -> x

-----------------------------------------------------------------------------
(* restore_with_protected_claims: protected is None or the claims of the   *)
(* CWT_Claims header, restored first.  Digests that stayed hidden are only *)
(* removed once both maps have been compared.                              *)
Refused == [ok |-> FALSE]
Clean(x, strict) == IF strict /\ x # None THEN RemoveUndisclosed(x) ELSE x
Report(x, protected, strict, w) ==
  [ok |-> TRUE, value |-> Clean(x, strict),
   protected_claims |-> Clean(protected, strict),
   disclosed |-> w.disclosed, decoys |-> w.decoys, removed |-> w.removed]

\* Faulty variant: disclosures that answered no digest are ignored.
RestoredBoth_IgnoresOrphans(r, protected, strict) ==
  IF r.w.ok /\ (strict /\ protected # None => MatchingClaims(r.val, protected))
  THEN Report(r.val, protected, strict, r.w) ELSE Refused

\* Faulty variant: hidden digests are removed before the maps are compared.
RestoredBoth_CleansFirst(r, protected, strict) ==
  IF /\ r.w.ok /\ r.w.pending = {}
     /\ strict /\ protected # None =>
          MatchingClaims(Clean(r.val, TRUE), Clean(protected, TRUE))
  THEN Report(r.val, protected, strict, r.w) ELSE Refused

RestoredBoth(r, protected, strict) ==
  IF /\ r.w.ok /\ r.w.pending = {}
     /\ strict /\ protected # None => MatchingClaims(r.val, protected)
  THEN Report(r.val, protected, strict, r.w) ELSE Refused

RestoreAfter(p, x, mode, strict) ==
  RestoredBoth(RestoreValue(p.w, x, mode, strict, 0), p.val, strict)

Restore(x, protected, shown, mode, strict) ==
  RestoreAfter(
    IF protected = None THEN [w |-> DisclosureMap(shown), val |-> None]
    ELSE RestoreValue(DisclosureMap(shown), protected, mode, strict, 0),
    x, mode, strict)
=============================================================================
