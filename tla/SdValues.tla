------------------------------ MODULE SdValues ------------------------------
(***************************************************************************)
(* The CBOR values of SD-CWT claims and the work both passes over them     *)
(* share (src/sd-cwt/src/lib.rs, disclosure.rs, validation.rs).            *)
(*                                                                         *)
(* A value is a tree of records told apart by their field t.  Only what    *)
(* the code branches on is kept: atoms are opaque, a byte string is a      *)
(* digest, and the hash is ideal, so that a digest is the disclosure it    *)
(* was taken of.  A map key is a label or one of the marks of the format:  *)
(* "58" redact this entry, "62" put a decoy here, "59" the digests of the  *)
(* entries redacted from this map.                                         *)
(*                                                                         *)
(* A "work" record threads through a pass what the code keeps in mutable   *)
(* references.  Its field ok latches the first error: the code stops there *)
(* and drops everything else.                                              *)
(***************************************************************************)
EXTENDS Naturals, Sequences, SequencesExt

CONSTANTS
  None,            \* Rust's Option::None
  MaxDepth,        \* ProcessingLimits::max_depth
  MaxItems,        \* ProcessingLimits::max_items
  MaxEntries,      \* ProcessingLimits::max_container_entries
  MaxDisclosures   \* ProcessingLimits::max_disclosures

Atom(a) == [t |-> "atom", v |-> a]
Map(entries) == [t |-> "map", e |-> entries]
Array(items) == [t |-> "array", i |-> items]
Tag(n, x) == [t |-> "tag", n |-> n, x |-> x]
Bytes(d) == [t |-> "bytes", d |-> d]
Simple59 == [t |-> "simple59"]
Null == Atom("null")

Key(mark, name) == [mark |-> mark, name |-> name]
Label(name) == Key("label", name)
RedactedKeys == Key("59", "")
Entry(key, x) == [key |-> key, val |-> x]
RedactedEntry(hashes) ==
  IF hashes = << >> THEN << >> ELSE <<Entry(RedactedKeys, Array(hashes))>>

(* Tags that may only stand for an array element (58, 60, 62).             *)
ReservedTag == {"58", "60", "62"}
IsHash(x) == x.t = "tag" /\ x.n = "60"

(* Claims that must stay in the clear at the root (iss, exp, cnf, ...).    *)
NeverRedacted == {"iss", "cnf"}

\* Faulty variant: any claim may be hidden.
MayBeRedacted_Always(name, depth) == TRUE

(* validate_root_disclosure_key                                            *)
MayBeRedacted(name, depth) == depth = 0 => name \notin NeverRedacted

(* A Salted Disclosed Claim; key is None and val is Null when it has none. *)
Disclosure(kind, salt, key, x) ==
  [kind |-> kind, salt |-> salt, key |-> key, val |-> x]

-----------------------------------------------------------------------------
(* TraversalBudget.                                                        *)
Require(w, condition) == [w EXCEPT !.ok = @ /\ condition]
Fail(w) == Require(w, FALSE)

Consume(w, n) == [w EXCEPT !.visited = @ + n,
                           !.ok = @ /\ w.visited + n <= MaxItems]
Enter(w, depth) == Consume(Require(w, depth <= MaxDepth), 1)
Container(w, n) == Require(w, n <= MaxEntries)

(* The result of a pass over what a tag holds, tagged again.               *)
Retagged(n, r) == [r EXCEPT !.val = Tag(n, @)]

-----------------------------------------------------------------------------
(* value_item_count                                                        *)
RECURSIVE ItemsIn(_)
ItemsIn(x) ==
  CASE x.t = "map" ->
         FoldLeft(LAMBDA n, en : n + 1 + ItemsIn(en.val), 1, x.e)
    [] x.t = "array" -> FoldLeft(LAMBDA n, y : n + ItemsIn(y), 1, x.i)
    [] x.t = "tag" -> 1 + ItemsIn(x.x)
    [] OTHER -> 1

(* The array a disclosure is encoded as, and Disclosure::item_count.       *)
Encoded(d) ==
  Array(CASE d.kind = "decoy" -> <<Atom("salt")>>
          [] d.kind = "element" -> <<Atom("salt"), d.val>>
          [] d.kind = "claim" -> <<Atom("salt"), d.val, Atom(d.key)>>)
ItemCount(d) == ItemsIn(Encoded(d))

(* What the strict CBOR parser has checked before a value is decoded:      *)
(* depth, number of items, and no key twice in a map.                      *)
RECURSIVE Nesting(_), KeysOnce(_)
Nesting(x) ==
  LET Within(values) == Max({0} \cup {1 + Nesting(y) : y \in values})
  IN CASE x.t = "map" -> Within({en.val : en \in ToSet(x.e)})
       [] x.t = "array" -> Within(ToSet(x.i))
       [] x.t = "tag" -> Within({x.x})
       [] OTHER -> 0

KeysOnce(x) ==
  CASE x.t = "map" ->
         /\ \A i, j \in DOMAIN x.e : x.e[i].key = x.e[j].key => i = j
         /\ \A en \in ToSet(x.e) : KeysOnce(en.val)
    [] x.t = "array" -> \A y \in ToSet(x.i) : KeysOnce(y)
    [] x.t = "tag" -> KeysOnce(x.x)
    [] OTHER -> TRUE

ValidateCbor(x, maxItems) ==
  Nesting(x) <= MaxDepth /\ ItemsIn(x) <= maxItems /\ KeysOnce(x)

(* validate_issued_value                                                   *)
RECURSIVE ValidateIssued(_, _, _)
ValidateDigests(w, hashes, depth) ==
  FoldLeft(LAMBDA u, h : Require(Enter(u, depth + 2), h.t = "bytes"),
           Container(Enter(w, depth + 1), Len(hashes)), hashes)

ValidateEntry(w, en, depth) ==
  CASE en.key.mark = "59" /\ en.val.t = "array" ->
         ValidateDigests(w, en.val.i, depth)
    [] en.key.mark = "label" -> ValidateIssued(w, en.val, depth + 1)
    [] OTHER -> Fail(w)

ValidateItem(w, y, depth) ==
  IF IsHash(y)
  THEN Require(Enter(Enter(w, depth + 1), depth + 2), y.x.t = "bytes")
  ELSE ValidateIssued(w, y, depth + 1)

ValidateEntered(w, x, depth) ==
  CASE x.t = "map" ->
         FoldLeft(LAMBDA u, en : ValidateEntry(Enter(u, depth + 1), en, depth),
                  Require(Container(w, Len(x.e)), KeysOnce(x)), x.e)
    [] x.t = "array" ->
         FoldLeft(LAMBDA u, y : ValidateItem(u, y, depth),
                  Container(w, Len(x.i)), x.i)
    [] x.t = "tag" /\ x.n \notin ReservedTag ->
         ValidateIssued(w, x.x, depth + 1)
    [] x.t = "simple59" \/ x.t = "tag" -> Fail(w)
    [] OTHER -> w

ValidateIssued(w, x, depth) == ValidateEntered(Enter(w, depth), x, depth)

(* validate_disclosure_value, with "left" items still allowed.             *)
DisclosureOk(d, left) ==
  d.kind = "decoy" \/
  ValidateIssued(Consume([ok |-> TRUE, visited |-> MaxItems - left],
                         IF d.kind = "claim" THEN 3 ELSE 2), d.val, 0).ok
=============================================================================
