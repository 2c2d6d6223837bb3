---------------------------- MODULE CborGrammar ----------------------------
(***************************************************************************)
(* What a CBOR data item is, by the grammar of RFC 8949: the reference the *)
(* parser of StrictCbor is compared with, and what the external decoder    *)
(* cbor2 reads in the same bytes.                                          *)
(*                                                                         *)
(* Data is a sequence of heads.  A head is a major type with its argument; *)
(* a string keeps its content in its head, so what the data tells apart is *)
(* where an item starts and ends and which item it is.                     *)
(***************************************************************************)
EXTENDS Naturals, Sequences, FiniteSets

CONSTANTS
  Open,   \* the argument of an indefinite-length head
  Null    \* the simple value 22

Scalar == {"uint", "nint", "simple", "float"}
Strings == {"bytes", "text"}
Containers == {"array", "map", "tag"}

(* k: the kind of item; n: its value, content, length or tag number;       *)
(* wide: the argument is longer than it need be.                           *)
Lead(k, n) == [k |-> k, n |-> n, wide |-> FALSE]
Break == Lead("break", 0)     \* the stop code 0xff
Reserved == Lead("reserved", 0) \* reserved or cut-off argument, or a string
                              \* cut off by the end of the data

(* How many items a head calls for.                                        *)
Members(h) ==
  CASE h.k = "array" -> h.n
    [] h.k = "map" -> IF h.n = Open THEN Open ELSE 2 * h.n
    [] h.k = "tag" -> 1
    [] h.k \in Strings -> h.n      \* only asked of an open string

(* What a head can be: only some have a length, which may be left open.    *)
IsHead(h) ==
  /\ h.k = "break" => h = Break
  /\ h.k \in {"array", "map"} => h.n \in Nat \cup {Open}
  /\ h.n = Open => h.k \in Strings \cup {"array", "map"}

Opens(h) == h.k \in Containers \/ (h.k \in Strings /\ h.n = Open)

(* The value of an item from the values of its members: lengths, widths    *)
(* and the order of a map's entries are gone, equal keys not.              *)
Value(h, vals) ==
  CASE h.k \in Strings -> <<h.k, [i \in DOMAIN vals |-> vals[i][2][1]]>>
    [] h.k = "map" ->
         <<"map", {<<vals[2 * i - 1], vals[2 * i]>> : i \in 1 .. Len(vals) \div 2}>>
    [] h.k = "array" -> <<"array", vals>>
    [] h.k = "tag" -> <<"tag", <<h.n, vals[1]>>>>

Repeated(seq) == \E i, j \in DOMAIN seq : i < j /\ seq[i] = seq[j]

(* The item that is one head alone, and the one a head makes of the members *)
(* r it has called for: where it ends, what it means, how high it is, and   *)
(* whether some map in it has a key twice.                                  *)
Alone(h, j) ==
  [end |-> j + 1, height |-> 0, repeats |-> FALSE,
   val |-> IF h.k \in Strings THEN <<h.k, <<h.n>>>> ELSE <<h.k, h.n>>]
Around(h, r) ==
  [end |-> r.end, height |-> r.height, val |-> Value(h, r.vals),
   repeats |-> \/ r.repeats
               \/ h.k = "map" /\ Repeated([k \in 1 .. Len(r.vals) \div 2 |->
                                              r.vals[2 * k - 1]])]

(* What a head may have for members: a string in chunks only definite      *)
(* strings of its kind, and a map no key without a value.                  *)
Fits(d, h, r) ==
  /\ h.k \in Strings => \A c \in r.heads : d[c].k = h.k /\ d[c].n # Open
  /\ h.k = "map" => Len(r.vals) % 2 = 0

(* No members, at position j; and a member x from j on, then the others.   *)
NoMembers(j) ==
  [end |-> j, vals |-> << >>, height |-> 0, repeats |-> FALSE, heads |-> {}]
Followed(j, x, r) ==
  [end |-> r.end, vals |-> <<x.val>> \o r.vals,
   height |-> IF x.height >= r.height THEN x.height + 1 ELSE r.height,
   repeats |-> x.repeats \/ r.repeats, heads |-> {j} \cup r.heads]

(* The item that starts at j, and m items from there on, or as many as     *)
(* there are before a break, once Items tells the same of later positions. *)
(* There is at most one.                                                   *)
Here(d, Items, j) ==
  IF j > Len(d) \/ d[j].k \in {"break", "reserved"} THEN {}
  ELSE IF ~ Opens(d[j]) THEN {Alone(d[j], j)}
  ELSE {Around(d[j], r) : r \in {s \in Items[<<j + 1, Members(d[j])>>] :
                                          Fits(d, d[j], s)}}
Rest(d, Items, j, m) ==
  IF m = 0 THEN {NoMembers(j)}
  ELSE IF m = Open /\ j <= Len(d) /\ d[j] = Break THEN {NoMembers(j + 1)}
  ELSE UNION {{Followed(j, x, r) :
                 r \in Items[<<x.end, IF m = Open THEN Open ELSE m - 1>>]}
              : x \in Here(d, Items, j)}
ItemsOf(d) ==
  LET Items[at \in (1 .. Len(d) + 1) \X (Nat \cup {Open})] ==
        Rest(d, Items, at[1], at[2])
  IN Items
ItemAt(d, i) == Here(d, ItemsOf(d), i)

(* Whole data: one item and nothing after it.                              *)
WholeItem(d) == {x \in ItemAt(d, 1) : x.end = Len(d) + 1}
ItemCount(d) == Cardinality({i \in DOMAIN d : d[i] # Break})
Definite(d) == \A i \in DOMAIN d : d[i].n # Open
=============================================================================
