----------------------------- MODULE ParseState ----------------------------
(***************************************************************************)
(* The state of one call into the strict parser (src/src/strict.rs), what  *)
(* of it counts against the limits, and what is promised of the answer.    *)
(* StrictCbor says how the state changes.                                  *)
(***************************************************************************)
EXTENDS CborGrammar

VARIABLES
  data,    \* the bytes
  call,    \* which function was called
  limits,  \* the CborLimits in force
  pos,     \* Parser::pos
  items,   \* Parser::items
  stack,   \* the activations of Parser::parse that wait for a member
  root,    \* the outermost item once it is complete, as a row of one
  result   \* "Running", "Ok" or "Err"

-----------------------------------------------------------------------------
(* What a parse holds: its activations, the items below them and below the *)
(* root, and the keys it has seen in the maps that are still open.         *)
KidsOf(nodes) == UNION {{x.kids[i] : i \in DOMAIN x.kids} : x \in nodes}
Nodes(tops, depth) ==   \* the items of the trees under these, told apart
                        \* by place
  LET Level[k \in 0 .. depth] ==
        IF k = 0 THEN tops ELSE KidsOf(Level[k - 1])
  IN UNION {Level[k] : k \in 0 .. depth}
Kept == Nodes(KidsOf({stack[i] : i \in DOMAIN stack})
                \cup {root[i] : i \in DOMAIN root},
              Len(data))
KeptKeys == UNION {{<<i, k>> : k \in stack[i].keys} : i \in DOMAIN stack}
Held == Len(stack) + Cardinality(Kept) + Cardinality(KeptKeys)

(* At no moment of a parse, successful or not, does the tree under         *)
(* construction hold more levels or more items than the limits allow, nor  *)
(* more than the data read so far pays for, whatever lengths the heads     *)
(* announce (strict.rs:129-133, 113-122).                                  *)
NeverHoldsMoreThanAllowed ==
  /\ Len(stack) <= limits.max_depth + 1
  /\ Held <= items /\ items <= limits.max_items /\ items < pos

-----------------------------------------------------------------------------
RejectsDuplicates == call.op # "members"
Done == result # "Running"

(* The data is one item of the grammar within the limits in force, no map  *)
(* of which names a key twice (root, root_with_duplicate_policy).          *)
IsValid(d) ==
  /\ ItemCount(d) <= limits.max_items
  /\ limits.require_definite => Definite(d)
  /\ \E x \in WholeItem(d) : /\ x.height <= limits.max_depth
                             /\ RejectsDuplicates => ~ x.repeats

(* A call for validation alone succeeds exactly for the valid data: no     *)
(* order of heads, breaks and chunks slips past the parser, and equal keys *)
(* are found in whatever form they are written (strict.rs:129-240).        *)
AcceptsExactlyTheGrammar ==
  Done /\ call.op \in {"validate", "members"} =>
    (result = "Ok" <=> /\ IsValid(data)
                       /\ call.op = "members" => data[1].k = "array")
=============================================================================
