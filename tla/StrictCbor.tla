----------------------------- MODULE StrictCbor -----------------------------
(***************************************************************************)
(* The strict CBOR parser (src/src/strict.rs): one validation call, from   *)
(* the first byte to the answer the caller gets.                           *)
(*                                                                         *)
(* Parser::parse calls itself for every member; its activations are the    *)
(* stack of frames here, outermost first, and each step is what happens    *)
(* between one look at the data and the next.  So the states between two   *)
(* steps are the moments at which a limit must already hold.  The state is *)
(* declared in ParseState, the answer is in ParseAnswer.                   *)
(***************************************************************************)
EXTENDS ParseAnswer

CONSTANTS
  Cases,          \* the calls checked: a function, the tag it expects, the data
  LimitChoices,   \* the limits a caller may ask for
  DefaultLimits   \* CborLimits::default

ASSUME CborConstants ==
  /\ LimitChoices \cup {DefaultLimits}
       \subseteq [max_depth : Nat, max_items : Nat, require_definite : BOOLEAN]
  /\ Open \notin Nat
  /\ \A c \in Cases : /\ c.data \in Seq({c.data[i] : i \in DOMAIN c.data})
                      /\ \A i \in DOMAIN c.data : IsHead(c.data[i])
                      /\ c.call.op = "body" => c.call.tag \in MessageTags

input == <<data, call, limits>>
vars == <<data, call, limits, pos, items, stack, root, result>>

(* Only the message decoder and the public validation take limits.         *)
TakesLimits == {"validate", "body"}

-----------------------------------------------------------------------------
(* Items and frames.  A frame knows how many members are missing (Open for *)
(* an indefinite length), the members it keeps, and for a map how many it  *)
(* has read and the canonical keys among them.                             *)
Item(h, kids, start, end) ==
  [head |-> h, kids |-> kids, start |-> start, end |-> end]
Frame(h) ==
  [head |-> h, start |-> pos, left |-> Members(h), kids |-> << >>, read |-> 0,
   keys |-> {}]

Top == stack[Len(stack)]
AtBreak == pos <= Len(data) /\ data[pos] = Break
KeyNext(f) == f.head.k = "map" /\ f.read % 2 = 0
OwesValue(f) == f.head.k = "map" /\ f.read % 2 = 1
IsFull(f) == f.left = 0

(* The activation on top is due to read a member, or the root is.          *)
MemberDue ==
  IF stack = << >> THEN root = << >>
  ELSE ~ IsFull(Top) /\ ~ (Top.left = Open /\ AtBreak)

\* Faulty variant: compares the bytes of integers whatever the form of their head.
CanonicalKey_InPlace(item) ==
  IF ~ Opens(item.head)
  THEN IF item.head.k \in Strings
       THEN <<item.head.k, <<item.head.n>>, item.head.wide>>
       ELSE <<item.head.k, item.head.n, item.head.wide>>
  ELSE (CHOOSE x \in ItemAt(data, item.start) : TRUE).val

(* Integers and definite strings with a preferred head are compared as     *)
(* they are, every other key is decoded and encoded anew.                  *)
CanonicalKey(item) ==
  IF ~ Opens(item.head) /\ item.head.k \in {"uint", "nint", "bytes", "text"}
     /\ ~ item.head.wide
  THEN IF item.head.k \in Strings THEN <<item.head.k, <<item.head.n>>>>
                                  ELSE <<item.head.k, item.head.n>>
  ELSE (CHOOSE x \in ItemAt(data, item.start) : TRUE).val

(* Whether a frame takes a complete member.                                *)
Takes(f, item) ==
  /\ f.head.k \in Strings => item.head.k = f.head.k /\ ~ Opens(item.head)
  /\ KeyNext(f) /\ RejectsDuplicates => CanonicalKey(item) \notin f.keys

AddTo(f, item) ==
  [f EXCEPT !.left = IF @ = Open THEN Open ELSE @ - 1,
            !.read = @ + 1,
            !.kids = IF f.head.k = "map" THEN @ ELSE Append(@, item),
            !.keys = IF KeyNext(f) /\ RejectsDuplicates
                     THEN @ \cup {CanonicalKey(item)} ELSE @]

(* A complete item goes to the activation below, or is the root.           *)
Deliver(item, below) ==
  IF below = << >>
  THEN stack' = below /\ root' = <<item>> /\ result' = result
  ELSE LET n == Len(below) IN
    /\ stack' = [below EXCEPT ![n] = AddTo(@, item)]
    /\ root' = root
    /\ result' = IF Takes(below[n], item) THEN result ELSE "Err"

-----------------------------------------------------------------------------
Init ==
  /\ \E c \in Cases : data = c.data /\ call = c.call
  /\ limits \in IF call.op \in TakesLimits THEN LimitChoices
                                           ELSE {DefaultLimits}
  /\ pos = 1
  /\ items = 0
  /\ stack = << >>
  /\ root = << >>
  /\ result = "Running"

Fail ==
  /\ result' = "Err"
  /\ UNCHANGED <<input, pos, items, stack, root>>

\* Faulty variant: the nesting is not looked at.
HeadAllowed_AnyDepth ==
  /\ items < limits.max_items
  /\ pos <= Len(data)
  /\ data[pos].k \notin {"break", "reserved"}
  /\ limits.require_definite => data[pos].n # Open

(* Parser::parse is entered: the depth, then the number of items, then the *)
(* head itself.                                                            *)
HeadAllowed ==
  /\ Len(stack) <= limits.max_depth
  /\ items < limits.max_items
  /\ pos <= Len(data)
  /\ data[pos].k \notin {"break", "reserved"}
  /\ limits.require_definite => data[pos].n # Open

ReadHead ==
  /\ result = "Running"
  /\ MemberDue
  /\ HeadAllowed
  /\ pos' = pos + 1
  /\ items' = items + 1
  /\ IF Opens(data[pos])
     THEN stack' = Append(stack, Frame(data[pos])) /\ UNCHANGED <<root, result>>
     ELSE Deliver(Item(data[pos], << >>, pos, pos + 1), stack)
  /\ UNCHANGED input

RefuseHead == result = "Running" /\ MemberDue /\ ~ HeadAllowed /\ Fail

\* Faulty variant: leaves the stop code unread.
ReadBreak_Stays ==
  /\ result = "Running"
  /\ stack # << >> /\ Top.left = Open /\ AtBreak
  /\ UNCHANGED vars

(* The stop code ends an indefinite length, but never between a key and    *)
(* its value.                                                              *)
ReadBreak ==
  /\ result = "Running"
  /\ stack # << >> /\ Top.left = Open /\ AtBreak
  /\ ~ OwesValue(Top)
  /\ pos' = pos + 1
  /\ Deliver(Item(Top.head, Top.kids, Top.start, pos + 1),
             SubSeq(stack, 1, Len(stack) - 1))
  /\ UNCHANGED <<input, items>>

RefuseBreak ==
  /\ result = "Running"
  /\ stack # << >> /\ Top.left = Open /\ AtBreak /\ OwesValue(Top)
  /\ Fail

(* A counted container has all its members.                                *)
CloseCounted ==
  /\ result = "Running"
  /\ stack # << >> /\ IsFull(Top)
  /\ Deliver(Item(Top.head, Top.kids, Top.start, pos),
             SubSeq(stack, 1, Len(stack) - 1))
  /\ UNCHANGED <<input, pos, items>>

(* The caller gets what its function makes of the root, if nothing follows *)
(* the root.                                                               *)
Return ==
  /\ result = "Running" /\ root # << >>
  /\ result' = IF pos = Len(data) + 1 /\ Answer(root[1]).ok THEN "Ok" ELSE "Err"
  /\ UNCHANGED <<input, pos, items, stack, root>>

Next ==
  ReadHead \/ RefuseHead \/ ReadBreak \/ RefuseBreak \/ CloseCounted \/ Return

(* The call runs in its caller's thread and nothing suspends it.           *)
Spec == Init /\ [][Next]_vars /\ WF_vars(Next)

-----------------------------------------------------------------------------
(* Every call comes to an answer: no input makes the parser wait for a     *)
(* stop code or a member for ever (strict.rs:170-222).                     *)
EveryParseEnds == <>Done
=============================================================================
