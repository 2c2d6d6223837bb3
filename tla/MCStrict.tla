------------------------------ MODULE MCStrict ------------------------------
(* Instances of StrictCbor for TLC: all short data over a small alphabet   *)
(* of heads, and whole messages in all wrappings with one head changed.    *)
EXTENDS StrictCbor, SequencesExt

CONSTANT b   \* the content of the strings

Uint == Lead("uint", 1)
WideUint == [Uint EXCEPT !.wide = TRUE]
Bstr == Lead("bytes", b)
WideBstr == [Bstr EXCEPT !.wide = TRUE]
Tstr == Lead("text", b)
Nil == Lead("simple", Null)
Array(n) == Lead("array", n)
Map(n) == Lead("map", n)
Chunked == Lead("bytes", Open)

Alphabet ==
  {Uint, Bstr, Tstr, Chunked, Array(0), Array(1), Array(2), Array(Open), Map(1),
   Map(Open), Lead("tag", 61), Break, Reserved}
KeyAlphabet == {Uint, WideUint, Array(1), Map(2), Map(Open), Break}
ChunkAlphabet == {Chunked, Bstr, WideBstr, Map(2), Break}

(* All data of at most four heads, longer data over fewer heads, and every *)
(* map of two entries whose keys are written alike or differently.         *)
Keys ==
  {<<Uint>>, <<WideUint>>, <<Bstr>>, <<WideBstr>>, <<Chunked, WideBstr, Break>>,
   <<Array(1), Uint>>, <<Array(Open), WideUint, Break>>, <<Lead("tag", 61), Uint>>,
   <<Map(1), Uint, Nil>>, <<Map(Open), WideUint, Nil, Break>>}
TwoEntries ==
  {head \o k1 \o <<Nil>> \o k2 \o <<Nil>> : k1, k2 \in Keys,
                                      head \in {<<Map(2)>>, <<Array(1), Map(2)>>}}
ShortData ==
  BoundedSeq(Alphabet, 4) \cup BoundedSeq(KeyAlphabet, 5)
    \cup {<<Map(2)>> \o s : s \in BoundedSeq(ChunkAlphabet, 5)} \cup TwoEntries

Call(op) == [op |-> op, tag |-> 0]   \* a call that expects no tag
ShortCalls == {Call("validate"), Call("members")}
Limits(depth, n, definite) ==
  [max_depth |-> depth, max_items |-> n, require_definite |-> definite]
Generous == Limits(6, 20, FALSE)
MCLimits == {Generous, Limits(1, 4, FALSE), Limits(6, 11, TRUE)}

-----------------------------------------------------------------------------
Layer == <<Bstr, Map(0)>>
Recipient == <<Array(3)>> \o Layer \o <<Nil>>
Outer == <<Array(4)>> \o Layer \o <<Bstr, Array(1)>> \o Recipient
Encrypt0 == <<Array(3)>> \o Layer \o <<Bstr>>
Sign1 == <<Array(4)>> \o Layer \o <<Nil, Bstr>>
Encrypt == <<Array(4)>> \o Layer \o <<Bstr, Array(1)>> \o Outer
Mac == <<Array(5)>> \o Layer \o <<Bstr, Bstr, Array(1)>> \o Recipient
Sign == <<Array(4)>> \o Layer \o <<Bstr, Array(1), Array(3)>> \o Layer \o <<Bstr>>
BodyOf ==
  (16 :> Encrypt0) @@ (17 :> Sign1) @@ (18 :> Sign1) @@ (96 :> Encrypt)
    @@ (97 :> Mac) @@ (98 :> Sign)

T == {<< >>} \cup {Tag(n) : n \in {55799, 61, 16, 17, 18, 98}}
Wrapped(tag) ==
  {a \o cwt \o c \o BodyOf[tag] : a \in {<< >>, Tag(55799)}, cwt \in T,
                                c \in {<< >>, Tag(tag)}}
Messages == UNION {Wrapped(tag) : tag \in DOMAIN BodyOf}
(* One head replaced in a tagged message, or the end of it missing.        *)
Edited ==
  UNION {
    {[m EXCEPT ![i] = h] : i \in DOMAIN m,
       h \in {Uint, Bstr, Nil, Array(0), Array(Open), Map(0), Tag(55799)[1]}}
    \cup {[m EXCEPT ![i].wide = TRUE] : i \in DOMAIN m}
    \cup {SubSeq(m, 1, Len(m) - 1), Append(m, Nil)}
    : m \in {Tag(tag) \o BodyOf[tag] : tag \in DOMAIN BodyOf}}
MessageData == Messages \cup Edited

MessageCalls ==
  {[op |-> "body", tag |-> tag] : tag \in MessageTags} \cup
  {[op |-> "tagged", tag |-> 61]} \cup
  {Call(op) : op \in {"untag", "array", "map", "bytes", "optional"}}

Asked(calls, inputs) == [call : calls, data : inputs]
MCCases == Asked(ShortCalls, ShortData) \cup Asked(MessageCalls, MessageData)
=============================================================================
