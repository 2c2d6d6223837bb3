---------------------------- MODULE ParseAnswer ----------------------------
(***************************************************************************)
(* What the functions of src/src/strict.rs make of a parse: the tags they  *)
(* look through and the shapes they ask for, and what is promised of the   *)
(* item a message decoder is handed.                                       *)
(***************************************************************************)
EXTENDS ParseState

(* What each function makes of the root.                                   *)
IsTag(item, tags) == item.head.k = "tag" /\ item.head.n \in tags
Peel(item, tags) == IF IsTag(item, tags) THEN item.kids[1] ELSE item
BytesOrNull(item) ==
  item.head.k = "bytes" \/ (item.head.k = "simple" /\ item.head.n = Null)
Kinds(item, kinds) ==
  \A i \in DOMAIN kinds : item.kids[i].head.k = kinds[i]

(* validate_recipient_shape, validate_recipients: the recipients inside    *)
(* those of the item, level by level.                                      *)
RecipientsShape(item) ==
  LET Depth == item.end - item.start
      Inner[k \in 0 .. Depth] ==
        IF k = 0 THEN {item}
        ELSE UNION {{x.kids[i].kids[4] : i \in {j \in DOMAIN x.kids :
                                                  Len(x.kids[j].kids) = 4}}
                    : x \in Inner[k - 1]}
  IN \A x \in UNION {Inner[k] : k \in 0 .. Depth} :
       /\ x.head.k = "array" /\ x.kids # << >>
       /\ \A i \in DOMAIN x.kids :
            LET r == x.kids[i] IN
              /\ r.head.k = "array" /\ Len(r.kids) \in 3 .. 4
              /\ Kinds(r, <<"bytes", "map">>) /\ BytesOrNull(r.kids[3])

SignaturesShape(item) ==
  /\ item.head.k = "array" /\ item.kids # << >>
  /\ \A i \in DOMAIN item.kids :
       LET s == item.kids[i] IN
         /\ s.head.k = "array" /\ Len(s.kids) = 3
         /\ Kinds(s, <<"bytes", "map", "bytes">>)

MessageTags == {16, 17, 18, 96, 97, 98}

(* validate_message_shape                                                  *)
MessageShape(item, tag) ==
  /\ item.head.k = "array"
  /\ Len(item.kids) = CASE tag = 16 -> 3 [] tag = 97 -> 5 [] OTHER -> 4
  /\ Kinds(item, <<"bytes", "map">>)
  /\ BytesOrNull(item.kids[3])
  /\ tag \in {17, 18, 97} => item.kids[4].head.k = "bytes"
  /\ tag = 96 => RecipientsShape(item.kids[4])
  /\ tag = 97 => RecipientsShape(item.kids[5])
  /\ tag = 98 => SignaturesShape(item.kids[4])

\* Faulty variant: takes any message tag for the expected one.
MessageItem_AnyTag(item, tag) ==
  LET inner == Peel(Peel(item, {55799}), {61})
  IN [ok |-> MessageShape(Peel(inner, MessageTags), tag),
      item |-> Peel(inner, MessageTags)]

(* message_body: the self-described tag, the CWT tag, the message's tag.   *)
MessageItem(item, tag) ==
  LET plain == Peel(item, {55799})
      inner == Peel(plain, {61})
  IN [ok |-> /\ inner.head.k = "tag" => inner.head.n = tag
             /\ IsTag(plain, {61}) => IsTag(inner, {tag})
             /\ MessageShape(Peel(inner, {tag}), tag),
      item |-> Peel(inner, {tag})]

(* tagged_body, for which another wrapper than 55799 is not looked through *)
TaggedItem(item, tag) ==
  LET plain == Peel(item, {55799})
  IN [ok |-> IsTag(plain, {tag}), item |-> Peel(plain, {tag})]

(* remove_known_tags                                                       *)
UntaggedItem(item) ==
  [ok |-> TRUE, item |-> Peel(Peel(Peel(item, {55799}), {61}), MessageTags)]

(* The answer to the call: for a peeling function the item it hands out.   *)
(* decode_bytes joins the chunks, which are all definite by now.           *)
Answer(item) ==
  CASE call.op = "body" -> MessageItem(item, call.tag)
    [] call.op = "tagged" -> TaggedItem(item, call.tag)
    [] call.op = "untag" -> UntaggedItem(item)
    [] call.op \in {"array", "members"} ->
         [ok |-> item.head.k = "array", item |-> item]
    [] call.op = "map" -> [ok |-> item.head.k = "map", item |-> item]
    [] call.op = "bytes" -> [ok |-> item.head.k = "bytes", item |-> item]
    [] call.op = "optional" -> [ok |-> BytesOrNull(item), item |-> item]
    [] OTHER -> [ok |-> TRUE, item |-> item]

-----------------------------------------------------------------------------
(* A message is decoded from any of the wrappings a sender may put around  *)
(* it and from no other: its own tag, alone or under a CWT tag, the self-  *)
(* described tag outside of either; what is handed out is the array inside,*)
(* byte for byte, and the same that removing the known tags leaves; and no *)
(* two decoders take the same tagged bytes (strict.rs:388-424, 548-577).   *)
Tag(n) == <<Lead("tag", n)>>
Wrapping(tag) ==
  {self \o inner : self \in {<< >>, Tag(55799)},
                   inner \in {<< >>, Tag(tag), Tag(61) \o Tag(tag)}}
Inside(item) == CHOOSE i \in item.start .. item.end - 1 :
                  /\ data[i].k # "tag"
                  /\ \A j \in item.start .. i - 1 : data[j].k = "tag"
HandsOutWhatWasWrapped ==
  Done /\ call.op = "body" =>
    IF ~ IsValid(data) THEN result = "Err"
    ELSE LET out == Answer(root[1]).item
             tags == [i \in 1 .. Inside(root[1]) - 1 |-> Lead("tag", data[i].n)]
         IN /\ result = "Ok" =>
                 /\ tags \in Wrapping(call.tag)
                 /\ out.start = Inside(root[1]) /\ out.end = Len(data) + 1
                 /\ UntaggedItem(root[1]).item = out
                 /\ Tag(call.tag)[1] \in {tags[i] : i \in DOMAIN tags} =>
                      \A tag \in MessageTags \ {call.tag} :
                        ~ MessageItem(root[1], tag).ok
            /\ tags \in Wrapping(call.tag) /\ MessageShape(out, call.tag)
                 => result = "Ok"
=============================================================================
