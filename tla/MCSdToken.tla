----------------------------- MODULE MCSdToken -----------------------------
(* Instances of SdToken for TLC: a handful of claims trees, chosen for the *)
(* places marks can stand in and for how payload and header can differ.    *)
EXTENDS SdToken

Is(name, x) == Entry(Label(name), x)
Redact(name, x) == Entry(Key("58", name), x)
DecoyEntry(id) == Entry(Key("62", id), Null)
Hide(x) == Tag("58", x)
DecoyItem(id) == Tag("62", Atom(id))
a == Atom("a")
b == Atom("b")
c == Atom("c")

Base == <<Is("iss", Atom("issuer")), Is("cnf", Map(<< >>)),
          Is("sub", Atom("subject"))>>
Claims(payload, protected) == [payload |-> Map(payload), protected |-> protected]
Both(left, right) ==
  Claims(Append(Base, Is("x", left)), Map(<<Is("x", right)>>))

(* Decoys and redactions side by side; a redacted subject.                 *)
Flat == Claims(<<Base[1], Base[2], Redact("sub", Atom("subject")),
                 DecoyEntry("1"),
                 Is("list", Array(<<Hide(a), DecoyItem("2"), b>>))>>, None)
(* Redactions within redactions, in maps, arrays and tags.                 *)
Nested == Claims(Append(Base,
            Redact("addr", Map(<<Redact("city", a), Is("street", b),
              Is("rooms", Array(<<Hide(Array(<<Hide(c)>>))>>))>>))), None)
Tagged == Claims(Append(Base, Is("t", Tag("1", Map(<<Redact("a", a)>>)))), None)

(* Payload and protected claims that agree, and that do not.               *)
Agree ==
  {Both(Array(<<Hide(a), b>>), Array(<<a, Hide(b)>>)),
   Both(Array(<<Hide(a), b, DecoyItem("1")>>), Array(<<Hide(a), b>>)),
   Both(Map(<<Redact("k", a), Is("l", b)>>), Map(<<Is("l", b), Is("k", a)>>))}
Disagree ==
  {Both(Array(<<Hide(a), b>>), Array(<<Hide(c), b>>)),
   Both(Array(<<a, Hide(b)>>), Array(<<a>>)),
   Both(Map(<<Redact("k", a)>>), Map(<<Is("k", b)>>)),
   Both(Map(<<Redact("k", a)>>), Map(<<DecoyEntry("1")>>)),
   Both(Tag("1", Map(<<Redact("k", a)>>)), Tag("1", Map(<<Redact("k", b)>>)))}

(* Requests the issuer must not grant.                                     *)
Unissuable ==
  {Claims(<<Redact("iss", a), Base[2], Base[3]>>, None),
   Claims(Base \o <<Redact("k", a), Is("k", b)>>, None),
   Claims(Base \o <<DecoyEntry("1"),
                    Is("list", Array(<<DecoyItem("1")>>))>>, None),
   Claims(Append(Base, Is("k", Hide(a))), None),
   Claims(Append(Base, Is("k", Simple59)), None)}

MCPreIssued == {Flat, Nested, Tagged} \cup Agree \cup Disagree \cup Unissuable
(* A generator may run dry, or repeat itself within one call.              *)
MCSaltRun == {<<1, 2, 3, 4, 5, 6>>, <<1, 2>>, <<1, 2, 3, 1>>}
Stray == {Disclosure("claim", 9, "stray", a)}

(* Tokens no issuance here would make.                                     *)
Claim(salt, name, x) == Disclosure("claim", salt, name, x)
Element(salt, x) == Disclosure("element", salt, None, x)
Decoy(salt) == Disclosure("decoy", salt, None, Null)
Digests(ds) == Entry(RedactedKeys, Array([i \in DOMAIN ds |-> Bytes(ds[i])]))
Item(d) == Tag("60", Bytes(d))
Foreign(entries, protected, ds) ==
  [token |-> [payload |-> Map(entries), protected |-> protected],
   disclosures |-> ds]

k1 == Claim(1, "k", a)
k2 == Claim(2, "k", b)
e1 == Element(3, a)
ownIss == Claim(4, "iss", Atom("issuer"))
inner == Element(5, Array(<<Array(<<Array(<<Array(<<Array(<<c>>)>>)>>)>>)>>))
middle == Element(6, Array(<<Item(inner), b>>))
outer == Claim(7, "m", Array(<<Item(middle), Item(inner)>>))

MCForeignToken ==
  {Foreign(Append(Base, Digests(<<k1, k1>>)), None, <<k1>>),
   Foreign(Append(Base, Digests(<<k1, k2>>)), None, <<k1, k2>>),
   Foreign(Base \o <<Is("k", c), Digests(<<k1, Decoy(8)>>)>>, None,
           <<k1, Decoy(8)>>),
   Foreign(Base \o <<Is("list", Array(<<Item(k1), Item(Decoy(8))>>)),
                     Digests(<<e1>>)>>, None, <<k1, e1, Decoy(8)>>),
   Foreign(<<Base[2], Base[3], Digests(<<ownIss>>)>>, Map(<<Base[1]>>),
           <<ownIss>>),
   Foreign(Append(Base, Digests(<<outer>>)), None, <<outer, middle, inner>>),
   Foreign(Append(Base, Digests(<<outer, e1>>)), Map(<<Digests(<<outer>>)>>),
           <<outer, middle, inner>>)}
=============================================================================
