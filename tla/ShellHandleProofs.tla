------------------------- MODULE ShellHandleProofs --------------------------
(***************************************************************************)
(* That no shell is left behind that the caller cannot close, that a call     *)
(* that reports success did what it was asked, and that input arrives whole,  *)
(* in order and without needless copies, for every number of futures, of      *)
(* shells and commands, of retries, losses, refusals and cancellations, every *)
(* authentication and every choice of ids.                                   *)
(***************************************************************************)
EXTENDS ShellHandle, SequenceTheorems, FiniteSetTheorems, TLAPS

-----------------------------------------------------------------------------
(* An id in an answer is read as the id it was written from.                 *)

\* xml_escape of a text is read as that text.
LEMMA EscapePlain ==
    ASSUME NEW s
    PROVE  /\ WellFormed(XmlEscape(Plain(s)))
           /\ XmlRead(XmlEscape(Plain(s))) = Plain(s)
           /\ s \notin Special => XmlEscape(Plain(s)) = Plain(s)
<1>1. Plain(s).says = s /\ Plain(s).escapes = 0
  BY DEF Plain
<1>2. CASE s \notin Special
  BY <1>1, <1>2 DEF WellFormed, XmlEscape, XmlRead
<1>3. CASE s \in Special
  <2>. DEFINE y == [says |-> s, escapes |-> 1]
  <2>1. XmlEscape(Plain(s)) = y
    BY <1>1, <1>3 DEF XmlEscape, Plain
  <2>. HIDE DEF y
  <2>2. y.says = s /\ y.escapes = 1 /\ XmlRead(y) = Plain(s)
    BY <1>3 DEF y, XmlRead, Plain
  <2>. QED  BY <1>3, <2>1, <2>2 DEF WellFormed
<1>. QED  BY <1>2, <1>3

\* Ids have no character that XML reserves.
LEMMA NamesAreTexts ==
    ASSUME NEW id \in ShellNames \cup CommandNames
    PROVE  /\ id = Plain(id.says) /\ XmlEscape(id) = id /\ XmlRead(id) = id /\ WellFormed(id)
           /\ id # None
<1>1. id = Plain(id.says)
  BY DEF ShellNames, CommandNames, Named, PipelineId, Plain
<1>2. id.says \notin Special /\ id # None
  BY IdsAssumption, NoneAssumption
<1>. QED  BY <1>1, <1>2 DEF XmlEscape, XmlRead, WellFormed

\* A sequence of one.
LEMMA OneText ==
    ASSUME NEW x
    PROVE  Read(<<x>>) = <<XmlRead(x)>> /\ Read(<<x>>)[1] = XmlRead(x) /\ Len(<<x>>) = 1
           /\ <<x>> # <<>>
  BY DEF Read

\* How the parts of a document are joined.
LEMMA Join1With1 ==
    ASSUME NEW d, NEW e
    PROVE  <<d>> \o <<e>> = <<d, e>>
<1>. DEFINE S == {d, e}
<1>1. <<d>> \in Seq(S) /\ <<e>> \in Seq(S) /\ <<d, e>> \in Seq(S)
  OBVIOUS
<1>. HIDE DEF S
<1>2. /\ Len(<<d>> \o <<e>>) = 2
      /\ \A i \in 1 .. 2 : (<<d>> \o <<e>>)[i] = <<d, e>>[i]
  BY <1>1, ConcatProperties
<1>. QED  BY <1>1, <1>2, SeqEqual, ConcatProperties

LEMMA Join2With1 ==
    ASSUME NEW d, NEW e, NEW f
    PROVE  <<d, e>> \o <<f>> = <<d, e, f>>
<1>. DEFINE S == {d, e, f}
<1>1. <<d, e>> \in Seq(S) /\ <<f>> \in Seq(S) /\ <<d, e, f>> \in Seq(S)
  OBVIOUS
<1>. HIDE DEF S
<1>2. /\ Len(<<d, e>> \o <<f>>) = 3
      /\ \A i \in 1 .. 3 : (<<d, e>> \o <<f>>)[i] = <<d, e, f>>[i]
  BY <1>1, ConcatProperties
<1>. QED  BY <1>1, <1>2, SeqEqual, ConcatProperties

LEMMA Join1With3 ==
    ASSUME NEW c, NEW d, NEW e, NEW f
    PROVE  <<c>> \o <<d, e, f>> = <<c, d, e, f>>
<1>. DEFINE S == {c, d, e, f}
<1>1. <<c>> \in Seq(S) /\ <<d, e, f>> \in Seq(S) /\ <<c, d, e, f>> \in Seq(S)
  OBVIOUS
<1>. HIDE DEF S
<1>2. /\ Len(<<c>> \o <<d, e, f>>) = 4
      /\ \A i \in 1 .. 4 : (<<c>> \o <<d, e, f>>)[i] = <<c, d, e, f>>[i]
  BY <1>1, ConcatProperties
<1>. QED  BY <1>1, <1>2, SeqEqual, ConcatProperties

LEMMA Join4With1 ==
    ASSUME NEW c, NEW d, NEW e, NEW f, NEW g
    PROVE  <<c, d, e, f>> \o <<g>> = <<c, d, e, f, g>>
<1>. DEFINE S == {c, d, e, f, g}
<1>1. <<c, d, e, f>> \in Seq(S) /\ <<g>> \in Seq(S) /\ <<c, d, e, f, g>> \in Seq(S)
  OBVIOUS
<1>. HIDE DEF S
<1>2. /\ Len(<<c, d, e, f>> \o <<g>>) = 5
      /\ \A i \in 1 .. 5 : (<<c, d, e, f>> \o <<g>>)[i] = <<c, d, e, f, g>>[i]
  BY <1>1, ConcatProperties
<1>. QED  BY <1>1, <1>2, SeqEqual, ConcatProperties

LEMMA Join2With5 ==
    ASSUME NEW a, NEW b, NEW c, NEW d, NEW e, NEW f, NEW g
    PROVE  <<a, b>> \o <<c, d, e, f, g>> = <<a, b, c, d, e, f, g>>
<1>. DEFINE S == {a, b, c, d, e, f, g}
<1>1. <<a, b>> \in Seq(S) /\ <<c, d, e, f, g>> \in Seq(S) /\ <<a, b, c, d, e, f, g>> \in Seq(S)
  OBVIOUS
<1>. HIDE DEF S
<1>2. /\ Len(<<a, b>> \o <<c, d, e, f, g>>) = 7
      /\ \A i \in 1 .. 7 : (<<a, b>> \o <<c, d, e, f, g>>)[i] = <<a, b, c, d, e, f, g>>[i]
  BY <1>1, ConcatProperties
<1>. QED  BY <1>1, <1>2, SeqEqual, ConcatProperties

LEMMA Join7With2 ==
    ASSUME NEW a, NEW b, NEW c, NEW d, NEW e, NEW f, NEW g, NEW h, NEW k
    PROVE  <<a, b, c, d, e, f, g>> \o <<h, k>> = <<a, b, c, d, e, f, g, h, k>>
<1>. DEFINE S == {a, b, c, d, e, f, g, h, k}
<1>1. <<a, b, c, d, e, f, g>> \in Seq(S) /\ <<h, k>> \in Seq(S) /\ <<a, b, c, d, e, f, g, h, k>> \in Seq(S)
  OBVIOUS
<1>. HIDE DEF S
<1>2. /\ Len(<<a, b, c, d, e, f, g>> \o <<h, k>>) = 9
      /\ \A i \in 1 .. 9 : (<<a, b, c, d, e, f, g>> \o <<h, k>>)[i] = <<a, b, c, d, e, f, g, h, k>>[i]
  BY <1>1, ConcatProperties
<1>. QED  BY <1>1, <1>2, SeqEqual, ConcatProperties

LEMMA FifthOfNine ==
    ASSUME NEW a, NEW b, NEW c, NEW d, NEW e, NEW f, NEW g, NEW h, NEW k
    PROVE  SubSeq(<<a, b, c, d, e, f, g, h, k>>, 5, 5) = <<e>>
<1>. DEFINE S == {a, b, c, d, e, f, g, h, k}
            s == <<a, b, c, d, e, f, g, h, k>>
<1>1. s \in Seq(S) /\ Len(s) = 9 /\ s[5] = e /\ <<e>> \in Seq(S)
  OBVIOUS
<1>. HIDE DEF S, s
<1>2. SubSeq(s, 5, 5) \in Seq(S) /\ Len(SubSeq(s, 5, 5)) = 1 /\ SubSeq(s, 5, 5)[1] = e
  BY <1>1, SubSeqProperties
<1>3. \A i \in 1 .. 1 : SubSeq(s, 5, 5)[i] = <<e>>[i]
  BY <1>2
<1>4. SubSeq(s, 5, 5) = <<e>>
  BY <1>1, <1>2, <1>3, SeqEqual
<1>. QED  BY <1>4 DEF s

\* An answer that says what was made.
AnswerDoc(outer, inner, id) ==
    Response(Tagged(outer, Tagged(inner, <<Text("id", XmlEscape(id))>>)))

\* The answer that carries an id, tag by tag.
LEMMA AnswerTags ==
    ASSUME NEW outer, NEW inner, NEW id
    PROVE  AnswerDoc(outer, inner, id) =
               <<Open("s", "Envelope"), Open("s", "Body"), Open(config.prefix, outer),
                 Open(config.prefix, inner), Text("id", XmlEscape(id)), Close(config.prefix, inner),
                 Close(config.prefix, outer), Close("s", "Body"), Close("s", "Envelope")>>
<1>. DEFINE a == Open("s", "Envelope")
            b == Open("s", "Body")
            c == Open(config.prefix, outer)
            d == Open(config.prefix, inner)
            e == Text("id", XmlEscape(id))
            f == Close(config.prefix, inner)
            g == Close(config.prefix, outer)
            h == Close("s", "Body")
            k == Close("s", "Envelope")
<1>1. Tagged(inner, <<e>>) = <<d>> \o <<e>> \o <<f>>
  BY DEF Tagged, Element
<1>2. Tagged(outer, <<d, e, f>>) = <<c>> \o <<d, e, f>> \o <<g>>
  BY DEF Tagged, Element
<1>3. Response(<<c, d, e, f, g>>) = <<a, b>> \o <<c, d, e, f, g>> \o <<h, k>>
  BY DEF Response
<1>4. AnswerDoc(outer, inner, id) = Response(Tagged(outer, Tagged(inner, <<e>>)))
  BY DEF AnswerDoc
<1>. HIDE DEF a, b, c, d, e, f, g, h, k
<1>5. <<d>> \o <<e>> = <<d, e>> /\ <<d, e>> \o <<f>> = <<d, e, f>>
  BY Join1With1, Join2With1
<1>6. <<c>> \o <<d, e, f>> = <<c, d, e, f>> /\ <<c, d, e, f>> \o <<g>> = <<c, d, e, f, g>>
  BY Join1With3, Join4With1
<1>7. /\ <<a, b>> \o <<c, d, e, f, g>> = <<a, b, c, d, e, f, g>>
      /\ <<a, b, c, d, e, f, g>> \o <<h, k>> = <<a, b, c, d, e, f, g, h, k>>
  BY Join2With5, Join7With2
<1>8. AnswerDoc(outer, inner, id) = <<a, b, c, d, e, f, g, h, k>>
  BY <1>1, <1>2, <1>3, <1>4, <1>5, <1>6, <1>7, Zenon
<1>. QED  BY <1>8 DEF a, b, c, d, e, f, g, h, k

\* What stands for no prefix is no name.
LEMMA BareIsNothing ==
    /\ Bare # "Envelope" /\ Bare # "Body" /\ Bare # "Shell" /\ Bare # "CommandResponse"
    /\ Bare # "Fault" /\ Bare # "rsp" /\ Bare # "s" /\ Bare # "ShellId" /\ Bare # "CommandId"
  BY Zenon DEF Bare

\* Tags differ by what they open or close.
LEMMA TagFields ==
    ASSUME NEW p, NEW n
    PROVE  /\ Open(p, n).attrs = <<>> /\ Open(p, n).kind = "open" /\ Open(p, n).name = n
           /\ Open(p, n).prefix = p
           /\ Close(p, n).attrs = <<>> /\ Close(p, n).kind = "close" /\ Close(p, n).name = n
           /\ Close(p, n).prefix = p
           /\ Text("id", n).attrs = <<>> /\ Text("id", n).kind = "text" /\ Text("id", n).name = Bare
           /\ Text("id", n).text = <<"id", n>>
  BY DEF Open, Close, Tag, Text

\* What stands in each of the nine places of such an answer.
LEMMA AnswerFields ==
    ASSUME NEW outer, NEW inner, NEW id, NEW doc, doc = AnswerDoc(outer, inner, id)
    PROVE  /\ DOMAIN doc = 1 .. 9 /\ Len(doc) = 9
           /\ SubSeq(doc, 5, 5) = <<doc[5]>>
           /\ \A i \in 1 .. 9 : doc[i].attrs = <<>>
           /\ doc[1].name = "Envelope" /\ doc[2].name = "Body" /\ doc[3].name = outer
           /\ doc[4].name = inner /\ doc[5].name = Bare /\ doc[6].name = inner
           /\ doc[7].name = outer /\ doc[8].name = "Body" /\ doc[9].name = "Envelope"
           /\ doc[4].kind = "open" /\ doc[4].prefix = config.prefix
           /\ doc[6].kind = "close" /\ doc[6].prefix = config.prefix
           /\ doc[5] = Text("id", XmlEscape(id))
           /\ doc[6] = Close(config.prefix, inner)
<1>1. /\ DOMAIN doc = 1 .. 9 /\ Len(doc) = 9
      /\ doc[1] = Open("s", "Envelope") /\ doc[2] = Open("s", "Body")
      /\ doc[3] = Open(config.prefix, outer) /\ doc[4] = Open(config.prefix, inner)
      /\ doc[5] = Text("id", XmlEscape(id)) /\ doc[6] = Close(config.prefix, inner)
      /\ doc[7] = Close(config.prefix, outer) /\ doc[8] = Close("s", "Body")
      /\ doc[9] = Close("s", "Envelope")
  BY AnswerTags
<1>2. SubSeq(doc, 5, 5) = <<doc[5]>>
  BY <1>1, AnswerTags, FifthOfNine
<1>3. \A i \in 1 .. 9 : i \in {1, 2, 3, 4, 5, 6, 7, 8, 9}
  OBVIOUS
<1>4. /\ doc[1].attrs = <<>> /\ doc[2].attrs = <<>> /\ doc[3].attrs = <<>> /\ doc[4].attrs = <<>>
      /\ doc[5].attrs = <<>> /\ doc[6].attrs = <<>> /\ doc[7].attrs = <<>> /\ doc[8].attrs = <<>>
      /\ doc[9].attrs = <<>>
  BY <1>1 DEF Open, Close, Tag, Text
<1>5. /\ doc[1].name = "Envelope" /\ doc[2].name = "Body" /\ doc[3].name = outer
      /\ doc[4].name = inner /\ doc[5].name = Bare /\ doc[6].name = inner
      /\ doc[7].name = outer /\ doc[8].name = "Body" /\ doc[9].name = "Envelope"
      /\ doc[4].kind = "open" /\ doc[4].prefix = config.prefix
      /\ doc[6].kind = "close" /\ doc[6].prefix = config.prefix
  BY <1>1 DEF Open, Close, Tag, Text
<1>. QED  BY <1>1, <1>2, <1>3, <1>4, <1>5

\* parse_shell_id and parse_command_id find the id in it.
LEMMA AnswerIsRead ==
    ASSUME config \in Configs, NEW id \in ShellNames \cup CommandNames, NEW outer, NEW inner,
           inner # "Envelope", inner # "Body", inner # Bare, inner # outer
    PROVE  ParseId(AnswerDoc(outer, inner, id), inner) = id
<1>. PICK doc : doc = AnswerDoc(outer, inner, id)
  OBVIOUS
<1>. DEFINE p == config.prefix
            tags == Spelt(doc, inner, {"open", "close"})
<1>0. /\ DOMAIN doc = 1 .. 9 /\ Len(doc) = 9 /\ SubSeq(doc, 5, 5) = <<doc[5]>>
      /\ \A i \in 1 .. 9 : doc[i].attrs = <<>>
      /\ doc[1].name = "Envelope" /\ doc[2].name = "Body" /\ doc[3].name = outer
      /\ doc[4].name = inner /\ doc[5].name = Bare /\ doc[6].name = inner
      /\ doc[7].name = outer /\ doc[8].name = "Body" /\ doc[9].name = "Envelope"
      /\ doc[4].kind = "open" /\ doc[4].prefix = p
      /\ doc[6].kind = "close" /\ doc[6].prefix = p
      /\ doc[5] = Text("id", XmlEscape(id)) /\ doc[6] = Close(p, inner)
  BY AnswerFields
<1>1. p \in {Bare, "rsp"}
  BY ShellAssumption
<1>2. \A i \in 1 .. 9 : i \in {1, 2, 3, 4, 5, 6, 7, 8, 9}
  OBVIOUS
<1>3. tags = {4, 6}
  BY <1>2, BareIsNothing, <1>0 DEF Spelt
<1>. HIDE DEF tags
<1>4. Closing(doc, 4) = {6}
  <2>1. 6 \in Closing(doc, 4)
    BY <1>0 DEF Closing
  <2>2. ASSUME NEW j \in Closing(doc, 4) PROVE j = 6
    <3>1. j \in 4 + 1 .. Len(doc) /\ doc[j] = Close(doc[4].prefix, doc[4].name)
      BY DEF Closing
    <3>2. doc[j].kind = "close" /\ doc[j].name = inner
      BY <3>1, <1>0, TagFields
    <3>3. j \in {5, 6, 7, 8, 9}
      BY <1>0, <3>1
    <3>. QED  BY <3>2, <3>3, <1>0
  <2>. QED  BY <2>1, <2>2
<1>5. Content(doc, 4) = <<Text("id", id)>>
  <2>1. Min({6}) = 6
    BY DEF Min
  <2>2. Content(doc, 4) = SubSeq(doc, 5, 5)
    <3>1. Content(doc, 4) = SubSeq(doc, 4 + 1, Min(Closing(doc, 4)) - 1)
      BY DEF Content
    <3>2. 4 + 1 = 5 /\ 6 - 1 = 5
      OBVIOUS
    <3>. QED  BY <1>4, <2>1, <3>1, <3>2, Zenon
  <2>3. SubSeq(doc, 5, 5) = <<doc[5]>>
    BY <1>0
  <2>. QED  BY <2>2, <2>3, <1>0, NamesAreTexts
<1>6. ~Blank(Content(doc, 4))
  <2>1. Text("id", id).text[1] # "space"
    BY TagFields
  <2>. QED  BY <1>5, <2>1 DEF Blank
<1>7. ElementText(doc, inner) = <<Text("id", id)>>
  <2>. DEFINE prefixed  == {i \in tags : doc[i].prefix # Bare}
              after     == IF prefixed = {} THEN 0 ELSE Max(prefixed)
              bare      == {i \in tags : doc[i].prefix = Bare /\ i > after}
              Filled(S) == {i \in S : /\ doc[i].kind = "open" /\ Closing(doc, i) # {}
                                      /\ ~Blank(Content(doc, i))}
  <2>1. Filled({4, 6}) = {4}
    BY <1>4, <1>6, <1>0
  <2>2. Min({4}) = 4
    BY DEF Min
  <2>3. ElementText(doc, inner) =
          IF Filled(prefixed) # {} THEN Content(doc, Min(Filled(prefixed)))
          ELSE IF Filled(bare) # {} THEN Content(doc, Min(Filled(bare))) ELSE None
    BY DEF ElementText, tags
  <2>. USE BareIsNothing
  <2>4. CASE p = "rsp"
    <3>1. prefixed = {4, 6}
      BY <1>3, <2>4, <1>0
    <3>. QED  BY <1>5, <2>1, <2>2, <2>3, <3>1
  <2>5. CASE p = Bare
    <3>1. prefixed = {}
      BY <1>3, <2>5, <1>0
    <3>2. bare = {4, 6}
      BY <1>3, <2>5, <3>1, <1>0
    <3>3. Filled(prefixed) = {}
      BY <3>1
    <3>. QED  BY <1>5, <2>1, <2>2, <2>3, <3>2, <3>3
  <2>. QED  BY <1>1, <2>4, <2>5
<1>8. <<Text("id", id)>> # None /\ <<Text("id", id)>>[1].text[2] = id
  <2>1. <<Text("id", id)>> # None
    BY NoneAssumption
  <2>2. Text("id", id).text[2] = id
    BY TagFields
  <2>. QED  BY <2>1, <2>2
<1>. QED  BY <1>7, <1>8 DEF ParseId

-----------------------------------------------------------------------------
(* Faults: what check_soap_fault finds, and what it does not.                *)

LEMMA Join2With2 ==
    ASSUME NEW a, NEW b, NEW c, NEW d
    PROVE  <<a, b>> \o <<>> \o <<c, d>> = <<a, b, c, d>>
<1>. DEFINE S == {a, b, c, d}
<1>1. <<a, b>> \in Seq(S) /\ <<c, d>> \in Seq(S) /\ <<a, b, c, d>> \in Seq(S)
  OBVIOUS
<1>. HIDE DEF S
<1>2. <<a, b>> \o <<>> = <<a, b>>
  BY <1>1, ConcatEmptySeq
<1>3. /\ Len(<<a, b>> \o <<c, d>>) = 4
      /\ \A i \in 1 .. 4 : (<<a, b>> \o <<c, d>>)[i] = <<a, b, c, d>>[i]
  BY <1>1, ConcatProperties
<1>4. <<a, b>> \o <<c, d>> = <<a, b, c, d>>
  BY <1>1, <1>3, SeqEqual, ConcatProperties
<1>. QED  BY <1>2, <1>4

LEMMA ElementIsSeq ==
    ASSUME NEW S, NEW p, NEW n, NEW content \in Seq(S), Open(p, n) \in S, Close(p, n) \in S
    PROVE  /\ Element(p, n, content) \in Seq(S) /\ Len(Element(p, n, content)) \in Nat \ {0}
           /\ Element(p, n, content)[1] = Open(p, n)
  BY DEF Element

\* A fault of the service is found, whatever prefix it writes.
LEMMA FaultIsFound ==
    ASSUME NEW code
    PROVE  HasFault(FaultDoc(code))
<1>. DEFINE names == {"Fault", "Code", "Value", "Subcode"}
            S == {Open("s", n) : n \in names \cup {"Envelope", "Body"}}
                 \cup {Close("s", n) : n \in names \cup {"Envelope", "Body"}}
                 \cup {Text("word", "s:Receiver"), Text("word", code)}
            x == Element("s", "Value", <<Text("word", "s:Receiver")>>)
            y == Element("s", "Value", <<Text("word", code)>>)
            u == Element("s", "Subcode", y)
            v == Element("s", "Code", x \o u)
            t == Element("s", "Fault", v)
            doc == Response(t)
<1>1. \A n \in names \cup {"Envelope", "Body"} : Open("s", n) \in S /\ Close("s", n) \in S
  OBVIOUS
<1>2. <<Text("word", "s:Receiver")>> \in Seq(S) /\ <<Text("word", code)>> \in Seq(S)
  OBVIOUS
<1>. HIDE DEF S
<1>3. x \in Seq(S) /\ y \in Seq(S)
  BY <1>1, <1>2, ElementIsSeq
<1>. HIDE DEF x, y
<1>4. u \in Seq(S)
  BY <1>1, <1>3, ElementIsSeq
<1>. HIDE DEF u
<1>5. x \o u \in Seq(S)
  BY <1>3, <1>4
<1>6. v \in Seq(S)
  BY <1>1, <1>5, ElementIsSeq
<1>. HIDE DEF v
<1>7. t \in Seq(S) /\ Len(t) \in Nat \ {0} /\ t[1] = Open("s", "Fault")
  BY <1>1, <1>6, ElementIsSeq
<1>. HIDE DEF t
<1>8. <<Open("s", "Envelope"), Open("s", "Body")>> \in Seq(S)
      /\ <<Close("s", "Body"), Close("s", "Envelope")>> \in Seq(S)
  BY <1>1
<1>9. 3 \in DOMAIN doc /\ doc[3] = Open("s", "Fault")
  BY <1>7, <1>8 DEF Response
<1>10. HasFault(doc)
  BY <1>9, TagFields, BareIsNothing DEF HasFault, Spelt
<1>. QED  BY <1>10 DEF FaultDoc, t, u, v, x, y

\* An answer that carries an id is no fault.
LEMMA AnswerIsNoFault ==
    ASSUME NEW outer, NEW inner, NEW id, outer # "Fault", inner # "Fault"
    PROVE  ~HasFault(AnswerDoc(outer, inner, id))
<1>. PICK doc : doc = AnswerDoc(outer, inner, id)
  OBVIOUS
<1>1. \A i \in 1 .. 9 : i \in {1, 2, 3, 4, 5, 6, 7, 8, 9}
  OBVIOUS
<1>2. \A i \in 1 .. 9 : doc[i].name # "Fault"
  BY <1>1, AnswerFields, BareIsNothing
<1>. QED  BY <1>2, AnswerFields DEF HasFault, Spelt

\* Nor is one that carries nothing.
LEMMA EmptyIsNoFault == ~HasFault(Response(<<>>))
<1>. DEFINE doc == Response(<<>>)
            a == Open("s", "Envelope")
            b == Open("s", "Body")
            c == Close("s", "Body")
            d == Close("s", "Envelope")
<1>1. doc = <<a, b>> \o <<>> \o <<c, d>>
  BY DEF Response
<1>. HIDE DEF doc, a, b, c, d
<1>2. doc = <<a, b, c, d>>
  BY <1>1, Join2With2
<1>3. a.name = "Envelope" /\ b.name = "Body" /\ c.name = "Body" /\ d.name = "Envelope"
  BY TagFields DEF a, b, c, d
<1>. QED  BY <1>2, <1>3 DEF HasFault, Spelt, doc

\* What the client makes of an answer of the service and of a refusal.
LEMMA ServiceAnswers ==
    ASSUME config \in Configs, NEW r, r.status = 200 \/ (r.status = 500 /\ HasFault(r.doc)),
           r.token = Proof
    PROVE  SendSoap(config.method, r) = IF HasFault(r.doc) THEN "soap" ELSE "ok"
<1>1. config.method \in {"basic", "certificate", "kerberos"}
  BY ShellAssumption
<1>. QED  BY <1>1 DEF SendSoap, Authenticated, Direct, Kerberos, Successful, FromHttpStatus,
                  CheckSoapFault, Proof

\* An answer of the HTTP server alone is neither success nor a SOAP fault.
LEMMA ServerRefuses ==
    ASSUME NEW method, NEW r,
           \/ r.status \in {401, 403, 503} /\ r.token = None
           \/ method = "kerberos" /\ r.token = "bad"
    PROVE  SendSoap(method, r) \notin {"ok", "soap"}
  BY NoneAssumption DEF SendSoap, Authenticated, Direct, Kerberos, Successful, FromHttpStatus,
                  CheckSoapFault

\* An error response without its body is no success, and no SOAP fault either.
LEMMA BrokenOff ==
    ASSUME NEW method, NEW r, ~Successful(r.status), r.doc = <<>>
    PROVE  SendSoap(method, r) \notin {"ok", "soap"}
<1>1. ~HasFault(<<>>)
  BY DEF HasFault, Spelt
<1>. QED  BY <1>1 DEF SendSoap, Authenticated, Direct, Kerberos, Successful, FromHttpStatus,
                           CheckSoapFault

-----------------------------------------------------------------------------
(* Calls, and the requests that are made of them.                            *)

\* The operations.
Ops == {"idle"} \cup Creating \cup Consuming \cup Borrowing \cup {"reconnect", "delete", "terminate"}

\* A call, as a record.
IsCall(c) ==
    /\ DOMAIN c = {"op", "api", "shell", "uri", "command", "data", "number", "end", "attempt", "lost"}
    /\ c.op \in Ops /\ c.api \in {"handle", "client"} /\ c.uri \in {CMD, PSRP} /\ c.number \in Nat
    /\ c.end \in BOOLEAN /\ c.lost \in BOOLEAN

\* A call as a caller can begin it.
WellAsked(c) ==
    /\ IsCall(c)
    /\ c.op \in {"open", "create"} => c.uri = CMD
    /\ c.op = "openPsrp" => c.uri = PSRP /\ c.shell \in Named(ProposedIds)
    /\ c.op \notin Creating \cup {"idle"} => c.shell \in ShellNames
    /\ c.op \in Creating \cup Consuming \cup {"reconnect", "send", "ctrlC"} => c.api = "handle"
    /\ c.op \in {"delete", "terminate"} => c.api = "client"
    /\ c.op = "start" => c.command \in {None, PipelineId} /\ (c.api = "client" => c.command = None)
    /\ c.op \in {"receive", "send", "ctrlC", "terminate"} =>
          c.command \in CommandNames \/ (c.op = "send" /\ c.command = Everything)

\* The action and the resource URI a request of the call carries.
ActionOf(c) ==
    IF c.op \in Creating THEN "Create"
    ELSE IF c.op \in {"close", "delete"} THEN "Delete"
    ELSE IF c.op = "disconnect" THEN "Disconnect"
    ELSE IF c.op = "reconnect" THEN "Reconnect"
    ELSE IF c.op = "start" THEN "Command"
    ELSE IF c.op = "receive" THEN "Receive"
    ELSE IF c.op = "send" THEN "Send"
    ELSE "Signal"

UriOf(c) == IF SaysCmd(c) THEN CMD ELSE c.uri

\* The header of a request.
LEMMA HeaderFields ==
    ASSUME NEW action, NEW uri, NEW shell, NEW options
    PROVE  LET h == Header(action, uri, shell)
               w == WithOptions(h, options)
           IN /\ h.action = action /\ h.uri = uri /\ h.selector = Optional(shell)
              /\ h.to = XmlEscape(Cfg.endpoint)
              /\ w.action = action /\ w.uri = uri /\ w.selector = Optional(shell)
              /\ w.to = XmlEscape(Cfg.endpoint)
  BY DEF Header, WithOptions

\* A document is readable if its texts are.
LEMMA ReadableIf ==
    ASSUME NEW r, r.header.uri \in {CMD, PSRP}, r.header.to = XmlEscape(Cfg.endpoint),
           NEW shell \in ShellNames \cup {None}, r.header.selector = Optional(shell),
           \A f \in DOMAIN r.texts : \A i \in DOMAIN r.texts[f] : WellFormed(r.texts[f][i])
    PROVE  Readable(r)
<1>1. r.header.uri \notin Special
  BY TextsAssumption
<1>2. WellFormed(r.header.to)
  BY TextsAssumption, EscapePlain
<1>3. \A i \in DOMAIN r.header.selector : WellFormed(r.header.selector[i])
  <2>1. CASE shell = None
    BY <2>1 DEF Optional
  <2>2. CASE shell \in ShellNames
    <3>1. r.header.selector = <<XmlEscape(shell)>> /\ WellFormed(XmlEscape(shell))
      BY <2>2, NamesAreTexts DEF Optional
    <3>. QED  BY <3>1
  <2>. QED  BY <2>1, <2>2
<1>. QED  BY <1>1, <1>2, <1>3 DEF Readable, TextsOf

LEMMA EnvelopeFields ==
    ASSUME NEW header, NEW element, NEW texts, NEW values
    PROVE  LET r == Envelope(header, element, texts, values)
           IN r.header = header /\ r.texts = texts /\ r.values = values
  BY DEF Envelope

\* Texts that need no escaping, or are escaped.
LEMMA OneWellFormed ==
    ASSUME NEW x, WellFormed(x)
    PROVE  \A i \in DOMAIN <<x>> : WellFormed(<<x>>[i])
  OBVIOUS

LEMMA OptionalWellFormed ==
    ASSUME NEW x, x = None \/ x = Plain(x.says)
    PROVE  \A i \in DOMAIN Optional(x) : WellFormed(Optional(x)[i])
<1>1. CASE x = None
  BY <1>1 DEF Optional
<1>2. CASE x # None
  BY <1>2, EscapePlain, OneWellFormed DEF Optional
<1>. QED  BY <1>1, <1>2

LEMMA EscapedWellFormed ==
    ASSUME NEW xs, \A i \in DOMAIN xs : xs[i] = Plain(xs[i].says)
    PROVE  \A i \in DOMAIN Escaped(xs) : WellFormed(Escaped(xs)[i])
  BY EscapePlain DEF Escaped

\* A request that creates a shell is read as it was meant.
LEMMA CreationRequests ==
    ASSUME NEW c, WellAsked(c), c.op \in Creating
    PROVE  LET r == RequestOf(c)
           IN /\ Readable(r) /\ r.header.action = "Create" /\ r.header.uri = c.uri
              /\ "shell" \in DOMAIN r.texts <=> c.op = "openPsrp"
              /\ c.op = "openPsrp" => Read(r.texts.shell)[1] = c.shell
<1>1. CASE c.op \in {"open", "create"}
  <2>. PICK r : r = RequestOf(c)
    OBVIOUS
  <2>. DEFINE texts == [workingDirectory |-> Optional(Cfg.workingDirectory),
                        names |-> Escaped(Cfg.envNames), variables |-> Escaped(Cfg.envValues)]
  <2>1. r = CreateShellRequest /\ c.uri = CMD
    BY <1>1 DEF RequestOf, WellAsked
  <2>2. r.header = Header("Create", CMD, None) /\ r.texts = texts
    BY <2>1 DEF CreateShellRequest, Envelope, CmdHeader
  <2>3. \A f \in DOMAIN r.texts : \A i \in DOMAIN r.texts[f] : WellFormed(r.texts[f][i])
    <3>1. \A i \in DOMAIN Optional(Cfg.workingDirectory) : WellFormed(Optional(Cfg.workingDirectory)[i])
      BY OptionalWellFormed, TextsAssumption
    <3>2. /\ \A i \in DOMAIN Escaped(Cfg.envNames) : WellFormed(Escaped(Cfg.envNames)[i])
          /\ \A i \in DOMAIN Escaped(Cfg.envValues) : WellFormed(Escaped(Cfg.envValues)[i])
      BY EscapedWellFormed, TextsAssumption
    <3>. QED  BY <2>2, <3>1, <3>2
  <2>4. "shell" \notin DOMAIN r.texts
    BY <2>2
  <2>5. /\ r.header.action = "Create" /\ r.header.uri = c.uri
        /\ r.header.selector = Optional(None) /\ r.header.to = XmlEscape(Cfg.endpoint)
    BY <2>1, <2>2, HeaderFields
  <2>6. Readable(r)
    BY <2>1, <2>3, <2>5, ReadableIf
  <2>. QED  BY <1>1, <2>4, <2>5, <2>6
<1>2. CASE c.op = "openPsrp"
  <2>. PICK r : r = RequestOf(c)
    OBVIOUS
  <2>1. r = CreatePsrpShellRequest("opening", c.uri, c.shell)
    BY <1>2 DEF RequestOf
  <2>. PICK h : h = WithOptions(Header("Create", c.uri, None), {<<"protocolversion", "2.3">>})
    OBVIOUS
  <2>2. r.header = h /\ r.texts = [shell |-> Optional(c.shell)]
    BY <2>1, EnvelopeFields DEF CreatePsrpShellRequest
  <2>3. /\ c.shell \in ShellNames /\ Optional(c.shell) = <<XmlEscape(c.shell)>>
        /\ WellFormed(XmlEscape(c.shell)) /\ XmlRead(XmlEscape(c.shell)) = c.shell
    BY <1>2, NamesAreTexts DEF WellAsked, ShellNames, Optional
  <2>4. \A f \in DOMAIN r.texts : \A i \in DOMAIN r.texts[f] : WellFormed(r.texts[f][i])
    BY <2>2, <2>3, OneWellFormed
  <2>5. "shell" \in DOMAIN r.texts /\ Read(r.texts.shell)[1] = c.shell
    BY <2>2, <2>3, OneText
  <2>6. c.uri \in {CMD, PSRP}
    BY DEF WellAsked, IsCall
  <2>. QED  BY <1>2, <2>2, <2>4, <2>5, <2>6, HeaderFields, ReadableIf
<1>. QED  BY <1>1, <1>2 DEF Creating

-----------------------------------------------------------------------------
(* What the service reads of each request.                                   *)

\* Texts the service can read.
Legible(texts) == \A f \in DOMAIN texts : \A i \in DOMAIN texts[f] : WellFormed(texts[f][i])

\* What the service reads of a request about a shell.
Addresses(r, action, uri, shell) ==
    /\ Readable(r) /\ r.header.action = action /\ r.header.uri = uri
    /\ Read(r.header.selector) = <<shell>>

\* A request about a shell names it in its selector.
LEMMA AddressedToShell ==
    ASSUME NEW shell \in ShellNames, NEW uri \in {CMD, PSRP}, NEW action, NEW options, NEW h,
           h = Header(action, uri, shell) \/ h = WithOptions(Header(action, uri, shell), options),
           NEW element, NEW texts, Legible(texts), NEW values,
           NEW r, r = Envelope(h, element, texts, values)
    PROVE  Addresses(r, action, uri, shell) /\ r.texts = texts /\ r.values = values
<1>1. r.header = h /\ r.texts = texts /\ r.values = values
  BY EnvelopeFields
<1>2. /\ h.action = action /\ h.uri = uri /\ h.selector = Optional(shell)
      /\ h.to = XmlEscape(Cfg.endpoint)
  BY HeaderFields
<1>3. Readable(r)
  BY <1>1, <1>2, ReadableIf DEF Legible
<1>4. Optional(shell) = <<XmlEscape(shell)>> /\ XmlRead(XmlEscape(shell)) = shell
  BY NamesAreTexts DEF Optional
<1>5. Read(Optional(shell)) = <<shell>>
  BY <1>4, OneText
<1>. QED  BY <1>1, <1>2, <1>3, <1>5 DEF Addresses

LEMMA NoTextIsLegible == Legible(NoTexts)
  BY DEF Legible, NoTexts

\* A request without a body.
LEMMA BareRequest ==
    ASSUME NEW shell \in ShellNames, NEW uri \in {CMD, PSRP}, NEW action, NEW element,
           NEW texts, Legible(texts),
           NEW r, r = Envelope(Header(action, uri, shell), element, texts, <<>>)
    PROVE  Addresses(r, action, uri, shell) /\ r.texts = texts
<1>. PICK values : values = <<>>
  OBVIOUS
<1>. PICK h : h = Header(action, uri, shell)
  OBVIOUS
<1>1. r = Envelope(h, element, texts, values)
  OBVIOUS
<1>. QED  BY <1>1, AddressedToShell

LEMMA CommandIsLegible ==
    ASSUME NEW id \in CommandNames
    PROVE  Legible([command |-> <<XmlEscape(id)>>]) /\ Read(<<XmlEscape(id)>>) = <<id>>
<1>1. WellFormed(XmlEscape(id)) /\ XmlRead(XmlEscape(id)) = id
  BY NamesAreTexts
<1>2. Read(<<XmlEscape(id)>>) = <<id>>
  BY <1>1, OneText
<1>3. Legible([command |-> <<XmlEscape(id)>>])
  BY <1>1, OneWellFormed DEF Legible
<1>. QED  BY <1>2, <1>3

LEMMA NothingIsLegible == Legible([command |-> <<>>])
  BY DEF Legible

LEMMA UriIsOne ==
    ASSUME NEW c, WellAsked(c)
    PROVE  c.uri \in {CMD, PSRP} /\ UriOf(c) \in {CMD, PSRP}
  BY DEF WellAsked, IsCall, UriOf

\* close, delete_shell, disconnect and reconnect_shell.
LEMMA LifeRequest ==
    ASSUME NEW c, WellAsked(c), c.op \in {"close", "delete", "disconnect", "reconnect"}
    PROVE  Addresses(RequestOf(c), ActionOf(c), UriOf(c), c.shell)
<1>1. c.shell \in ShellNames /\ c.uri \in {CMD, PSRP}
  BY UriIsOne DEF WellAsked, Creating
<1>2. CASE c.op \in {"close", "delete"}
  <2>1. RequestOf(c) = Envelope(Header("Delete", CMD, c.shell), "Empty", NoTexts, <<>>)
    BY <1>2 DEF RequestOf, DeleteShellRequest, CmdHeader
  <2>2. UriOf(c) = CMD /\ ActionOf(c) = "Delete"
    BY <1>2 DEF UriOf, SaysCmd, ActionOf, WellAsked, Creating
  <2>. QED  BY <1>1, <2>1, <2>2, BareRequest, NoTextIsLegible
<1>3. CASE c.op = "disconnect"
  <2>1. RequestOf(c) = Envelope(Header("Disconnect", c.uri, c.shell), "Disconnect", NoTexts,
                                [idle |-> Cfg.timeout])
    BY <1>3 DEF RequestOf, DisconnectShellRequestWithUri
  <2>2. UriOf(c) = c.uri /\ ActionOf(c) = "Disconnect"
    BY <1>3 DEF UriOf, SaysCmd, ActionOf, WellAsked, Creating, Consuming
  <2>. QED  BY <1>1, <2>1, <2>2, AddressedToShell, NoTextIsLegible
<1>4. CASE c.op = "reconnect"
  <2>1. RequestOf(c) = Envelope(Header("Reconnect", c.uri, c.shell), "Reconnect", NoTexts, <<>>)
    BY <1>4 DEF RequestOf, ReconnectShellRequestWithUri
  <2>2. UriOf(c) = c.uri /\ ActionOf(c) = "Reconnect"
    BY <1>4 DEF UriOf, SaysCmd, ActionOf, WellAsked, Creating, Consuming
  <2>. QED  BY <1>1, <2>1, <2>2, BareRequest, NoTextIsLegible
<1>. QED  BY <1>2, <1>3, <1>4

\* start_command, start_command_with_id and execute_command.
LEMMA StartRequest ==
    ASSUME NEW c, WellAsked(c), c.op = "start"
    PROVE  LET r == RequestOf(c)
           IN /\ Addresses(r, "Command", UriOf(c), c.shell)
              /\ r.texts.command # <<>> <=> c.command # None
              /\ c.command # None => Read(r.texts.command)[1] = c.command
              /\ Read(r.texts.line) = <<Line>> /\ Read(r.texts.args) = Args
<1>. PICK r : r = RequestOf(c)
  OBVIOUS
<1>. PICK command : command = IF c.command = None THEN <<>> ELSE <<XmlEscape(c.command)>>
  OBVIOUS
<1>. DEFINE texts == [line |-> <<XmlEscape(Line)>>, args |-> Escaped(Args), command |-> command]
<1>1. c.shell \in ShellNames /\ c.uri \in {CMD, PSRP} /\ UriOf(c) \in {CMD, PSRP}
  BY UriIsOne DEF WellAsked, Creating
<1>2. c.command \in {None, PipelineId} /\ (c.api = "client" => c.command = None)
      /\ c.api \in {"client", "handle"}
  BY DEF WellAsked, IsCall
<1>3. r = Envelope(Header("Command", UriOf(c), c.shell), "CommandLine", texts, <<>>)
  BY <1>2 DEF RequestOf, ExecuteCommandRequest, ExecuteCommandRequestWithUri,
              ExecuteCommandWithIdRequest, UriOf, SaysCmd
<1>4. /\ WellFormed(XmlEscape(Line)) /\ XmlRead(XmlEscape(Line)) = Line
  BY EscapePlain DEF Line
<1>5. Escaped(Args) = <<XmlEscape(Args[1])>> /\ Args = <<Args[1]>>
      /\ WellFormed(XmlEscape(Args[1])) /\ XmlRead(XmlEscape(Args[1])) = Args[1]
  BY EscapePlain DEF Args, Escaped
<1>6. c.command # None => /\ WellFormed(XmlEscape(c.command))
                          /\ XmlRead(XmlEscape(c.command)) = c.command
  BY <1>2, EscapePlain DEF PipelineId
<1>7. Legible(texts)
  BY <1>4, <1>5, <1>6, OneWellFormed DEF Legible
<1>8. Addresses(r, "Command", UriOf(c), c.shell) /\ r.texts = texts
  BY <1>1, <1>3, <1>7, BareRequest
<1>9. Read(<<XmlEscape(Line)>>) = <<Line>> /\ Read(Escaped(Args)) = Args
  BY <1>4, <1>5, OneText
<1>10. /\ command # <<>> <=> c.command # None
       /\ c.command # None => Read(command)[1] = c.command
  BY <1>6, OneText
<1>. QED  BY <1>8, <1>9, <1>10

\* receive_next and receive_output.
LEMMA ReceiveRequest ==
    ASSUME NEW c, WellAsked(c), c.op = "receive"
    PROVE  Addresses(RequestOf(c), "Receive", UriOf(c), c.shell)
<1>. PICK r : r = RequestOf(c)
  OBVIOUS
<1>1. c.shell \in ShellNames /\ UriOf(c) \in {CMD, PSRP} /\ c.uri \in {CMD, PSRP}
      /\ c.api \in {"client", "handle"} /\ c.command \in CommandNames
  BY UriIsOne DEF WellAsked, Creating, IsCall
<1>2. CASE c.api = "client" \/ c.uri = CMD
  <2>1. r = Envelope(Header("Receive", UriOf(c), c.shell), "Receive",
                     [command |-> <<XmlEscape(c.command)>>], [streams |-> {"stdout", "stderr"}])
    BY <1>1, <1>2 DEF RequestOf, ReceiveOutputRequest, ReceiveOutputRequestWithUri, UriOf, SaysCmd,
                      CMD, PSRP
  <2>. QED  BY <1>1, <2>1, AddressedToShell, CommandIsLegible
<1>3. CASE c.api = "handle" /\ c.uri = PSRP
  <2>. PICK id : id = IF Streaming(c) THEN None ELSE c.command
    OBVIOUS
  <2>. PICK h : h = WithOptions(Header("Receive", UriOf(c), c.shell), {<<"KEEPALIVE", TRUE>>})
    OBVIOUS
  <2>1. r = Envelope(h, "Receive", [command |-> Optional(id)], [streams |-> {"stdout"}])
    <3>1. r = ReceivePsrpRequest(c.shell, id, c.uri)
      BY <1>3 DEF RequestOf, CMD, PSRP
    <3>2. UriOf(c) = c.uri
      BY <1>3 DEF UriOf, SaysCmd
    <3>. QED  BY <3>1, <3>2, Zenon DEF ReceivePsrpRequest
  <2>2. Legible([command |-> Optional(id)])
    BY <1>1, NothingIsLegible, CommandIsLegible DEF Optional
  <2>. QED  BY <1>1, <2>1, <2>2, AddressedToShell
<1>. QED  BY <1>1, <1>2, <1>3

\* send_input: for a command, or for the shell.
LEMMA SendRequest ==
    ASSUME NEW c, WellAsked(c), c.op = "send"
    PROVE  LET r == RequestOf(c)
           IN /\ Addresses(r, "Send", UriOf(c), c.shell)
              /\ \/ r.texts.command = <<>> /\ c.command = Everything
                 \/ /\ r.texts.command # <<>> /\ Read(r.texts.command) = <<c.command>>
                    /\ r.values.end = c.end /\ r.values.data = c.data /\ c.command # Everything
<1>. PICK r : r = RequestOf(c)
  OBVIOUS
<1>1. c.shell \in ShellNames /\ UriOf(c) = c.uri /\ c.uri \in {CMD, PSRP} /\ c.end \in BOOLEAN
      /\ c.command \in CommandNames \cup {Everything}
  BY UriIsOne DEF WellAsked, Creating, IsCall, UriOf, SaysCmd
<1>. PICK h : h = Header("Send", UriOf(c), c.shell)
  OBVIOUS
<1>2. CASE Streaming(c)
  <2>1. r = Envelope(h, "Send", [command |-> <<>>],
                     [stream |-> "stdin", data |-> c.data, end |-> FALSE])
    BY <1>1, <1>2 DEF RequestOf, SendPsrpRequest
  <2>. PICK texts : texts = [command |-> <<>>]
    OBVIOUS
  <2>. PICK values : values = [stream |-> "stdin", data |-> c.data, end |-> FALSE]
    OBVIOUS
  <2>0. h = Header("Send", UriOf(c), c.shell)
    OBVIOUS
  <2>2. r = Envelope(h, "Send", texts, values) /\ Legible(texts)
    BY <2>1, NothingIsLegible
  <2>3. Addresses(r, "Send", UriOf(c), c.shell) /\ r.texts = texts
    BY ONLY <1>1, <2>0, <2>2, AddressedToShell
  <2>4. c.command = Everything
    BY <1>1, <1>2, CommandIdsAssumption DEF Streaming
  <2>. QED  BY <2>3, <2>4
<1>3. CASE ~Streaming(c)
  <2>1. r = Envelope(h, "Send", [command |-> <<XmlEscape(c.command)>>],
                     [stream |-> "stdin", data |-> c.data, end |-> c.end])
    BY <1>1, <1>3 DEF RequestOf, SendInputRequestWithUri
  <2>2. c.command # Everything /\ c.command \in CommandNames
    BY <1>1, <1>3 DEF Streaming
  <2>3. Addresses(r, "Send", UriOf(c), c.shell) /\ r.texts.command = <<XmlEscape(c.command)>>
        /\ r.values.end = c.end /\ r.values.data = c.data
    BY <1>1, <2>1, <2>2, AddressedToShell, CommandIsLegible
  <2>. QED  BY <1>1, <2>2, <2>3, CommandIsLegible, OneText
<1>. QED  BY <1>2, <1>3

\* signal_ctrl_c and signal_terminate.
LEMMA SignalRequestReads ==
    ASSUME NEW c, WellAsked(c), c.op \in {"ctrlC", "terminate"}
    PROVE  LET r == RequestOf(c)
           IN /\ Addresses(r, "Signal", UriOf(c), c.shell)
              /\ Read(r.texts.command) = <<c.command>> /\ r.values.code # "none"
<1>. PICK r : r = RequestOf(c)
  OBVIOUS
<1>1. c.shell \in ShellNames /\ UriOf(c) = CMD /\ c.command \in CommandNames
  BY DEF WellAsked, Creating, UriOf, SaysCmd
<1>. PICK code : code = IF c.op = "ctrlC" THEN CtrlC ELSE Terminate
  OBVIOUS
<1>2. r = Envelope(Header("Signal", CMD, c.shell), "Signal",
                   [command |-> <<XmlEscape(c.command)>>], [code |-> code])
  BY DEF RequestOf, SignalCtrlCRequest, SignalTerminateRequest, SignalRequest, CmdHeader
<1>3. code # "none"
  BY DEF CtrlC, Terminate
<1>. QED  BY <1>1, <1>2, <1>3, AddressedToShell, CommandIsLegible

-----------------------------------------------------------------------------
(* The shells and commands of the service.                                   *)

\* Sequences, of whatever they are made.
IsSeq(s) == \E S : s \in Seq(S)

LEMMA Appended ==
    ASSUME NEW s, IsSeq(s), NEW x
    PROVE  LET t == Append(s, x)
           IN /\ IsSeq(t) /\ Len(s) \in Nat /\ Len(t) = Len(s) + 1 /\ DOMAIN s = 1 .. Len(s)
              /\ DOMAIN t = 1 .. Len(s) + 1
              /\ t[Len(s) + 1] = x /\ \A i \in DOMAIN s : t[i] = s[i]
<1>. PICK S : s \in Seq(S)
  BY DEF IsSeq
<1>. DEFINE T == S \cup {x}
<1>1. s \in Seq(T) /\ x \in T
  OBVIOUS
<1>. HIDE DEF T
<1>2. Append(s, x) \in Seq(T)
  BY <1>1
<1>. QED  BY <1>1, <1>2 DEF IsSeq

LEMMA Replaced ==
    ASSUME NEW s, IsSeq(s), NEW i \in DOMAIN s, NEW x
    PROVE  LET t == [s EXCEPT ![i] = x]
           IN /\ IsSeq(t) /\ Len(t) = Len(s) /\ DOMAIN t = DOMAIN s /\ t[i] = x
              /\ \A j \in DOMAIN s \ {i} : t[j] = s[j]
<1>. PICK S : s \in Seq(S)
  BY DEF IsSeq
<1>. DEFINE T == S \cup {x}
<1>1. s \in Seq(T) /\ x \in T
  OBVIOUS
<1>. HIDE DEF T
<1>2. [s EXCEPT ![i] = x] \in Seq(T)
  BY <1>1
<1>. QED  BY <1>1, <1>2 DEF IsSeq

\* What a shell of the service is.
ShellStates == {"live", "disconnected", "deleted"}

ShellSound(ss, i) ==
    /\ DOMAIN ss[i] = {"id", "uri", "life", "by"} /\ ss[i].uri \in {CMD, PSRP} /\ ss[i].life \in ShellStates
    /\ \/ ss[i].id \in Named(ProposedIds)
       \/ i \in DOMAIN ShellIds /\ ss[i].id = Plain(ShellIds[i])

\* What a command of the service is.
CommandSound(cs, i) ==
    /\ DOMAIN cs[i] = {"id", "shell", "cut", "line", "args", "input", "eof", "given", "signal"}
    /\ cs[i].shell \in ShellNames
    /\ cs[i].id = PipelineId \/ (i \in DOMAIN CommandIds /\ cs[i].id = Plain(CommandIds[i]))

\* What the service keeps: no two shells have an id in common.
Sound(ss, cs) ==
    /\ IsSeq(ss) /\ \A i \in DOMAIN ss : ShellSound(ss, i)
    /\ \A i, j \in DOMAIN ss : ss[i].id = ss[j].id => i = j
    /\ IsSeq(cs) /\ \A i \in DOMAIN cs : CommandSound(cs, i)

\* What a call is about is there.
ShellThere(ss, c) ==
    c.op \notin Creating \cup {"idle"} =>
        \E i \in DOMAIN ss : ss[i].id = c.shell /\ (c.api = "handle" => ss[i].uri = c.uri)
CommandThere(cs, c) ==
    c.op \in {"receive", "send", "ctrlC", "terminate"} /\ ~(c.op = "send" /\ c.command = Everything) =>
        \E i \in DOMAIN cs : cs[i].shell = c.shell /\ cs[i].id = c.command
InPlace(c) == WellAsked(c) /\ ShellThere(shells, c) /\ CommandThere(commands, c)

\* The service refuses a call, and has a reason to.
Refuses(c, o) == o.shells = shells /\ o.commands = commands /\ HasFault(o.doc) /\ Reason(c)

\* Every refusal changes nothing and is a fault.
LEMMA RefusalIs ==
    ASSUME NEW code, NEW o \in Refusal(code)
    PROVE  o.shells = shells /\ o.commands = commands /\ HasFault(o.doc)
  BY FaultIsFound DEF Refusal, Outcome

LEMMA OutcomeIs ==
    ASSUME NEW ss, NEW cs, NEW doc
    PROVE  LET o == Outcome(ss, cs, doc) IN o.shells = ss /\ o.commands = cs /\ o.doc = doc
  BY DEF Outcome

\* There is no shell a call may be about.
Unfit(c, lives) ==
    \/ ShellsOf(c, lives) = {}
    \/ StrictUri /\ SaysCmd(c) /\ \E i \in ShellsOf(c, lives) : shells[i].uri = PSRP

\* The shell of a call is the one its request addresses, or there is a reason
\* why the request addresses none.
LEMMA AddressedShell ==
    ASSUME Sound(shells, commands), NEW c, InPlace(c), c.op \notin Creating \cup {"idle"},
           NEW action, NEW r, Addresses(r, action, UriOf(c), c.shell), NEW lives
    PROVE  /\ \A i \in Addressed(r, lives) :
                 i \in DOMAIN shells /\ shells[i].id = c.shell /\ shells[i].life \in lives
           /\ Addressed(r, lives) = {} => Unfit(c, lives)
<1>1. Read(r.header.selector) = <<c.shell>> /\ r.header.uri = UriOf(c)
  BY DEF Addresses
<1>2. \A x : <<x>> = <<c.shell>> => x = c.shell
  OBVIOUS
<1>3. \A i \in Addressed(r, lives) :
          i \in DOMAIN shells /\ shells[i].id = c.shell /\ shells[i].life \in lives
  BY <1>1, <1>2 DEF Addressed
<1>4. ASSUME Addressed(r, lives) = {}, ShellsOf(c, lives) # {}
      PROVE  StrictUri /\ SaysCmd(c) /\ \E i \in ShellsOf(c, lives) : shells[i].uri = PSRP
  <2>1. PICK i \in DOMAIN shells : shells[i].id = c.shell /\ shells[i].life \in lives
    BY <1>4 DEF ShellsOf
  <2>2. i \notin Addressed(r, lives)
    BY <1>4
  <2>3. StrictUri /\ shells[i].uri # UriOf(c)
    BY <1>1, <2>1, <2>2 DEF Addressed
  <2>4. shells[i].uri \in {CMD, PSRP}
    BY DEF Sound, ShellSound
  <2>5. PICK j \in DOMAIN shells : shells[j].id = c.shell /\ (c.api = "handle" => shells[j].uri = c.uri)
    BY DEF InPlace, ShellThere
  <2>6. i = j
    BY <2>1, <2>5 DEF Sound
  <2>7. SaysCmd(c)
    <3>1. c.api \in {"handle", "client"}
      BY DEF InPlace, WellAsked, IsCall
    <3>. QED  BY <2>3, <2>5, <2>6, <3>1 DEF UriOf, SaysCmd
  <2>. QED  BY <2>1, <2>3, <2>4, <2>7 DEF ShellsOf, UriOf
<1>. QED  BY <1>3, <1>4 DEF Unfit

\* A shell is created, with an id no other has.
Creates(c, number, o) ==
    \E id \in ShellNames :
        /\ o.shells = Append(shells, [id |-> id, uri |-> c.uri, life |-> "live", by |-> number])
        /\ o.commands = commands /\ o.doc = AnswerDoc("Shell", "ShellId", id)
        /\ \A i \in DOMAIN shells : shells[i].id # id
        /\ \/ id \in Named(ProposedIds)
           \/ Len(shells) + 1 \in DOMAIN ShellIds /\ id = Plain(ShellIds[Len(shells) + 1])

\* Which part of the service serves a readable request.
LEMMA ReadableIsServed ==
    ASSUME NEW r, Readable(r), NEW number
    PROVE  /\ r.header.action = "Create" => Served(r, number) = Created(r, number)
           /\ r.header.action = "Delete" => Served(r, number) = Moved(r, {"live", "disconnected"}, "deleted")
           /\ r.header.action = "Disconnect" => Served(r, number) = Disconnected(r)
           /\ r.header.action = "Reconnect" => Served(r, number) = Moved(r, {"disconnected"}, "live")
           /\ r.header.action = "Command" => Served(r, number) = Started(r)
           /\ r.header.action = "Receive" => Served(r, number) = Output(r)
           /\ r.header.action = "Send" => Served(r, number) = Supplied(r)
           /\ r.header.action = "Signal" => Served(r, number) = Signalled(r)
  BY DEF Served

\* An id the service gives is one it has not given yet.
LEMMA FreshId ==
    ASSUME Sound(shells, commands), Len(shells) < Len(ShellIds)
    PROVE  LET id == Plain(ShellIds[Len(shells) + 1])
           IN /\ id \in ShellNames /\ Len(shells) + 1 \in DOMAIN ShellIds
              /\ \A i \in DOMAIN shells : shells[i].id # id
<1>. DEFINE n == Len(shells) + 1
            id == Plain(ShellIds[n])
<1>1. ShellIds \in Seq(STRING) /\ \A i, j \in DOMAIN ShellIds : ShellIds[i] = ShellIds[j] => i = j
  BY IdsAssumption
<1>2. Len(shells) \in Nat /\ DOMAIN shells = 1 .. Len(shells)
  BY Appended DEF Sound
<1>3. n \in DOMAIN ShellIds
  BY <1>1, <1>2
<1>4. id \in Named(ShellIds) /\ id \in ShellNames /\ id \notin Named(ProposedIds)
  BY <1>3, IdsAssumption DEF ShellNames, Named
<1>5. ASSUME NEW i \in DOMAIN shells, shells[i].id = id PROVE FALSE
  <2>1. i \in DOMAIN ShellIds /\ Plain(ShellIds[i]) = Plain(ShellIds[n])
    BY <1>4, <1>5 DEF Sound, ShellSound
  <2>2. ShellIds[i] = ShellIds[n]
    BY <2>1 DEF Plain
  <2>3. i = n
    BY <1>1, <1>3, <2>1, <2>2
  <2>. QED  BY <1>2, <2>3
<1>. QED  BY <1>3, <1>4, <1>5

\* A request to create a shell creates it, or is refused for a reason.
LEMMA CreationServed ==
    ASSUME Sound(shells, commands), NEW c, InPlace(c), c.op \in Creating, NEW number,
           NEW o \in Served(RequestOf(c), number)
    PROVE  Refuses(c, o) \/ Creates(c, number, o)
<1>. PICK r : r = RequestOf(c)
  OBVIOUS
<1>1. /\ Readable(r) /\ r.header.action = "Create" /\ r.header.uri = c.uri
      /\ "shell" \in DOMAIN r.texts <=> c.op = "openPsrp"
      /\ c.op = "openPsrp" => Read(r.texts.shell)[1] = c.shell
  BY CreationRequests DEF InPlace
<1>2. o \in Created(r, number)
  BY <1>1, ReadableIsServed
<1>. DEFINE proposed == c.op = "openPsrp"
<1>. PICK id : id = IF proposed THEN c.shell ELSE Plain(ShellIds[Len(shells) + 1])
  OBVIOUS
<1>3. Created(r, number) =
        IF ~proposed /\ Len(shells) >= Len(ShellIds) THEN {}
        ELSE IF \E i \in DOMAIN shells : shells[i].id = id THEN Refusal("AlreadyExists")
        ELSE {Outcome(Append(shells, [id |-> id, uri |-> c.uri, life |-> "live", by |-> number]),
                      commands, AnswerDoc("Shell", "ShellId", id))}
  BY <1>1 DEF Created, AnswerDoc
<1>4. ~(~proposed /\ Len(shells) >= Len(ShellIds))
  BY <1>2, <1>3
<1>5. Len(shells) \in Nat /\ Len(ShellIds) \in Nat
  BY Appended, IdsAssumption DEF Sound
<1>6. CASE \E i \in DOMAIN shells : shells[i].id = id
  <2>1. proposed
    BY <1>4, <1>5, <1>6, FreshId
  <2>2. Reason(c)
    BY <1>6, <2>1 DEF Reason
  <2>. QED  BY <1>2, <1>3, <1>4, <1>6, <2>2, RefusalIs DEF Refuses
<1>7. CASE ~ \E i \in DOMAIN shells : shells[i].id = id
  <2>1. /\ id \in ShellNames
        /\ \/ id \in Named(ProposedIds)
           \/ Len(shells) + 1 \in DOMAIN ShellIds /\ id = Plain(ShellIds[Len(shells) + 1])
    BY <1>4, <1>5, FreshId DEF InPlace, WellAsked, ShellNames
  <2>2. o = Outcome(Append(shells, [id |-> id, uri |-> c.uri, life |-> "live", by |-> number]),
                    commands, AnswerDoc("Shell", "ShellId", id))
    BY <1>2, <1>3, <1>4, <1>7
  <2>3. /\ o.shells = Append(shells, [id |-> id, uri |-> c.uri, life |-> "live", by |-> number])
        /\ o.commands = commands /\ o.doc = AnswerDoc("Shell", "ShellId", id)
    <3>. PICK ss : ss = Append(shells, [id |-> id, uri |-> c.uri, life |-> "live", by |-> number])
      OBVIOUS
    <3>. PICK doc : doc = AnswerDoc("Shell", "ShellId", id)
      OBVIOUS
    <3>1. o = Outcome(ss, commands, doc)
      BY <2>2
    <3>2. o.shells = ss /\ o.commands = commands /\ o.doc = doc
      BY ONLY <3>1, OutcomeIs
    <3>. QED  BY <3>2
  <2>. QED  BY <1>7, <2>1, <2>3 DEF Creates
<1>. QED  BY <1>6, <1>7

-----------------------------------------------------------------------------
(* Shells that are closed, disconnected or reconnected, and commands started.  *)

\* What becomes of the shell.
LifeAfter(op) == IF op = "disconnect" THEN "disconnected" ELSE IF op = "reconnect" THEN "live" ELSE "deleted"

\* A shell goes from one state to another.
Moves(c, o) ==
    \E i \in DOMAIN shells :
        /\ shells[i].id = c.shell /\ shells[i].life \in Fitting(c.op)
        /\ o.shells = [shells EXCEPT ![i].life = LifeAfter(c.op)]
        /\ o.commands = commands /\ ~HasFault(o.doc)

\* A request about a shell moves that shell, or is refused for a reason.
LEMMA LifeServed ==
    ASSUME Sound(shells, commands), NEW c, InPlace(c),
           c.op \in {"close", "delete", "disconnect", "reconnect"}, NEW number,
           NEW o \in Served(RequestOf(c), number)
    PROVE  Refuses(c, o) \/ Moves(c, o)
<1>. PICK r : r = RequestOf(c)
  OBVIOUS
<1>. DEFINE lives == Fitting(c.op)
            to == LifeAfter(c.op)
<1>1. Addresses(r, ActionOf(c), UriOf(c), c.shell) /\ c.op \notin Creating \cup {"idle"}
  BY LifeRequest DEF InPlace, Creating
<1>2. /\ \A i \in Addressed(r, lives) :
            i \in DOMAIN shells /\ shells[i].id = c.shell /\ shells[i].life \in lives
      /\ Addressed(r, lives) = {} => Reason(c)
  <2>. HIDE DEF lives
  <2>1. /\ \A i \in Addressed(r, lives) :
              i \in DOMAIN shells /\ shells[i].id = c.shell /\ shells[i].life \in lives
        /\ Addressed(r, lives) = {} => Unfit(c, lives)
    BY <1>1, AddressedShell
  <2>. QED  BY <1>1, <2>1 DEF Reason, Unfit, lives
<1>3. \/ o \in Moved(r, lives, to)
      \/ c.op = "disconnect" /\ c.uri = CMD /\ o \in Refusal("Unsupported")
  <2>1. CASE c.op \in {"close", "delete"}
    <3>1. Readable(r) /\ r.header.action = "Delete"
      BY <1>1, <2>1 DEF Addresses, ActionOf, Creating
    <3>2. lives = {"live", "disconnected"} /\ to = "deleted"
      BY <2>1 DEF Fitting, LifeAfter
    <3>. QED  BY <3>1, <3>2, ReadableIsServed
  <2>2. CASE c.op = "disconnect"
    <3>1. Readable(r) /\ r.header.action = "Disconnect" /\ r.header.uri = c.uri
      BY <1>1, <2>2 DEF Addresses, ActionOf, Creating, UriOf, SaysCmd, Consuming, InPlace, WellAsked
    <3>2. lives = {"live"} /\ to = "disconnected"
      BY <2>2 DEF Fitting, LifeAfter
    <3>. QED  BY <2>2, <3>1, <3>2, ReadableIsServed DEF Disconnected
  <2>3. CASE c.op = "reconnect"
    <3>1. Readable(r) /\ r.header.action = "Reconnect"
      BY <1>1, <2>3 DEF Addresses, ActionOf, Creating
    <3>2. lives = {"disconnected"} /\ to = "live"
      BY <2>3 DEF Fitting, LifeAfter
    <3>. QED  BY <3>1, <3>2, ReadableIsServed
  <2>. QED  BY <2>1, <2>2, <2>3
<1>. HIDE DEF lives, to
<1>4. CASE c.op = "disconnect" /\ c.uri = CMD /\ o \in Refusal("Unsupported")
  BY <1>4, RefusalIs DEF Refuses, Reason, Creating
<1>5. CASE o \in Moved(r, lives, to) /\ Addressed(r, lives) = {}
  <2>1. o \in Refusal("InvalidSelectors")
    BY <1>5 DEF Moved
  <2>. QED  BY <1>2, <1>5, <2>1, RefusalIs DEF Refuses
<1>6. CASE o \in Moved(r, lives, to) /\ Addressed(r, lives) # {}
  <2>. PICK i : i = CHOOSE j \in Addressed(r, lives) : TRUE
    OBVIOUS
  <2>1. i \in Addressed(r, lives)
    BY <1>6
  <2>2. o = Outcome([shells EXCEPT ![i].life = to], commands, Response(<<>>))
    BY <1>6 DEF Moved
  <2>3. /\ o.shells = [shells EXCEPT ![i].life = to] /\ o.commands = commands
        /\ ~HasFault(o.doc)
    BY <2>2, OutcomeIs, EmptyIsNoFault
  <2>. QED  BY <1>2, <2>1, <2>3 DEF Moves, lives, to
<1>. QED  BY <1>3, <1>4, <1>5, <1>6

\* A command is started, with the line and the arguments that were asked for.
Starts(c, o) ==
    \E id \in CommandNames : \E x :
        /\ o.shells = shells /\ o.commands = Append(commands, x)
        /\ DOMAIN x = {"id", "shell", "cut", "line", "args", "input", "eof", "given", "signal"}
        /\ x.id = id /\ x.shell = c.shell /\ x.line = <<Line>> /\ x.args = Args
        /\ x.input = <<>> /\ x.eof = FALSE /\ \A i \in DOMAIN commands : commands[i].id # id
        /\ c.command # None => id = c.command
        /\ id = PipelineId \/ (Len(commands) + 1 \in DOMAIN CommandIds
                                /\ id = Plain(CommandIds[Len(commands) + 1]))
        /\ o.doc = AnswerDoc("CommandResponse", "CommandId", id)

\* The id of a command is a new one.
LEMMA FreshCommandId ==
    ASSUME Sound(shells, commands), Len(commands) < Len(CommandIds)
    PROVE  LET id == Plain(CommandIds[Len(commands) + 1])
           IN /\ id \in CommandNames /\ Len(commands) + 1 \in DOMAIN CommandIds
              /\ \A i \in DOMAIN commands : commands[i].id # id
<1>. DEFINE n == Len(commands) + 1
            id == Plain(CommandIds[n])
<1>1. CommandIds \in Seq(STRING) /\ \A i, j \in DOMAIN CommandIds : CommandIds[i] = CommandIds[j] => i = j
  BY IdsAssumption
<1>2. Len(commands) \in Nat /\ DOMAIN commands = 1 .. Len(commands)
  BY Appended DEF Sound
<1>3. n \in DOMAIN CommandIds
  BY <1>1, <1>2
<1>4. id \in Named(CommandIds) /\ id \in CommandNames /\ id # PipelineId
  BY <1>3, IdsAssumption DEF CommandNames, Named
<1>5. ASSUME NEW i \in DOMAIN commands, commands[i].id = id PROVE FALSE
  <2>1. i \in DOMAIN CommandIds /\ Plain(CommandIds[i]) = Plain(CommandIds[n])
    BY <1>4, <1>5 DEF Sound, CommandSound
  <2>2. CommandIds[i] = CommandIds[n]
    BY <2>1 DEF Plain
  <2>3. i = n
    BY <1>1, <1>3, <2>1, <2>2
  <2>. QED  BY <1>2, <2>3
<1>. QED  BY <1>3, <1>4, <1>5

\* A request to start a command starts it, or is refused for a reason.
LEMMA StartServed ==
    ASSUME Sound(shells, commands), NEW c, InPlace(c), c.op = "start", NEW number,
           NEW o \in Served(RequestOf(c), number)
    PROVE  Refuses(c, o) \/ Starts(c, o)
<1>. PICK r : r = RequestOf(c)
  OBVIOUS
<1>1. /\ Addresses(r, "Command", UriOf(c), c.shell)
      /\ r.texts.command # <<>> <=> c.command # None
      /\ c.command # None => Read(r.texts.command)[1] = c.command
      /\ Read(r.texts.line) = <<Line>> /\ Read(r.texts.args) = Args
  BY StartRequest DEF InPlace
<1>2. c.op \notin Creating \cup {"idle"} /\ Fitting(c.op) = {"live"}
  BY DEF Creating, Fitting
<1>3. Addressed(r, {"live"}) = {} => Reason(c)
  <2>. PICK lives : lives = Fitting(c.op)
    OBVIOUS
  <2>1. Addressed(r, lives) = {} => Unfit(c, lives)
    BY <1>1, <1>2, AddressedShell, ZenonT(60)
  <2>. QED  BY <1>2, <2>1 DEF Reason, Unfit
<1>4. o \in Started(r)
  BY <1>1, ReadableIsServed DEF Addresses
<1>. PICK id : id = IF c.command # None THEN c.command ELSE Plain(CommandIds[Len(commands) + 1])
  OBVIOUS
<1>. DEFINE x == [id |-> id, shell |-> c.shell, cut |-> FALSE, line |-> <<Line>>,
                  args |-> Args, input |-> <<>>, eof |-> FALSE, given |-> 0, signal |-> "none"]
<1>5. Started(r) =
        IF Addressed(r, {"live"}) = {} THEN Refusal("InvalidSelectors")
        ELSE IF c.command = None /\ Len(commands) >= Len(CommandIds) THEN {}
        ELSE IF \E i \in DOMAIN commands : commands[i].id = id THEN Refusal("InvalidSelectors")
        ELSE {Outcome(shells, Append(commands, x), AnswerDoc("CommandResponse", "CommandId", id))}
  <2>1. Read(r.header.selector)[1] = c.shell
    BY <1>1 DEF Addresses
  <2>. QED  BY <1>1, <2>1 DEF Started, AnswerDoc
<1>. HIDE DEF x
<1>6. Len(commands) \in Nat /\ Len(CommandIds) \in Nat
  BY Appended, IdsAssumption DEF Sound
<1>7. CASE Addressed(r, {"live"}) = {}
  BY <1>3, <1>4, <1>5, <1>7, RefusalIs DEF Refuses
<1>8. CASE Addressed(r, {"live"}) # {}
  <2>1. ~(c.command = None /\ Len(commands) >= Len(CommandIds))
    BY <1>4, <1>5, <1>8
  <2>2. CASE \E i \in DOMAIN commands : commands[i].id = id
    <3>1. id = c.command
      BY <1>6, <2>1, <2>2, FreshCommandId
    <3>2. Reason(c)
      BY <1>2, <2>2, <3>1 DEF Reason
    <3>. QED  BY <1>4, <1>5, <1>8, <2>1, <2>2, <3>2, RefusalIs DEF Refuses
  <2>3. CASE ~ \E i \in DOMAIN commands : commands[i].id = id
    <3>1. c.command \in {None, PipelineId} /\ PipelineId \in CommandNames
      BY DEF InPlace, WellAsked, CommandNames
    <3>2. /\ id \in CommandNames /\ (c.command # None => id = c.command)
          /\ id = PipelineId \/ (Len(commands) + 1 \in DOMAIN CommandIds
                                  /\ id = Plain(CommandIds[Len(commands) + 1]))
      BY <1>6, <2>1, <3>1, FreshCommandId
    <3>3. o = Outcome(shells, Append(commands, x), AnswerDoc("CommandResponse", "CommandId", id))
      BY <1>4, <1>5, <1>8, <2>1, <2>3
    <3>4. /\ o.shells = shells /\ o.commands = Append(commands, x)
          /\ o.doc = AnswerDoc("CommandResponse", "CommandId", id)
      <4>. PICK cs : cs = Append(commands, x)
        OBVIOUS
      <4>. PICK doc : doc = AnswerDoc("CommandResponse", "CommandId", id)
        OBVIOUS
      <4>1. o = Outcome(shells, cs, doc)
        BY <3>3
      <4>2. o.shells = shells /\ o.commands = cs /\ o.doc = doc
        BY ONLY <4>1, OutcomeIs
      <4>. QED  BY <4>2
    <3>5. /\ DOMAIN x = {"id", "shell", "cut", "line", "args", "input", "eof", "given", "signal"}
          /\ x.id = id /\ x.shell = c.shell /\ x.line = <<Line>> /\ x.args = Args
          /\ x.input = <<>> /\ x.eof = FALSE
      BY DEF x
    <3>. QED  BY <2>3, <3>2, <3>4, <3>5 DEF Starts
  <2>. QED  BY <2>2, <2>3
<1>. QED  BY <1>7, <1>8

-----------------------------------------------------------------------------
(* Commands that are read from, written to or signalled.                     *)

\* A command is still the one it was.
SameCommand(x, y) ==
    /\ DOMAIN x = DOMAIN y /\ x.id = y.id /\ x.shell = y.shell /\ x.line = y.line /\ x.args = y.args
    /\ y.signal # "none" => x.signal # "none"

\* The signals: of ctrl-C and of terminate.
Signalling == {"ctrlC", "terminate"}

\* A command takes the piece of a call, another keeps its input.
Supplies(c, x, y) ==
    IF c.op = "send"
    THEN /\ y.shell = c.shell /\ y.id = c.command
         /\ x.input = Append(y.input, c.data) /\ x.eof = (y.eof \/ c.end)
    ELSE x.input = y.input /\ x.eof = y.eof

\* At most one command is another than before: signalled when that was asked for,
\* supplied when that was.
Touches(c, o) ==
    /\ o.shells = shells /\ (HasFault(o.doc) => Reason(c))
    /\ \/ /\ o.commands = commands /\ c.op \notin Signalling
          /\ c.op = "send" => c.command = Everything
       \/ \E i \in DOMAIN commands : \E x :
             /\ o.commands = [commands EXCEPT ![i] = x] /\ SameCommand(x, commands[i])
             /\ Supplies(c, x, commands[i])
             /\ c.op \in Signalling =>
                   commands[i].shell = c.shell /\ commands[i].id = c.command /\ x.signal # "none"

\* A request that names a command reaches no other.
LEMMA RunningCommand ==
    ASSUME Sound(shells, commands), NEW c, InPlace(c),
           c.op \in {"receive", "send", "ctrlC", "terminate"},
           ~(c.op = "send" /\ c.command = Everything),
           NEW action, NEW r, Addresses(r, action, UriOf(c), c.shell),
           Read(r.texts.command) = <<c.command>>
    PROVE  /\ \A i \in Running(r) :
                 i \in DOMAIN commands /\ commands[i].shell = c.shell /\ commands[i].id = c.command
           /\ Running(r) = {} => Reason(c)
<1>1. Read(r.header.selector) = <<c.shell>>
  BY DEF Addresses
<1>2. \A x, y : <<x>> = <<y>> => x = y
  OBVIOUS
<1>3. \A i \in Running(r) :
          i \in DOMAIN commands /\ commands[i].shell = c.shell /\ commands[i].id = c.command
  BY <1>1, <1>2 DEF Running
<1>4. ASSUME Running(r) = {} PROVE Reason(c)
  <2>1. PICK i \in DOMAIN commands : commands[i].shell = c.shell /\ commands[i].id = c.command
    BY DEF InPlace, CommandThere
  <2>2. Addressed(r, {"live"}) = {}
    <3>1. i \notin Running(r)
      BY <1>4
    <3>. QED  BY <1>1, <2>1, <3>1 DEF Running
  <2>3. c.op \notin Creating \cup {"idle"} /\ Fitting(c.op) = {"live"}
    BY DEF Creating, Fitting
  <2>. PICK lives : lives = Fitting(c.op)
    OBVIOUS
  <2>4. Addressed(r, lives) = {} => Unfit(c, lives)
    BY <2>3, AddressedShell
  <2>. QED  BY <2>2, <2>3, <2>4 DEF Reason, Unfit
<1>. QED  BY <1>3, <1>4

LEMMA RefusalTouches ==
    ASSUME NEW code, NEW c, NEW o \in Refusal(code), Reason(c)
    PROVE  Refuses(c, o)
  BY RefusalIs DEF Refuses

\* An outcome that changes that command alone.
LEMMA CommandOutcome ==
    ASSUME NEW c, NEW doc, ~HasFault(doc), NEW i \in DOMAIN commands, NEW x, SameCommand(x, commands[i]),
           Supplies(c, x, commands[i]),
           NEW o, o = Outcome(shells, [commands EXCEPT ![i] = x], doc),
           c.op \in Signalling =>
               commands[i].shell = c.shell /\ commands[i].id = c.command /\ x.signal # "none"
    PROVE  Touches(c, o)
<1>. PICK cs : cs = [commands EXCEPT ![i] = x]
  OBVIOUS
<1>1. o = Outcome(shells, cs, doc)
  OBVIOUS
<1>2. o.shells = shells /\ o.commands = cs /\ o.doc = doc
  BY ONLY <1>1, OutcomeIs
<1>. QED  BY <1>2 DEF Touches

\* A signal reaches the command, or is refused for a reason.
LEMMA SignalServed ==
    ASSUME Sound(shells, commands), NEW c, InPlace(c), c.op \in Signalling, NEW number,
           NEW o \in Served(RequestOf(c), number)
    PROVE  Refuses(c, o) \/ Touches(c, o)
<1>. PICK r : r = RequestOf(c)
  OBVIOUS
<1>1. /\ Addresses(r, "Signal", UriOf(c), c.shell)
      /\ Read(r.texts.command) = <<c.command>> /\ r.values.code # "none"
  BY SignalRequestReads DEF InPlace, Signalling
<1>2. o \in Signalled(r)
  BY <1>1, ReadableIsServed DEF Addresses
<1>. DEFINE changed == [i \in DOMAIN commands |-> [commands[i] EXCEPT !.signal = r.values.code]]
<1>4. /\ \A i \in Running(r) :
                 i \in DOMAIN commands /\ commands[i].shell = c.shell /\ commands[i].id = c.command
      /\ Running(r) = {} => Reason(c)
  BY <1>1, RunningCommand DEF Signalling
<1>5. CASE Running(r) = {}
  <2>1. o \in Refusal("InvalidSelectors")
    BY <1>2, <1>5 DEF Signalled, OnCommand
  <2>. QED  BY <1>4, <1>5, <2>1, RefusalTouches
<1>6. CASE Running(r) # {}
  <2>. PICK i : i = CHOOSE j \in Running(r) : TRUE
    OBVIOUS
  <2>1. i \in Running(r)
    BY <1>6
  <2>2. o = Outcome(shells, [commands EXCEPT ![i] = changed[i]], Response(<<>>))
    BY <1>2, <1>6 DEF Signalled, OnCommand
  <2>. PICK x : x = changed[i]
    OBVIOUS
  <2>3. CommandSound(commands, i)
    BY <1>4, <2>1 DEF Sound
  <2>4. SameCommand(x, commands[i]) /\ x.signal # "none"
    BY <1>1, <1>4, <2>1, <2>3 DEF SameCommand, CommandSound
  <2>6. Supplies(c, x, commands[i])
    BY <1>4, <2>1, <2>3 DEF Supplies, Signalling, CommandSound
  <2>. PICK doc : doc = Response(<<>>)
    OBVIOUS
  <2>. HIDE DEF changed
  <2>5. o = Outcome(shells, [commands EXCEPT ![i] = x], doc) /\ ~HasFault(doc)
    BY <2>2, EmptyIsNoFault
  <2>. QED  BY <1>4, <2>1, <2>4, <2>5, <2>6, CommandOutcome
<1>. QED  BY <1>5, <1>6

\* Input reaches the command, or is refused for a reason.
LEMMA SendServed ==
    ASSUME Sound(shells, commands), NEW c, InPlace(c), c.op = "send", NEW number,
           NEW o \in Served(RequestOf(c), number)
    PROVE  Refuses(c, o) \/ Touches(c, o)
<1>. PICK r : r = RequestOf(c)
  OBVIOUS
<1>1. /\ Addresses(r, "Send", UriOf(c), c.shell)
      /\ \/ r.texts.command = <<>> /\ c.command = Everything
         \/ /\ r.texts.command # <<>> /\ Read(r.texts.command) = <<c.command>>
            /\ r.values.end = c.end /\ r.values.data = c.data /\ c.command # Everything
  BY SendRequest DEF InPlace
<1>2. o \in Supplied(r)
  BY <1>1, ReadableIsServed DEF Addresses
<1>3. c.op \notin Creating \cup {"idle"} /\ Fitting(c.op) = {"live"} /\ c.op \notin Signalling
  BY DEF Creating, Fitting, Signalling
<1>4. CASE r.texts.command = <<>>
  <2>1. CASE Addressed(r, {"live"}) = {}
    <3>1. o \in Refusal("InvalidSelectors")
      BY <1>2, <1>4, <2>1 DEF Supplied
    <3>. PICK lives : lives = Fitting(c.op)
      OBVIOUS
    <3>2. Addressed(r, lives) = {} => Unfit(c, lives)
      BY <1>1, <1>3, AddressedShell, ZenonT(60)
    <3>3. Reason(c)
      BY <1>3, <2>1, <3>2 DEF Reason, Unfit
    <3>. QED  BY <3>1, <3>3, RefusalTouches
  <2>2. CASE Addressed(r, {"live"}) # {}
    <3>1. o = Outcome(shells, commands, Response(<<>>))
      BY <1>2, <1>4, <2>2 DEF Supplied
    <3>2. o.shells = shells /\ o.commands = commands /\ ~HasFault(o.doc)
      BY <3>1, OutcomeIs, EmptyIsNoFault
    <3>. QED  BY <1>1, <1>3, <1>4, <3>2 DEF Touches
  <2>. QED  BY <2>1, <2>2
<1>5. CASE r.texts.command # <<>>
  <2>. DEFINE changed == [i \in DOMAIN commands |->
                [commands[i] EXCEPT !.input = Append(@, r.values.data), !.eof = @ \/ r.values.end]]
  <2>1. o \in OnCommand(r, changed)
    BY <1>2, <1>5 DEF Supplied
  <2>2. /\ \A i \in Running(r) :
               i \in DOMAIN commands /\ commands[i].shell = c.shell /\ commands[i].id = c.command
        /\ Running(r) = {} => Reason(c)
    BY <1>1, <1>5, RunningCommand
  <2>3. CASE Running(r) = {}
    <3>1. o \in Refusal("InvalidSelectors")
      BY <2>1, <2>3 DEF OnCommand
    <3>. QED  BY <2>2, <2>3, <3>1, RefusalTouches
  <2>4. CASE Running(r) # {}
    <3>. PICK i : i = CHOOSE j \in Running(r) : TRUE
      OBVIOUS
    <3>1. i \in Running(r) /\ i \in DOMAIN commands
      BY <2>2, <2>4
    <3>. PICK x : x = changed[i]
      OBVIOUS
    <3>2. o = Outcome(shells, [commands EXCEPT ![i] = x], Response(<<>>))
      BY <2>1, <2>4 DEF OnCommand
    <3>3. CommandSound(commands, i)
      BY <3>1 DEF Sound
    <3>4. SameCommand(x, commands[i])
      BY <3>1, <3>3 DEF SameCommand, CommandSound
    <3>6. Supplies(c, x, commands[i])
      <4>1. x.input = Append(commands[i].input, r.values.data) /\ x.eof = (commands[i].eof \/ r.values.end)
        BY <3>1, <3>3 DEF CommandSound
      <4>2. r.values.end = c.end /\ r.values.data = c.data
        BY <1>1, <1>5
      <4>3. commands[i].shell = c.shell /\ commands[i].id = c.command
        BY <2>2, <3>1
      <4>4. c.op = "send"
        OBVIOUS
      <4>5. x.input = Append(commands[i].input, c.data)
        BY <4>1, <4>2
      <4>6. x.eof = (commands[i].eof \/ c.end)
        BY ONLY <4>1, <4>2
      <4>. QED  BY <4>3, <4>4, <4>5, <4>6, Zenon DEF Supplies
    <3>. PICK doc : doc = Response(<<>>)
      OBVIOUS
    <3>. HIDE DEF changed
    <3>5. o = Outcome(shells, [commands EXCEPT ![i] = x], doc) /\ ~HasFault(doc)
      BY <3>2, EmptyIsNoFault
    <3>. QED  BY <1>3, <3>1, <3>4, <3>5, <3>6, CommandOutcome
  <2>. QED  BY <2>3, <2>4
<1>. QED  BY <1>4, <1>5

\* Output is taken from the command, or is refused for a reason.
LEMMA ReceiveServed ==
    ASSUME Sound(shells, commands), NEW c, InPlace(c), c.op = "receive", NEW number,
           NEW o \in Served(RequestOf(c), number)
    PROVE  Refuses(c, o) \/ Touches(c, o)
<1>. PICK r : r = RequestOf(c)
  OBVIOUS
<1>1. Addresses(r, "Receive", UriOf(c), c.shell)
  BY ReceiveRequest DEF InPlace
<1>2. o \in Output(r)
  BY <1>1, ReadableIsServed DEF Addresses
<1>3. Reason(c) /\ c.op \notin Signalling
  BY DEF Creating, Reason, Signalling
<1>4. CASE \E code : o \in Refusal(code)
  BY <1>3, <1>4, RefusalTouches
<1>5. CASE ~ \E code : o \in Refusal(code)
  <2>1. Running(r) # {}
    BY <1>2, <1>5 DEF Output
  <2>. PICK i : i = CHOOSE j \in Running(r) : TRUE
    OBVIOUS
  <2>2. i \in DOMAIN commands
    BY <2>1 DEF Running
  <2>3. PICK k, n : o = Outcome(shells, [commands EXCEPT ![i].given = k, ![i].cut = @ \/ n = 2 \/ k = 2],
                                OutputDoc(n, k))
    BY <1>2, <1>5 DEF Output
  <2>9. PICK cs : cs = [commands EXCEPT ![i].given = k, ![i].cut = @ \/ n = 2 \/ k = 2]
    OBVIOUS
  <2>. PICK doc : doc = OutputDoc(n, k)
    OBVIOUS
  <2>4. o = Outcome(shells, cs, doc)
    BY <2>3, <2>9
  <2>5. o.shells = shells /\ o.commands = cs
    BY ONLY <2>4, OutcomeIs
  <2>6. CommandSound(commands, i)
    BY <2>2 DEF Sound
  <2>7. cs = [commands EXCEPT ![i] = cs[i]]
    <3>. PICK v : v = (commands[i].cut \/ n = 2 \/ k = 2)
      OBVIOUS
    <3>1. cs = [commands EXCEPT ![i].given = k, ![i].cut = v]
      BY <2>2, <2>6, <2>9 DEF CommandSound
    <3>. QED  BY <2>2, <2>9, <3>1
  <2>8. SameCommand(cs[i], commands[i]) /\ Supplies(c, cs[i], commands[i])
    BY <2>2, <2>6, <2>9 DEF SameCommand, Supplies, CommandSound
  <2>. QED  BY <1>3, <2>2, <2>5, <2>7, <2>8 DEF Touches
<1>. QED  BY <1>4, <1>5

-----------------------------------------------------------------------------
(* Whatever is served, the service forgets nothing.                          *)

\* The operations that move a shell from one state to another.
Moving == {"close", "delete", "disconnect", "reconnect"}

\* What serving a call comes to.
LEMMA ServedIs ==
    ASSUME Sound(shells, commands), NEW c, InPlace(c), c.op # "idle", NEW number,
           NEW o \in Served(RequestOf(c), number)
    PROVE  \/ Refuses(c, o)
           \/ c.op \in Creating /\ Creates(c, number, o)
           \/ c.op \in Moving /\ Moves(c, o)
           \/ c.op = "start" /\ Starts(c, o)
           \/ c.op \in {"receive", "send", "ctrlC", "terminate"} /\ Touches(c, o)
<1>1. c.op \in Ops
  BY DEF InPlace, WellAsked, IsCall
<1>2. CASE c.op \in Creating
  BY <1>2, CreationServed
<1>3. CASE c.op \in Moving
  BY <1>3, LifeServed DEF Moving
<1>4. CASE c.op = "start"
  BY <1>4, StartServed
<1>5. CASE c.op = "receive"
  BY <1>5, ReceiveServed
<1>6. CASE c.op = "send"
  BY <1>6, SendServed
<1>7. CASE c.op \in Signalling
  BY <1>7, SignalServed DEF Signalling
<1>. QED  BY <1>1, <1>2, <1>3, <1>4, <1>5, <1>6, <1>7
          DEF Ops, Consuming, Borrowing, Moving, Signalling

\* The service forgets nothing, and brings no deleted shell back.
ShellsGrow(ss, tt) ==
    /\ DOMAIN ss \subseteq DOMAIN tt
    /\ \A i \in DOMAIN ss : /\ tt[i].id = ss[i].id /\ tt[i].uri = ss[i].uri /\ tt[i].by = ss[i].by
                            /\ ss[i].life = "deleted" => tt[i].life = "deleted"
CommandsGrow(cs, ds) ==
    DOMAIN cs \subseteq DOMAIN ds /\ \A i \in DOMAIN cs : SameCommand(ds[i], cs[i])

LEMMA Unchanged == ShellsGrow(shells, shells) /\ CommandsGrow(commands, commands)
  BY DEF ShellsGrow, CommandsGrow, SameCommand

\* Each change of the service is growth.
LEMMA ShellChanged ==
    ASSUME Sound(shells, commands), NEW i \in DOMAIN shells, NEW life \in ShellStates,
           shells[i].life # "deleted", NEW tt, tt = [shells EXCEPT ![i].life = life]
    PROVE  /\ Sound(tt, commands) /\ ShellsGrow(shells, tt) /\ DOMAIN tt = DOMAIN shells
           /\ Len(tt) = Len(shells) /\ tt[i].life = life
<1>0. PICK x : x = [shells[i] EXCEPT !.life = life]
  OBVIOUS
<1>1. ShellSound(shells, i) /\ IsSeq(shells) /\ i \in DOMAIN shells
  BY DEF Sound
<1>2. tt = [shells EXCEPT ![i] = x]
  BY <1>0
<1>3. /\ IsSeq(tt) /\ Len(tt) = Len(shells) /\ DOMAIN tt = DOMAIN shells /\ tt[i] = x
      /\ \A j \in DOMAIN shells \ {i} : tt[j] = shells[j]
  BY ONLY <1>1, <1>2, Replaced
<1>4. /\ DOMAIN x = {"id", "uri", "life", "by"} /\ x.id = shells[i].id /\ x.uri = shells[i].uri
      /\ x.by = shells[i].by /\ x.life = life
  BY <1>0, <1>1 DEF ShellSound
<1>5. \A j \in DOMAIN tt : ShellSound(tt, j)
  <2>. TAKE j \in DOMAIN tt
  <2>1. ShellSound(shells, j)
    BY <1>3 DEF Sound
  <2>2. tt[j] = shells[j] \/ (tt[j] = x /\ j = i)
    BY <1>3
  <2>. QED  BY <1>4, <2>1, <2>2 DEF ShellSound
<1>6. \A j \in DOMAIN shells : /\ tt[j].id = shells[j].id /\ tt[j].uri = shells[j].uri
                               /\ tt[j].by = shells[j].by
                               /\ shells[j].life = "deleted" => tt[j].life = "deleted"
  BY <1>3, <1>4
<1>7. \A k, j \in DOMAIN tt : tt[k].id = tt[j].id => k = j
  BY <1>3, <1>6 DEF Sound
<1>8. Sound(tt, commands)
  BY <1>3, <1>5, <1>7 DEF Sound
<1>9. ShellsGrow(shells, tt)
  BY <1>3, <1>6 DEF ShellsGrow
<1>. QED  BY <1>3, <1>4, <1>8, <1>9

LEMMA ShellAdded ==
    ASSUME Sound(shells, commands), NEW x, DOMAIN x = {"id", "uri", "life", "by"},
           x.uri \in {CMD, PSRP}, x.life \in ShellStates, \A i \in DOMAIN shells : shells[i].id # x.id,
           \/ x.id \in Named(ProposedIds)
           \/ Len(shells) + 1 \in DOMAIN ShellIds /\ x.id = Plain(ShellIds[Len(shells) + 1]),
           NEW tt, tt = Append(shells, x)
    PROVE  /\ Sound(tt, commands) /\ ShellsGrow(shells, tt)
           /\ Len(shells) \in Nat /\ Len(tt) = Len(shells) + 1 /\ Len(tt) \in DOMAIN tt
           /\ tt[Len(tt)] = x
           /\ DOMAIN tt = DOMAIN shells \cup {Len(tt)} /\ Len(tt) \notin DOMAIN shells
           /\ \A i \in DOMAIN shells : tt[i] = shells[i]
<1>. DEFINE n == Len(shells) + 1
<1>0. IsSeq(shells)
  BY DEF Sound
<1>1. /\ IsSeq(tt) /\ Len(shells) \in Nat /\ Len(tt) = n /\ DOMAIN shells = 1 .. Len(shells)
      /\ DOMAIN tt = 1 .. n /\ tt[n] = x /\ \A i \in DOMAIN shells : tt[i] = shells[i]
  BY <1>0, Appended
<1>2. DOMAIN tt = DOMAIN shells \cup {n} /\ n \notin DOMAIN shells
  BY <1>1
<1>. HIDE DEF n
<1>3. \A j \in DOMAIN tt : ShellSound(tt, j)
  <2>. TAKE j \in DOMAIN tt
  <2>1. CASE j = n
    BY <1>1, <2>1 DEF ShellSound, n
  <2>2. CASE j \in DOMAIN shells
    <3>1. tt[j] = shells[j] /\ ShellSound(shells, j)
      BY <1>1, <2>2 DEF Sound
    <3>. QED  BY <3>1 DEF ShellSound
  <2>. QED  BY <1>2, <2>1, <2>2
<1>4. \A k, j \in DOMAIN tt : tt[k].id = tt[j].id => k = j
  BY <1>1, <1>2 DEF Sound
<1>5. Sound(tt, commands)
  BY <1>1, <1>3, <1>4 DEF Sound
<1>6. ShellsGrow(shells, tt)
  BY <1>1, <1>2 DEF ShellsGrow
<1>. QED  BY <1>1, <1>2, <1>5, <1>6 DEF n

LEMMA CommandAdded ==
    ASSUME Sound(shells, commands), NEW x,
           DOMAIN x = {"id", "shell", "cut", "line", "args", "input", "eof", "given", "signal"},
           x.shell \in ShellNames,
           x.id = PipelineId \/ (Len(commands) + 1 \in DOMAIN CommandIds
                                  /\ x.id = Plain(CommandIds[Len(commands) + 1])),
           NEW tt, tt = Append(commands, x)
    PROVE  /\ Sound(shells, tt) /\ CommandsGrow(commands, tt)
           /\ Len(tt) \in DOMAIN tt /\ tt[Len(tt)] = x
<1>. DEFINE n == Len(commands) + 1
<1>0. IsSeq(commands)
  BY DEF Sound
<1>1. /\ IsSeq(tt) /\ Len(commands) \in Nat /\ Len(tt) = n /\ DOMAIN commands = 1 .. Len(commands)
      /\ DOMAIN tt = 1 .. n /\ tt[n] = x /\ \A i \in DOMAIN commands : tt[i] = commands[i]
  BY <1>0, Appended
<1>2. DOMAIN tt = DOMAIN commands \cup {n} /\ n \notin DOMAIN commands
  BY <1>1
<1>. HIDE DEF n
<1>3. \A j \in DOMAIN tt : CommandSound(tt, j)
  <2>. TAKE j \in DOMAIN tt
  <2>1. CASE j = n
    BY <1>1, <2>1 DEF CommandSound, n
  <2>2. CASE j \in DOMAIN commands
    <3>1. tt[j] = commands[j] /\ CommandSound(commands, j)
      BY <1>1, <2>2 DEF Sound
    <3>. QED  BY <3>1 DEF CommandSound
  <2>. QED  BY <1>2, <2>1, <2>2
<1>5. Sound(shells, tt)
  BY <1>1, <1>3 DEF Sound
<1>6. CommandsGrow(commands, tt)
  BY <1>1, <1>2 DEF CommandsGrow, SameCommand
<1>. QED  BY <1>1, <1>2, <1>5, <1>6

LEMMA CommandChanged ==
    ASSUME Sound(shells, commands), NEW i \in DOMAIN commands, NEW x, SameCommand(x, commands[i]),
           NEW tt, tt = [commands EXCEPT ![i] = x]
    PROVE  /\ Sound(shells, tt) /\ CommandsGrow(commands, tt) /\ i \in DOMAIN tt /\ tt[i] = x
<1>1. IsSeq(commands)
  BY DEF Sound
<1>2. /\ IsSeq(tt) /\ DOMAIN tt = DOMAIN commands /\ tt[i] = x
      /\ \A j \in DOMAIN commands \ {i} : tt[j] = commands[j]
  BY <1>1, Replaced
<1>3. \A j \in DOMAIN tt : CommandSound(tt, j)
  <2>. TAKE j \in DOMAIN tt
  <2>1. CommandSound(commands, j)
    BY <1>2 DEF Sound
  <2>2. tt[j] = commands[j] \/ (tt[j] = x /\ j = i)
    BY <1>2
  <2>. QED  BY <2>1, <2>2 DEF CommandSound, SameCommand
<1>4. Sound(shells, tt)
  BY <1>2, <1>3 DEF Sound
<1>5. CommandsGrow(commands, tt)
  BY <1>2 DEF CommandsGrow, SameCommand
<1>. QED  BY <1>2, <1>4, <1>5

-----------------------------------------------------------------------------
(* What an answer stands for, it goes on standing for.                       *)

\* What an answer that reports success stands for.
Fulfilled(c, doc, ss, cs) ==
    /\ c.op \in Creating =>
          \E i \in DOMAIN ss : ss[i].by = c.number /\ ss[i].uri = c.uri /\ ParseShellId(doc) = ss[i].id
    /\ c.op \in {"close", "delete"} =>
          \E i \in DOMAIN ss : ss[i].id = c.shell /\ ss[i].life = "deleted"
    /\ c.op = "start" =>
          \E i \in DOMAIN cs : /\ cs[i].shell = c.shell /\ cs[i].line = <<Line>> /\ cs[i].args = Args
                               /\ c.command # None => cs[i].id = c.command
                               /\ ParseCommandId(doc) = cs[i].id
    /\ c.op \in Signalling =>
          \E i \in DOMAIN cs : /\ cs[i].shell = c.shell /\ cs[i].id = c.command
                               /\ cs[i].signal # "none"

\* What is there, and what an answer stands for, stays as the service goes on.
LEMMA GrowthKeeps ==
    ASSUME NEW ss, NEW tt, NEW cs, NEW ds, ShellsGrow(ss, tt), CommandsGrow(cs, ds), NEW c
    PROVE  /\ ShellThere(ss, c) => ShellThere(tt, c)
           /\ CommandThere(cs, c) => CommandThere(ds, c)
           /\ \A doc : Fulfilled(c, doc, ss, cs) => Fulfilled(c, doc, tt, ds)
<1>1. ShellThere(ss, c) => ShellThere(tt, c)
  BY DEF ShellThere, ShellsGrow
<1>2. CommandThere(cs, c) => CommandThere(ds, c)
  BY DEF CommandThere, CommandsGrow, SameCommand
<1>3. ASSUME NEW doc, Fulfilled(c, doc, ss, cs) PROVE Fulfilled(c, doc, tt, ds)
  <2>1. c.op \in Creating =>
          \E i \in DOMAIN tt : tt[i].by = c.number /\ tt[i].uri = c.uri /\ ParseShellId(doc) = tt[i].id
    BY <1>3 DEF Fulfilled, ShellsGrow
  <2>2. c.op \in {"close", "delete"} =>
          \E i \in DOMAIN tt : tt[i].id = c.shell /\ tt[i].life = "deleted"
    BY <1>3 DEF Fulfilled, ShellsGrow
  <2>3. ASSUME c.op = "start"
        PROVE  \E i \in DOMAIN ds : /\ ds[i].shell = c.shell /\ ds[i].line = <<Line>> /\ ds[i].args = Args
                                    /\ c.command # None => ds[i].id = c.command
                                    /\ ParseCommandId(doc) = ds[i].id
    <3>1. PICK i \in DOMAIN cs : /\ cs[i].shell = c.shell /\ cs[i].line = <<Line>> /\ cs[i].args = Args
                                 /\ c.command # None => cs[i].id = c.command
                                 /\ ParseCommandId(doc) = cs[i].id
      BY <1>3, <2>3 DEF Fulfilled
    <3>2. i \in DOMAIN ds /\ SameCommand(ds[i], cs[i])
      BY DEF CommandsGrow
    <3>. QED  BY <3>1, <3>2 DEF SameCommand
  <2>4. ASSUME c.op \in Signalling
        PROVE  \E i \in DOMAIN ds : /\ ds[i].shell = c.shell /\ ds[i].id = c.command
                                    /\ ds[i].signal # "none"
    <3>1. PICK i \in DOMAIN cs : /\ cs[i].shell = c.shell /\ cs[i].id = c.command
                                 /\ cs[i].signal # "none"
      BY <1>3, <2>4 DEF Fulfilled
    <3>2. i \in DOMAIN ds /\ SameCommand(ds[i], cs[i])
      BY DEF CommandsGrow
    <3>. QED  BY <3>1, <3>2 DEF SameCommand
  <2>. QED  BY <2>1, <2>2, <2>3, <2>4 DEF Fulfilled
<1>. QED  BY <1>1, <1>2, <1>3

\* The service after it served a call.
LEMMA ServedGrows ==
    ASSUME config \in Configs, Sound(shells, commands), NEW c, InPlace(c), c.op # "idle",
           NEW o \in Served(RequestOf(c), c.number)
    PROVE  /\ Sound(o.shells, o.commands)
           /\ ShellsGrow(shells, o.shells) /\ CommandsGrow(commands, o.commands)
           /\ \/ DOMAIN o.shells = DOMAIN shells
              \/ LET n == Len(o.shells)
                 IN /\ c.op \in Creating /\ Len(shells) \in Nat /\ n = Len(shells) + 1
                    /\ DOMAIN o.shells = DOMAIN shells \cup {n} /\ o.shells[n].by = c.number
           /\ HasFault(o.doc) => Reason(c)
           /\ ~HasFault(o.doc) => Fulfilled(c, o.doc, o.shells, o.commands)
<1>. DEFINE Claim == /\ Sound(o.shells, o.commands)
                     /\ ShellsGrow(shells, o.shells) /\ CommandsGrow(commands, o.commands)
                     /\ \/ DOMAIN o.shells = DOMAIN shells
                        \/ LET n == Len(o.shells)
                           IN /\ c.op \in Creating /\ Len(shells) \in Nat /\ n = Len(shells) + 1
                              /\ DOMAIN o.shells = DOMAIN shells \cup {n} /\ o.shells[n].by = c.number
                     /\ HasFault(o.doc) => Reason(c)
                     /\ ~HasFault(o.doc) => Fulfilled(c, o.doc, o.shells, o.commands)
<1>1. CASE Refuses(c, o)
  BY <1>1, Unchanged DEF Refuses
<1>2. CASE c.op \in Creating /\ Creates(c, c.number, o)
  <2>1. PICK id \in ShellNames :
          /\ o.shells = Append(shells, [id |-> id, uri |-> c.uri, life |-> "live", by |-> c.number])
          /\ o.commands = commands /\ o.doc = AnswerDoc("Shell", "ShellId", id)
          /\ \A i \in DOMAIN shells : shells[i].id # id
          /\ \/ id \in Named(ProposedIds)
             \/ Len(shells) + 1 \in DOMAIN ShellIds /\ id = Plain(ShellIds[Len(shells) + 1])
    BY <1>2 DEF Creates
  <2>0. PICK x : x = [id |-> id, uri |-> c.uri, life |-> "live", by |-> c.number]
    OBVIOUS
  <2>2. /\ DOMAIN x = {"id", "uri", "life", "by"} /\ x.id = id /\ x.uri = c.uri
        /\ x.life \in ShellStates /\ x.by = c.number /\ c.uri \in {CMD, PSRP}
    BY <2>0 DEF ShellStates, InPlace, WellAsked, IsCall
  <2>3. o.shells = Append(shells, x)
    BY <2>0, <2>1
  <2>. PICK tt : tt = o.shells
    OBVIOUS
  <2>4. /\ Sound(tt, commands) /\ ShellsGrow(shells, tt)
        /\ Len(shells) \in Nat /\ Len(tt) = Len(shells) + 1 /\ Len(tt) \in DOMAIN tt
        /\ tt[Len(tt)] = x /\ DOMAIN tt = DOMAIN shells \cup {Len(tt)}
    <3>1. tt = Append(shells, x)
      BY <2>3
    <3>2. \A i \in DOMAIN shells : shells[i].id # x.id
      BY <2>1, <2>2
    <3>3. \/ x.id \in Named(ProposedIds)
          \/ Len(shells) + 1 \in DOMAIN ShellIds /\ x.id = Plain(ShellIds[Len(shells) + 1])
      BY <2>1, <2>2
    <3>4. x.uri \in {CMD, PSRP}
      BY <2>2
    <3>5. Sound(shells, commands)
      OBVIOUS
    <3>. QED  BY ONLY <2>2, <3>1, <3>2, <3>3, <3>4, <3>5, ShellAdded
  <2>. PICK doc : doc = o.doc
    OBVIOUS
  <2>5. ~HasFault(doc) /\ ParseShellId(doc) = id
    <3>1. ParseId(AnswerDoc("Shell", "ShellId", id), "ShellId") = id
      BY AnswerIsRead, BareIsNothing
    <3>. QED  BY <2>1, <3>1, AnswerIsNoFault DEF ParseShellId
  <2>6. c.op \notin {"close", "delete", "start"} /\ c.op \notin Signalling
    BY <1>2 DEF Creating, Signalling
  <2>7. Fulfilled(c, doc, tt, commands)
    BY <2>2, <2>4, <2>5, <2>6 DEF Fulfilled
  <2>. QED  BY <1>2, <2>1, <2>2, <2>4, <2>5, <2>7, Unchanged
<1>3. CASE c.op \in Moving /\ Moves(c, o)
  <2>1. PICK i \in DOMAIN shells :
          /\ shells[i].id = c.shell /\ shells[i].life \in Fitting(c.op)
          /\ o.shells = [shells EXCEPT ![i].life = LifeAfter(c.op)]
          /\ o.commands = commands /\ ~HasFault(o.doc)
    BY <1>3 DEF Moves
  <2>. PICK life : life = LifeAfter(c.op)
    OBVIOUS
  <2>2. life \in ShellStates /\ shells[i].life # "deleted" /\ (c.op \in {"close", "delete"} => life = "deleted")
    BY <2>1 DEF LifeAfter, ShellStates, Fitting
  <2>. PICK tt : tt = o.shells
    OBVIOUS
  <2>3. /\ Sound(tt, commands) /\ ShellsGrow(shells, tt) /\ DOMAIN tt = DOMAIN shells
        /\ tt[i].life = life
    <3>1. tt = [shells EXCEPT ![i].life = life] /\ Sound(shells, commands) /\ i \in DOMAIN shells
      BY <2>1
    <3>. QED  BY ONLY <2>2, <3>1, ShellChanged
  <2>4. c.op \notin Creating /\ c.op # "start" /\ c.op \notin Signalling
    BY <1>3 DEF Creating, Signalling, Moving
  <2>5. tt[i].id = c.shell
    BY <2>1, <2>3 DEF ShellsGrow
  <2>6. Fulfilled(c, o.doc, tt, commands)
    BY <2>2, <2>3, <2>4, <2>5 DEF Fulfilled
  <2>. QED  BY <2>1, <2>3, <2>6, Unchanged
<1>4. CASE c.op = "start" /\ Starts(c, o)
  <2>1. PICK id, x :
          /\ id \in CommandNames
          /\ o.shells = shells /\ o.commands = Append(commands, x)
          /\ DOMAIN x = {"id", "shell", "cut", "line", "args", "input", "eof", "given", "signal"}
          /\ x.id = id /\ x.shell = c.shell /\ x.line = <<Line>> /\ x.args = Args
          /\ c.command # None => id = c.command
          /\ id = PipelineId \/ (Len(commands) + 1 \in DOMAIN CommandIds
                                  /\ id = Plain(CommandIds[Len(commands) + 1]))
          /\ o.doc = AnswerDoc("CommandResponse", "CommandId", id)
    BY <1>4 DEF Starts
  <2>. id \in CommandNames
    BY <2>1
  <2>. PICK tt : tt = o.commands
    OBVIOUS
  <2>2. /\ Sound(shells, tt) /\ CommandsGrow(commands, tt)
        /\ Len(tt) \in DOMAIN tt /\ tt[Len(tt)] = x
    <3>1. tt = Append(commands, x) /\ Sound(shells, commands)
      BY <2>1
    <3>2. x.shell \in ShellNames
      BY <1>4, <2>1 DEF InPlace, WellAsked, Creating
    <3>3. x.id = PipelineId \/ (Len(commands) + 1 \in DOMAIN CommandIds
                                 /\ x.id = Plain(CommandIds[Len(commands) + 1]))
      BY <2>1
    <3>4. DOMAIN x = {"id", "shell", "cut", "line", "args", "input", "eof", "given", "signal"}
      BY <2>1
    <3>. QED  BY ONLY <3>1, <3>2, <3>3, <3>4, CommandAdded
  <2>. PICK doc : doc = o.doc
    OBVIOUS
  <2>3. ~HasFault(doc) /\ ParseCommandId(doc) = id
    <3>1. ParseId(AnswerDoc("CommandResponse", "CommandId", id), "CommandId") = id
      BY AnswerIsRead, BareIsNothing
    <3>. QED  BY <2>1, <3>1, AnswerIsNoFault DEF ParseCommandId
  <2>4. c.op \notin Creating /\ c.op \notin Signalling /\ c.op \notin {"close", "delete"}
    BY <1>4 DEF Creating, Signalling
  <2>5. Fulfilled(c, doc, shells, tt)
    BY <2>1, <2>2, <2>3, <2>4 DEF Fulfilled
  <2>. QED  BY <2>1, <2>2, <2>3, <2>5, Unchanged
<1>5. CASE c.op \in {"receive", "send", "ctrlC", "terminate"} /\ Touches(c, o)
  <2>0. c.op \notin Creating /\ c.op \notin {"close", "delete", "start"}
    BY <1>5 DEF Creating
  <2>1. CASE o.commands = commands /\ c.op \notin Signalling
    <3>1. Fulfilled(c, o.doc, shells, commands)
      BY <2>0, <2>1 DEF Fulfilled
    <3>. QED  BY <1>5, <2>1, <3>1, Unchanged DEF Touches
  <2>2. ASSUME NEW i \in DOMAIN commands, NEW x,
               o.commands = [commands EXCEPT ![i] = x], SameCommand(x, commands[i]),
               c.op \in Signalling =>
                   commands[i].shell = c.shell /\ commands[i].id = c.command /\ x.signal # "none"
        PROVE  Claim
    <3>. PICK tt : tt = o.commands
      OBVIOUS
    <3>1. Sound(shells, tt) /\ CommandsGrow(commands, tt) /\ i \in DOMAIN tt /\ tt[i] = x
      <4>1. tt = [commands EXCEPT ![i] = x] /\ Sound(shells, commands)
        BY <2>2
      <4>. QED  BY ONLY <2>2, <4>1, CommandChanged
    <3>2. Fulfilled(c, o.doc, shells, tt)
      BY <2>0, <2>2, <3>1 DEF Fulfilled, SameCommand
    <3>. QED  BY <1>5, <3>1, <3>2, Unchanged DEF Touches
  <2>. QED  BY <1>5, <2>1, <2>2 DEF Touches
<1>. QED  BY <1>1, <1>2, <1>3, <1>4, <1>5, ServedIs

-----------------------------------------------------------------------------
(* The inductive invariant.                                                  *)

\* What a handle, or a shell known by its id, stands for.
ShellKnown(ss, s) ==
    /\ s \in [id : ShellNames, uri : {CMD, PSRP}]
    /\ \E i \in DOMAIN ss : ss[i].id = s.id /\ ss[i].uri = s.uri
\* What the caller knows of a command.
CommandKnown(cs, k) == \E i \in DOMAIN cs : cs[i].shell = k.shell /\ cs[i].id = k.id

\* What the state is made of; a proposed id is left for each opening.
TypeInv ==
    /\ call = [w \in Workers |-> call[w]] /\ wire = [w \in Workers |-> wire[w]]
    /\ budget \in [BudgetKinds -> Nat] /\ budget.opens <= Len(ProposedIds)
    /\ config \in Configs

\* Every call, under way or late, is about what is there.
Placed ==
    /\ \A w \in Workers : InPlace(call[w])
    /\ \A c \in late : InPlace(c) /\ c.op # "idle"

\* So is what the caller holds.
Told ==
    /\ handle # None => ShellKnown(shells, handle)
    /\ \A s \in saved : ShellKnown(shells, s)
    /\ \A k \in known : CommandKnown(commands, k)

\* One handle at a time.
OneHandle ==
    /\ handle # None => ~Under(Opening)
    /\ \A u, w \in Workers : call[u].op \in Opening /\ call[w].op \in Opening => u = w

\* A creation has a number no other has; its request may be served late only
\* if an exchange of it was lost.
Numbered ==
    /\ \A w \in Workers : call[w].op \in Creating => call[w].number > budget.opens
    /\ \A c \in late : c.op \in Creating => c.number > budget.opens
    /\ \A i \in DOMAIN shells : shells[i].by \in Nat /\ shells[i].by > budget.opens
    /\ \A u, w \in Workers :
          call[u].op \in Creating /\ call[w].op \in Creating /\ u # w => call[u].number # call[w].number
    /\ \A c \in late, w \in Workers :
          c.op \in Creating /\ call[w].op \in Creating /\ c.number = call[w].number => call[w].lost

\* A creation none of whose exchanges was lost makes one shell.
Once ==
    \A w \in Workers :
        /\ wire[w].phase = "broken" => call[w].lost
        /\ call[w].op \in Creating /\ ~call[w].lost =>
              /\ \A i, j \in DOMAIN shells :
                    shells[i].by = call[w].number /\ shells[j].by = call[w].number => i = j
              /\ wire[w].phase = "asked" => \A i \in DOMAIN shells : shells[i].by # call[w].number

\* What is on its way back is true.
Verdict(c, x, method, ss, cs) ==
    \/ SendSoap(method, x) \notin {"ok", "soap"}
    \/ SendSoap(method, x) = "soap" /\ x.reason
    \/ SendSoap(method, x) = "ok" /\ Fulfilled(c, x.doc, ss, cs) /\ (c.op = "receive" => x.reason)
Truthful ==
    \A w \in Workers : Answered(w) => Verdict(call[w], wire[w], config.method, shells, commands)

\* The inductive invariant.
IInv == /\ TypeInv /\ Sound(shells, commands) /\ Placed /\ Told /\ OneHandle /\ Numbered /\ Once
        /\ Truthful /\ ShellsAreHeld

\* It holds at the start.
LEMMA InitIsSound == Init => IInv
<1>. SUFFICES ASSUME Init PROVE IInv
  OBVIOUS
<1>1. \A w \in Workers : call[w] = Idle /\ wire[w] = Phase("none")
  BY DEF Init
<1>2. Idle.op = "idle" /\ InPlace(Idle)
  <2>. PICK c : c = Idle
    OBVIOUS
  <2>1. /\ DOMAIN c = {"op", "api", "shell", "uri", "command", "data", "number", "end", "attempt", "lost"}
        /\ c.op = "idle" /\ c.api = "handle" /\ c.uri = CMD /\ c.number = 0
        /\ c.end = FALSE /\ c.lost = FALSE
    BY DEF Idle
  <2>2. IsCall(c)
    <3>1. c.op \in Ops
      BY <2>1 DEF Ops
    <3>2. c.end \in BOOLEAN /\ c.lost \in BOOLEAN
      BY <2>1
    <3>3. c.number \in Nat /\ c.api \in {"handle", "client"} /\ c.uri \in {CMD, PSRP}
      BY <2>1
    <3>. QED  BY <2>1, <3>1, <3>2, <3>3, Zenon DEF IsCall
  <2>3. WellAsked(c)
    BY <2>1, <2>2 DEF WellAsked, Creating, Consuming
  <2>4. InPlace(c)
    BY <2>1, <2>3 DEF InPlace, ShellThere, CommandThere
  <2>. QED  BY <2>1, <2>4
<1>3. TypeInv
  <2>1. budget \in [BudgetKinds -> Nat] /\ budget.opens <= Len(ProposedIds)
    BY ShellAssumption, IdsAssumption DEF Init
  <2>. QED  BY <2>1 DEF Init, TypeInv
<1>4. Sound(shells, commands)
  <2>1. shells = <<>> /\ commands = <<>>
    BY DEF Init
  <2>2. IsSeq(<<>>) /\ DOMAIN <<>> = {}
    BY DEF IsSeq
  <2>. QED  BY <2>1, <2>2 DEF Sound
<1>5. Placed
  BY <1>1, <1>2 DEF Placed, Init
<1>6. Told /\ ShellsAreHeld
  BY DEF Told, ShellsAreHeld, Init
<1>7. OneHandle /\ Numbered /\ Once /\ Truthful
  <2>1. \A w \in Workers : call[w].op = "idle" /\ ~Busy(w)
    BY <1>1, <1>2 DEF Busy
  <2>2. \A w \in Workers : wire[w].phase = "none"
    BY <1>1 DEF Phase
  <2>3. DOMAIN shells = {} /\ handle = None /\ late = {}
    BY DEF Init
  <2>. QED  BY <2>1, <2>2, <2>3
            DEF OneHandle, Numbered, Once, Truthful, Under, Opening, Creating, Answered
<1>. QED  BY <1>3, <1>4, <1>5, <1>6, <1>7 DEF IInv

\* One worker's call and exchange change.
Alters(w, c, x) ==
    /\ call'[w] = c /\ wire'[w] = x
    /\ \A u \in Workers \ {w} : call'[u] = call[u] /\ wire'[u] = wire[u]
    /\ call' = [u \in Workers |-> call'[u]] /\ wire' = [u \in Workers |-> wire'[u]]

LEMMA AltersIs ==
    ASSUME TypeInv, NEW w \in Workers, NEW c, NEW x,
           call' = [call EXCEPT ![w] = c], wire' = [wire EXCEPT ![w] = x]
    PROVE  Alters(w, c, x)
  BY DEF TypeInv, Alters

\* A budget that is spent.
LEMMA SpendKeeps ==
    ASSUME TypeInv, NEW kind, kind \in BudgetKinds, budget[kind] > 0,
           budget' = [budget EXCEPT ![kind] = @ - 1]
    PROVE  /\ budget' \in [BudgetKinds -> Nat] /\ budget'.opens <= budget.opens
           /\ budget'.opens <= Len(ProposedIds)
           /\ budget.opens \in Nat /\ budget'.opens \in Nat
           /\ kind = "opens" => budget.opens > budget'.opens
<1>1. budget \in [BudgetKinds -> Nat] /\ budget.opens <= Len(ProposedIds) /\ "opens" \in BudgetKinds
  BY DEF TypeInv, BudgetKinds
<1>2. Len(ProposedIds) \in Nat
  BY IdsAssumption
<1>. QED  BY <1>1, <1>2

\* What does not depend on which operation begins.
Ground == TypeInv /\ Sound(shells, commands) /\ Placed /\ Numbered /\ Once /\ Truthful

\* What a call keeps by beginning.
LEMMA BeginKeeps ==
    ASSUME Ground, NEW w \in Workers, NEW kind \in BudgetKinds, NEW c, Begin(w, kind, c), InPlace(c),
           c.op # "idle", c.op \in Creating => kind = "opens" /\ c.number = budget.opens
    PROVE  Ground' /\ Alters(w, c, Phase("asked"))
<1>0. /\ ~Busy(w) /\ budget[kind] > 0 /\ budget' = [budget EXCEPT ![kind] = @ - 1]
      /\ call' = [call EXCEPT ![w] = c] /\ wire' = [wire EXCEPT ![w] = Phase("asked")]
      /\ late' = late /\ shells' = shells /\ commands' = commands /\ config' = config
  BY DEF Begin, service
<1>1. Alters(w, c, Phase("asked"))
  BY <1>0, AltersIs DEF Ground
<1>2. /\ budget' \in [BudgetKinds -> Nat] /\ budget'.opens <= budget.opens
      /\ budget'.opens <= Len(ProposedIds) /\ budget.opens \in Nat /\ budget'.opens \in Nat
      /\ kind = "opens" => budget.opens > budget'.opens
  BY <1>0, SpendKeeps DEF Ground
<1>3. TypeInv'
  BY <1>0, <1>1, <1>2 DEF Ground, TypeInv, Alters
<1>4. Placed'
  <2>1. \A d : InPlace(d)' <=> InPlace(d)
    BY <1>0 DEF InPlace
  <2>. QED  BY <1>0, <1>1, <2>1 DEF Ground, Placed, Alters
<1>5. Numbered'
  <2>. DEFINE b == budget.opens
              e == budget'.opens
  <2>0. \A d : InPlace(d) => d.number \in Nat
    BY DEF InPlace, WellAsked, IsCall
  <2>1. ASSUME NEW u \in Workers, call'[u].op \in Creating
        PROVE  /\ call'[u].number > e
               /\ u # w => call'[u] = call[u] /\ call[u].number > b /\ call[u].number \in Nat
    <3>1. CASE u = w
      BY <1>1, <1>2, <2>1, <3>1 DEF Alters
    <3>2. CASE u # w
      <4>1. call'[u] = call[u] /\ call[u].number > b /\ call[u].number \in Nat
        BY <1>1, <2>0, <2>1, <3>2 DEF Ground, Numbered, Placed, Alters
      <4>. QED  BY <1>2, <3>2, <4>1
    <3>. QED  BY <3>1, <3>2
  <2>2. \A d \in late' : d.op \in Creating => d.number > e /\ d.number > b /\ d.number \in Nat
    BY <1>0, <1>2, <2>0 DEF Ground, Numbered, Placed
  <2>3. \A i \in DOMAIN shells' : shells'[i].by \in Nat /\ shells'[i].by > e
    BY <1>0, <1>2 DEF Ground, Numbered
  <2>4. ASSUME NEW u \in Workers, NEW v \in Workers, call'[u].op \in Creating,
               call'[v].op \in Creating, u # v
        PROVE  call'[u].number # call'[v].number
    <3>1. call'[w].op \in Creating => call'[w].number = b
      BY <1>1 DEF Alters
    <3>2. CASE u # w /\ v # w
      BY <2>1, <2>4, <3>2 DEF Ground, Numbered
    <3>3. CASE u = w \/ v = w
      BY <1>2, <2>1, <2>4, <3>1, <3>3
    <3>. QED  BY <3>2, <3>3
  <2>5. ASSUME NEW d \in late', NEW u \in Workers, d.op \in Creating, call'[u].op \in Creating,
               d.number = call'[u].number
        PROVE  call'[u].lost
    <3>1. u # w
      BY <1>1, <1>2, <2>2, <2>5 DEF Alters
    <3>. QED  BY <1>0, <2>1, <2>5, <3>1 DEF Ground, Numbered
  <2>. QED  BY <2>1, <2>2, <2>3, <2>4, <2>5 DEF Numbered
<1>6. Once'
  <2>1. ASSUME NEW u \in Workers
        PROVE  /\ wire'[u].phase = "broken" => call'[u].lost
               /\ call'[u].op \in Creating /\ ~call'[u].lost =>
                     /\ \A i, j \in DOMAIN shells' :
                           shells'[i].by = call'[u].number /\ shells'[j].by = call'[u].number => i = j
                     /\ wire'[u].phase = "asked" => \A i \in DOMAIN shells' : shells'[i].by # call'[u].number
    <3>1. CASE u = w
      <4>1. wire'[u].phase = "asked"
        BY <1>1, <3>1 DEF Alters, Phase
      <4>2. call'[u].op \in Creating => \A i \in DOMAIN shells' : shells'[i].by # call'[u].number
        BY <1>0, <1>1, <1>2, <3>1 DEF Alters, Ground, Numbered
      <4>. QED  BY <4>1, <4>2
    <3>2. CASE u # w
      BY <1>0, <1>1, <3>2 DEF Alters, Ground, Once
    <3>. QED  BY <3>1, <3>2
  <2>. QED  BY <2>1 DEF Once
<1>7. Truthful'
  <2>1. ASSUME NEW u \in Workers, Answered(u)'
        PROVE  u # w /\ Answered(u) /\ call'[u] = call[u] /\ wire'[u] = wire[u]
    <3>1. u # w
      BY <1>1, <2>1 DEF Alters, Answered, Phase
    <3>. QED  BY <1>1, <2>1, <3>1 DEF Alters, Answered, Busy
  <2>. QED  BY <1>0, <2>1 DEF Ground, Truthful
<1>8. Sound(shells, commands)'
  BY <1>0 DEF Ground, Sound
<1>. QED  BY <1>1, <1>3, <1>4, <1>5, <1>6, <1>7, <1>8 DEF Ground

-----------------------------------------------------------------------------
(* Calls that begin.                                                         *)

\* An idle worker.
LEMMA IdleIs ==
    /\ DOMAIN Idle = {"op", "api", "shell", "uri", "command", "data", "number", "end", "attempt", "lost"}
    /\ Idle.op = "idle" /\ Idle.api = "handle" /\ Idle.shell = None /\ Idle.uri = CMD
    /\ Idle.command = None /\ Idle.number = 0 /\ Idle.end \in BOOLEAN /\ Idle.lost \in BOOLEAN
  BY DEF Idle

LEMMA CallIs ==
    ASSUME NEW c, DOMAIN c = DOMAIN Idle, c.op \in Ops, c.api \in {"handle", "client"},
           c.uri \in {CMD, PSRP}, c.number \in Nat, c.end \in BOOLEAN, c.lost \in BOOLEAN
    PROVE  IsCall(c)
  BY IdleIs, Zenon DEF IsCall

\* What an operation is applied to is a shell that is there.
LEMMA TargetIs ==
    ASSUME Told, NEW t \in Targets
    PROVE  /\ DOMAIN t = DOMAIN Idle /\ t.number = 0 /\ t.end \in BOOLEAN /\ t.lost \in BOOLEAN
           /\ t.shell \in ShellNames /\ t.uri \in {CMD, PSRP} /\ t.api \in {"handle", "client"}
           /\ \E i \in DOMAIN shells : shells[i].id = t.shell /\ (t.api = "handle" => shells[i].uri = t.uri)
<1>1. CASE \E s \in {handle} \ {None} : t = [Idle EXCEPT !.shell = s.id, !.uri = s.uri]
  <2>1. handle # None /\ t = [Idle EXCEPT !.shell = handle.id, !.uri = handle.uri]
    BY <1>1
  <2>2. ShellKnown(shells, handle)
    BY <2>1 DEF Told
  <2>3. handle.id \in ShellNames /\ handle.uri \in {CMD, PSRP}
        /\ \E i \in DOMAIN shells : shells[i].id = handle.id /\ shells[i].uri = handle.uri
    BY <2>2 DEF ShellKnown
  <2>4. /\ DOMAIN t = DOMAIN Idle /\ t.number = 0 /\ t.end \in BOOLEAN /\ t.lost \in BOOLEAN
        /\ t.api = "handle" /\ t.shell = handle.id /\ t.uri = handle.uri
    BY <2>1, IdleIs
  <2>. QED  BY <2>3, <2>4
<1>2. CASE \E s \in saved : t = [Idle EXCEPT !.api = "client", !.shell = s.id]
  <2>1. PICK s \in saved : t = [Idle EXCEPT !.api = "client", !.shell = s.id]
    BY <1>2
  <2>2. ShellKnown(shells, s)
    BY <2>1 DEF Told
  <2>3. s.id \in ShellNames /\ \E i \in DOMAIN shells : shells[i].id = s.id
    BY <2>2 DEF ShellKnown
  <2>4. /\ DOMAIN t = DOMAIN Idle /\ t.number = 0 /\ t.end \in BOOLEAN /\ t.lost \in BOOLEAN
        /\ t.api = "client" /\ t.shell = s.id /\ t.uri = CMD
    BY <2>1, IdleIs
  <2>. QED  BY <2>3, <2>4
<1>. QED  BY <1>1, <1>2 DEF Targets

LEMMA CommandsOfIs ==
    ASSUME Told, Sound(shells, commands), NEW t, NEW id \in CommandsOf(t)
    PROVE  /\ \E i \in DOMAIN commands : commands[i].shell = t.shell /\ commands[i].id = id
           /\ id \in CommandNames
<1>1. PICK k \in known : k.shell = t.shell /\ k.id = id
  BY DEF CommandsOf
<1>2. PICK i \in DOMAIN commands : commands[i].shell = t.shell /\ commands[i].id = id
  BY <1>1 DEF Told, CommandKnown
<1>3. CommandSound(commands, i)
  BY DEF Sound
<1>. QED  BY <1>2, <1>3 DEF CommandSound, CommandNames, Named

\* A worker that was idle had no shell in hand.
LEMMA HandsKeep ==
    ASSUME NEW w \in Workers, ~Busy(w), NEW c, NEW x, Alters(w, c, x)
    PROVE  \A u \in Workers : \A s : InHand(u, s) => InHand(u, s)'
<1>1. call[w].op = "idle"
  BY DEF Busy
<1>2. \A u \in Workers : \A s : InHand(u, s) => u # w
  BY <1>1 DEF InHand, Creating, Consuming
<1>. QED  BY <1>2 DEF Alters, InHand

\* An operation that leaves the handle and the shells known by id alone.
LEMMA Borrows ==
    ASSUME Told, OneHandle, ShellsAreHeld, NEW w \in Workers, ~Busy(w), NEW c, NEW x, Alters(w, c, x),
           c.op \notin Opening, UNCHANGED <<handle, saved, known, shells, commands, excused>>
    PROVE  Told' /\ OneHandle' /\ ShellsAreHeld'
<1>1. Told'
  BY DEF Told
<1>2. OneHandle'
  <2>1. \A u \in Workers : call'[u].op \in Opening => u # w /\ call[u].op \in Opening
    BY DEF Alters
  <2>. QED  BY <2>1 DEF OneHandle, Under
<1>3. ShellsAreHeld'
  <2>1. \A u \in Workers : \A s : InHand(u, s) => InHand(u, s)'
    BY HandsKeep
  <2>. QED  BY <2>1 DEF ShellsAreHeld
<1>. QED  BY <1>1, <1>2, <1>3

LEMMA CreateKeeps == ASSUME IInv, NEW w \in Workers, NEW op \in Creating, Create(w, op) PROVE IInv'
<1>. DEFINE c == [Idle EXCEPT !.op = op, !.number = budget.opens,
                          !.shell = IF op = "openPsrp" THEN Plain(ProposedIds[budget.opens]) ELSE None,
                          !.uri   = IF op = "openPsrp" THEN PSRP ELSE CMD]
<1>1. /\ op # "create" => handle = None /\ ~Under(Opening)
      /\ Begin(w, "opens", c) /\ handle' = handle /\ saved' = saved
  BY DEF Create
<1>2. /\ DOMAIN c = DOMAIN Idle /\ c.op = op /\ c.number = budget.opens /\ c.api = "handle"
      /\ c.lost \in BOOLEAN /\ c.end \in BOOLEAN
      /\ op = "openPsrp" => c.shell = Plain(ProposedIds[budget.opens]) /\ c.uri = PSRP
      /\ op # "openPsrp" => c.uri = CMD
  BY IdleIs
<1>3. ~Busy(w) /\ UNCHANGED <<known, shells, commands, excused>> /\ budget["opens"] > 0
  BY <1>1 DEF Begin, service
<1>. HIDE DEF c
<1>4. budget.opens \in DOMAIN ProposedIds /\ budget.opens \in Nat
  <2>1. budget \in [BudgetKinds -> Nat] /\ budget.opens <= Len(ProposedIds) /\ "opens" \in BudgetKinds
    BY DEF IInv, TypeInv, BudgetKinds
  <2>2. ProposedIds \in Seq(STRING)
    BY IdsAssumption
  <2>. QED  BY <1>3, <2>1, <2>2
<1>5. InPlace(c)
  <2>1. IsCall(c)
    BY <1>2, <1>4, IdleIs DEF IsCall, Ops, Creating
  <2>2. WellAsked(c)
    BY <1>2, <1>4, <2>1 DEF WellAsked, Creating, Named
  <2>. QED  BY <1>2, <2>2 DEF InPlace, ShellThere, CommandThere, Creating
<1>6. Ground' /\ Alters(w, c, Phase("asked"))
  <2>1. Ground /\ c.op # "idle" /\ "opens" \in BudgetKinds
    BY <1>2 DEF IInv, Ground, Creating, BudgetKinds
  <2>. QED  BY <1>1, <1>2, <1>5, <2>1, BeginKeeps
<1>7. Told'
  BY <1>1, <1>3 DEF IInv, Told
<1>8. OneHandle'
  <2>1. \A u \in Workers \ {w} : call'[u] = call[u]
    BY <1>6 DEF Alters
  <2>2. call'[w].op = op
    BY <1>2, <1>6 DEF Alters
  <2>3. op \in Opening => handle = None /\ ~Under(Opening)
    BY <1>1 DEF Opening
  <2>. QED  BY <1>1, <2>1, <2>2, <2>3 DEF IInv, OneHandle, Under
<1>9. ShellsAreHeld'
  <2>1. \A u \in Workers : \A s : InHand(u, s) => InHand(u, s)'
    BY <1>3, <1>6, HandsKeep
  <2>. QED  BY <1>1, <1>3, <2>1 DEF IInv, ShellsAreHeld
<1>. QED  BY <1>6, <1>7, <1>8, <1>9 DEF IInv, Ground

LEMMA ReconnectKeeps == ASSUME IInv, NEW w \in Workers, NEW s \in saved, Reconnect(w, s) PROVE IInv'
<1>. DEFINE c == [Idle EXCEPT !.op = "reconnect", !.shell = s.id, !.uri = s.uri]
<1>1. /\ handle = None /\ ~Under(Opening)
      /\ Begin(w, "reconnects", c) /\ handle' = handle /\ saved' = saved \ {s}
  BY DEF Reconnect
<1>2. /\ DOMAIN c = DOMAIN Idle /\ c.op = "reconnect" /\ c.number = 0 /\ c.api = "handle"
      /\ c.lost \in BOOLEAN /\ c.end \in BOOLEAN /\ c.shell = s.id /\ c.uri = s.uri
  BY IdleIs
<1>3. ~Busy(w) /\ UNCHANGED <<known, shells, commands, excused>>
  BY <1>1 DEF Begin, service
<1>. HIDE DEF c
<1>4. /\ s.id \in ShellNames /\ s.uri \in {CMD, PSRP}
      /\ \E i \in DOMAIN shells : shells[i].id = s.id /\ shells[i].uri = s.uri
  <2>1. ShellKnown(shells, s)
    BY DEF IInv, Told
  <2>. QED  BY <2>1 DEF ShellKnown
<1>5. InPlace(c)
  <2>1. IsCall(c)
    <3>1. c.op \in Ops
      BY <1>2 DEF Ops
    <3>2. c.number \in Nat /\ c.end \in BOOLEAN /\ c.lost \in BOOLEAN
      BY <1>2
    <3>. QED  BY <1>2, <1>4, <3>1, <3>2, CallIs
  <2>2. WellAsked(c)
    BY <1>2, <1>4, <2>1 DEF WellAsked, Creating
  <2>. QED  BY <1>2, <1>4, <2>2 DEF InPlace, ShellThere, CommandThere, Creating
<1>6. Ground' /\ Alters(w, c, Phase("asked"))
  <2>1. Ground /\ c.op # "idle" /\ "reconnects" \in BudgetKinds /\ c.op \notin Creating
    BY <1>2 DEF IInv, Ground, Creating, BudgetKinds
  <2>. QED  BY <1>1, <1>5, <2>1, BeginKeeps
<1>7. Told'
  BY <1>1, <1>3 DEF IInv, Told
<1>8. OneHandle'
  <2>1. \A u \in Workers : call'[u].op \in Opening => u = w \/ call[u].op \in Opening
    BY <1>6 DEF Alters
  <2>. QED  BY <1>1, <2>1 DEF IInv, OneHandle, Under
<1>9. ShellsAreHeld'
  <2>1. \A u \in Workers : \A h : InHand(u, h) => InHand(u, h)'
    BY <1>3, <1>6, HandsKeep
  <2>2. \A h : h.id = s.id => InHand(w, h)'
    BY <1>2, <1>6 DEF Alters, InHand
  <2>3. \A h : h.id \in Ids(saved) => h.id \in Ids(saved') \/ h.id = s.id
    BY <1>1 DEF Ids
  <2>. QED  BY <1>1, <1>3, <2>1, <2>2, <2>3 DEF IInv, ShellsAreHeld
<1>. QED  BY <1>6, <1>7, <1>8, <1>9 DEF IInv, Ground

\* An operation on a shell that is there.
LEMMA TargetedKeeps ==
    ASSUME IInv, NEW w \in Workers, NEW t \in Targets, NEW kind \in BudgetKinds, NEW c,
           Begin(w, kind, c), handle' = handle, saved' = saved,
           DOMAIN c = DOMAIN Idle, c.op \in (Borrowing \cup {"terminate", "delete"}), c.number = t.number,
           c.api = t.api, c.shell = t.shell, c.uri = t.uri, c.lost = t.lost, c.end \in BOOLEAN,
           IsCall(c) /\ c.shell \in ShellNames => WellAsked(c), CommandThere(commands, c)
    PROVE  IInv'
<1>1. Told
  BY DEF IInv
<1>2. /\ t.number = 0 /\ t.lost \in BOOLEAN
      /\ t.shell \in ShellNames /\ t.uri \in {CMD, PSRP} /\ t.api \in {"handle", "client"}
      /\ \E i \in DOMAIN shells : shells[i].id = t.shell /\ (t.api = "handle" => shells[i].uri = t.uri)
  BY <1>1, TargetIs
<1>3. ~Busy(w) /\ UNCHANGED <<known, shells, commands, excused>>
  BY DEF Begin, service
<1>4. InPlace(c)
  <2>1. IsCall(c)
    <3>1. c.op \in Ops /\ c.number \in Nat
      BY <1>2 DEF Ops
    <3>. QED  BY <1>2, <3>1, CallIs
  <2>2. WellAsked(c)
    BY <1>2, <2>1
  <2>. QED  BY <1>2, <2>2 DEF InPlace, ShellThere
<1>5. c.op # "idle" /\ c.op \notin Creating /\ c.op \notin Opening
  BY DEF Borrowing, Creating, Opening
<1>6. Ground' /\ Alters(w, c, Phase("asked"))
  <2>1. Ground
    BY DEF IInv, Ground
  <2>. QED  BY <1>4, <1>5, <2>1, BeginKeeps
<1>7. Told' /\ OneHandle' /\ ShellsAreHeld'
  BY <1>3, <1>5, <1>6, Borrows DEF IInv
<1>. QED  BY <1>6, <1>7 DEF IInv, Ground

LEMMA StartKeeps ==
    ASSUME IInv, NEW w \in Workers, NEW t \in Targets, NEW id \in {None, PipelineId}, Start(w, t, id)
    PROVE  IInv'
<1>0. PICK c : c = [t EXCEPT !.op = "start", !.command = id]
  OBVIOUS
<1>1. (t.api = "client" => id = None) /\ Begin(w, "starts", c) /\ handle' = handle /\ saved' = saved
  BY <1>0 DEF Start
<1>2. DOMAIN t = DOMAIN Idle /\ t.end \in BOOLEAN
  BY TargetIs DEF IInv
<1>3. /\ DOMAIN c = DOMAIN Idle /\ c.op = "start" /\ c.command = id /\ c.number = t.number
      /\ c.api = t.api /\ c.shell = t.shell /\ c.uri = t.uri /\ c.lost = t.lost /\ c.end \in BOOLEAN
  BY <1>0, <1>2, IdleIs
<1>4. IsCall(c) /\ c.shell \in ShellNames => WellAsked(c)
  BY <1>1, <1>3 DEF WellAsked, Creating, Consuming
<1>5. CommandThere(commands, c)
  BY <1>3 DEF CommandThere
<1>6. c.op \in (Borrowing \cup {"terminate", "delete"}) /\ "starts" \in BudgetKinds
  BY <1>3 DEF Borrowing, BudgetKinds
<1>. QED  BY <1>1, <1>3, <1>4, <1>5, <1>6, TargetedKeeps

LEMMA ReceiveKeeps ==
    ASSUME IInv, NEW w \in Workers, NEW t \in Targets, NEW id \in CommandsOf(t), Receive(w, t, id)
    PROVE  IInv'
<1>0. PICK c : c = [t EXCEPT !.op = "receive", !.command = id]
  OBVIOUS
<1>1. Begin(w, "receives", c) /\ handle' = handle /\ saved' = saved
  BY <1>0 DEF Receive
<1>2. DOMAIN t = DOMAIN Idle /\ t.end \in BOOLEAN
  BY TargetIs DEF IInv
<1>3. /\ DOMAIN c = DOMAIN Idle /\ c.op = "receive" /\ c.command = id /\ c.number = t.number
      /\ c.api = t.api /\ c.shell = t.shell /\ c.uri = t.uri /\ c.lost = t.lost /\ c.end \in BOOLEAN
  BY <1>0, <1>2, IdleIs
<1>4. /\ \E i \in DOMAIN commands : commands[i].shell = t.shell /\ commands[i].id = id
      /\ id \in CommandNames
  BY CommandsOfIs DEF IInv
<1>5. IsCall(c) /\ c.shell \in ShellNames => WellAsked(c)
  BY <1>3, <1>4 DEF WellAsked, Creating, Consuming
<1>6. CommandThere(commands, c)
  BY <1>3, <1>4 DEF CommandThere
<1>7. c.op \in (Borrowing \cup {"terminate", "delete"}) /\ "receives" \in BudgetKinds
  BY <1>3 DEF Borrowing, BudgetKinds
<1>. QED  BY <1>1, <1>3, <1>5, <1>6, <1>7, TargetedKeeps

LEMMA SendKeeps ==
    ASSUME IInv, NEW w \in Workers, NEW t \in Targets, NEW id \in CommandsOf(t) \cup {Everything},
           NEW end \in BOOLEAN, Send(w, t, id, end)
    PROVE  IInv'
<1>0. PICK c : c = [t EXCEPT !.op = "send", !.command = id, !.end = end, !.data = Len(sent) + 1]
  OBVIOUS
<1>1. t.api = "handle" /\ Begin(w, "sends", c) /\ handle' = handle /\ saved' = saved
  BY <1>0 DEF Send
<1>2. DOMAIN t = DOMAIN Idle
  BY TargetIs DEF IInv
<1>3. /\ DOMAIN c = DOMAIN Idle /\ c.op = "send" /\ c.command = id /\ c.number = t.number
      /\ c.api = t.api /\ c.shell = t.shell /\ c.uri = t.uri /\ c.lost = t.lost /\ c.end = end
  BY <1>0, <1>2, IdleIs
<1>4. id # Everything =>
          /\ \E i \in DOMAIN commands : commands[i].shell = t.shell /\ commands[i].id = id
          /\ id \in CommandNames
  BY CommandsOfIs DEF IInv
<1>5. IsCall(c) /\ c.shell \in ShellNames => WellAsked(c)
  BY <1>1, <1>3, <1>4 DEF WellAsked, Creating, Consuming
<1>6. CommandThere(commands, c)
  BY <1>3, <1>4 DEF CommandThere
<1>7. c.op \in (Borrowing \cup {"terminate", "delete"}) /\ "sends" \in BudgetKinds /\ c.end \in BOOLEAN
  BY <1>3 DEF Borrowing, BudgetKinds
<1>. QED  BY <1>1, <1>3, <1>5, <1>6, <1>7, TargetedKeeps

LEMMA SignalKeeps ==
    ASSUME IInv, NEW w \in Workers, NEW t \in Targets, NEW id \in CommandsOf(t), Signal(w, t, id)
    PROVE  IInv'
<1>. PICK op : op = IF t.api = "handle" THEN "ctrlC" ELSE "terminate"
  OBVIOUS
<1>0. PICK c : c = [t EXCEPT !.op = op, !.command = id]
  OBVIOUS
<1>1. Begin(w, "signals", c) /\ handle' = handle /\ saved' = saved
  BY <1>0 DEF Signal
<1>2. DOMAIN t = DOMAIN Idle /\ t.end \in BOOLEAN /\ t.api \in {"handle", "client"}
  BY TargetIs DEF IInv
<1>3. /\ DOMAIN c = DOMAIN Idle /\ c.op = op /\ c.command = id /\ c.number = t.number
      /\ c.api = t.api /\ c.shell = t.shell /\ c.uri = t.uri /\ c.lost = t.lost /\ c.end \in BOOLEAN
  BY <1>0, <1>2, IdleIs
<1>4. /\ \E i \in DOMAIN commands : commands[i].shell = t.shell /\ commands[i].id = id
      /\ id \in CommandNames
  BY CommandsOfIs DEF IInv
<1>5. IsCall(c) /\ c.shell \in ShellNames => WellAsked(c)
  BY <1>2, <1>3, <1>4 DEF WellAsked, Creating, Consuming
<1>6. CommandThere(commands, c)
  BY <1>3, <1>4 DEF CommandThere
<1>7. c.op \in (Borrowing \cup {"terminate", "delete"}) /\ "signals" \in BudgetKinds
  BY <1>3 DEF Borrowing, BudgetKinds
<1>. QED  BY <1>1, <1>3, <1>5, <1>6, <1>7, TargetedKeeps

LEMMA DeleteKeeps ==
    ASSUME IInv, NEW w \in Workers, NEW t \in Targets, Delete(w, t)
    PROVE  IInv'
<1>0. PICK c : c = [t EXCEPT !.op = "delete"]
  OBVIOUS
<1>1. t.api = "client" /\ Begin(w, "ends", c) /\ handle' = handle /\ saved' = saved
  BY <1>0 DEF Delete
<1>2. DOMAIN t = DOMAIN Idle /\ t.end \in BOOLEAN
  BY TargetIs DEF IInv
<1>3. /\ DOMAIN c = DOMAIN Idle /\ c.op = "delete" /\ c.number = t.number
      /\ c.api = t.api /\ c.shell = t.shell /\ c.uri = t.uri /\ c.lost = t.lost /\ c.end \in BOOLEAN
  BY <1>0, <1>2, IdleIs
<1>4. IsCall(c) /\ c.shell \in ShellNames => WellAsked(c)
  BY <1>1, <1>3 DEF WellAsked, Creating, Consuming
<1>5. CommandThere(commands, c)
  BY <1>3 DEF CommandThere
<1>6. c.op \in (Borrowing \cup {"terminate", "delete"}) /\ "ends" \in BudgetKinds
  BY <1>3 DEF Borrowing, BudgetKinds
<1>. QED  BY <1>1, <1>3, <1>4, <1>5, <1>6, TargetedKeeps

LEMMA EndKeeps == ASSUME IInv, NEW w \in Workers, NEW op \in Consuming, End(w, op) PROVE IInv'
<1>0. PICK c : c = [Idle EXCEPT !.op = op, !.shell = handle.id, !.uri = handle.uri]
  OBVIOUS
<1>1. /\ handle # None /\ Begin(w, "ends", c) /\ handle' = None /\ saved' = saved
  BY <1>0 DEF End
<1>2. /\ DOMAIN c = DOMAIN Idle /\ c.op = op /\ c.number = 0 /\ c.api = "handle"
      /\ c.lost \in BOOLEAN /\ c.end \in BOOLEAN /\ c.shell = handle.id /\ c.uri = handle.uri
  BY <1>0, IdleIs
<1>3. ~Busy(w) /\ UNCHANGED <<known, shells, commands, excused>>
  BY <1>1 DEF Begin, service
<1>4. /\ handle.id \in ShellNames /\ handle.uri \in {CMD, PSRP}
      /\ \E i \in DOMAIN shells : shells[i].id = handle.id /\ shells[i].uri = handle.uri
  <2>1. ShellKnown(shells, handle)
    BY <1>1 DEF IInv, Told
  <2>. QED  BY <2>1 DEF ShellKnown
<1>5. InPlace(c)
  <2>1. IsCall(c)
    <3>1. c.op \in Ops /\ c.number \in Nat
      BY <1>2 DEF Ops, Consuming
    <3>. QED  BY <1>2, <1>4, <3>1, CallIs
  <2>2. WellAsked(c)
    BY <1>2, <1>4, <2>1 DEF WellAsked, Creating, Consuming
  <2>. QED  BY <1>2, <1>4, <2>2 DEF InPlace, ShellThere, CommandThere, Creating, Consuming
<1>6. Ground' /\ Alters(w, c, Phase("asked"))
  <2>1. Ground /\ c.op # "idle" /\ "ends" \in BudgetKinds /\ c.op \notin Creating
    BY <1>2 DEF IInv, Ground, Creating, BudgetKinds, Consuming
  <2>. QED  BY <1>1, <1>5, <2>1, BeginKeeps
<1>7. Told'
  BY <1>1, <1>3 DEF IInv, Told
<1>8. OneHandle'
  <2>1. \A u \in Workers \ {w} : call'[u] = call[u]
    BY <1>6 DEF Alters
  <2>2. call'[w].op \notin Opening
    BY <1>2, <1>6 DEF Alters, Opening, Consuming
  <2>. QED  BY <1>1, <2>1, <2>2 DEF IInv, OneHandle, Under
<1>9. ShellsAreHeld'
  <2>1. \A u \in Workers : \A h : InHand(u, h) => InHand(u, h)'
    BY <1>3, <1>6, HandsKeep
  <2>2. \A h : h.id = handle.id => InHand(w, h)'
    BY <1>2, <1>6 DEF Alters, InHand
  <2>3. Ids({handle} \ {None}) = {handle.id}
    BY <1>1 DEF Ids
  <2>. QED  BY <1>1, <1>3, <2>1, <2>2, <2>3 DEF IInv, ShellsAreHeld
<1>. QED  BY <1>6, <1>7, <1>8, <1>9 DEF IInv, Ground

LEMMA DropKeeps == ASSUME IInv, Drop PROVE IInv'
<1>1. /\ handle # None /\ excused' = excused \cup {handle.id} /\ handle' = None
      /\ UNCHANGED <<saved, known, call, wire, late, shells, commands, budget, config>>
  BY DEF Drop, service
<1>2. TypeInv' /\ Sound(shells, commands)' /\ Placed' /\ Numbered' /\ Once'
  <2>1. \A d : InPlace(d)' <=> InPlace(d)
    BY <1>1 DEF InPlace
  <2>. QED  BY <1>1, <2>1 DEF IInv, TypeInv, Sound, Placed, Numbered, Once
<1>3. Truthful'
  BY <1>1 DEF IInv, Truthful, Answered, Busy
<1>4. Told' /\ OneHandle'
  BY <1>1 DEF IInv, Told, OneHandle, Under
<1>5. ShellsAreHeld'
  <2>1. \A u \in Workers : \A h : InHand(u, h) => InHand(u, h)'
    BY <1>1 DEF InHand
  <2>2. Ids({handle} \ {None}) = {handle.id}
    BY <1>1 DEF Ids
  <2>. QED  BY <1>1, <2>1, <2>2 DEF IInv, ShellsAreHeld
<1>. QED  BY <1>2, <1>3, <1>4, <1>5 DEF IInv

-----------------------------------------------------------------------------
(* The service.                                                              *)

\* The service changes, and no call does.
LEMMA GrowthIsFelt ==
    ASSUME IInv, ShellsGrow(shells, shells'), CommandsGrow(commands, commands'),
           UNCHANGED <<handle, saved, known, call, budget, config>>, late' \subseteq late
    PROVE  /\ Placed' /\ Told' /\ OneHandle'
           /\ \A u \in Workers : Answered(u) =>
                 Verdict(call[u], wire[u], config.method, shells', commands')
           /\ \A i \in DOMAIN shells :
                 \/ shells'[i].life = "deleted" \/ \E u \in Workers : InHand(u, shells[i])'
                 \/ shells'[i].id \in Ids({handle'} \ {None}) \cup Ids(saved') \cup excused
           /\ (\A i \in DOMAIN shells' \ DOMAIN shells :
                   shells'[i].by \in Nat /\ shells'[i].by > budget.opens) => Numbered'
<1>1. Placed'
  <2>1. \A d : InPlace(d) => InPlace(d)'
    BY GrowthKeeps DEF InPlace
  <2>. QED  BY <2>1 DEF IInv, Placed
<1>2. Told'
  <2>1. \A s : ShellKnown(shells, s) => ShellKnown(shells', s)
    BY DEF ShellKnown, ShellsGrow
  <2>2. \A k : CommandKnown(commands, k) => CommandKnown(commands', k)
    BY DEF CommandKnown, CommandsGrow, SameCommand
  <2>. QED  BY <2>1, <2>2 DEF IInv, Told
<1>3. OneHandle'
  BY DEF IInv, OneHandle, Under
<1>4. \A u \in Workers : Answered(u) =>
                 Verdict(call[u], wire[u], config.method, shells', commands')
  <2>1. \A c, doc : Fulfilled(c, doc, shells, commands) => Fulfilled(c, doc, shells', commands')
    BY GrowthKeeps
  <2>. QED  BY <2>1 DEF IInv, Truthful, Verdict
<1>5. ASSUME NEW i \in DOMAIN shells
      PROVE  \/ shells'[i].life = "deleted" \/ \E u \in Workers : InHand(u, shells[i])'
             \/ shells'[i].id \in Ids({handle'} \ {None}) \cup Ids(saved') \cup excused
  <2>1. /\ shells'[i].id = shells[i].id /\ shells'[i].by = shells[i].by
        /\ shells[i].life = "deleted" => shells'[i].life = "deleted"
    BY DEF ShellsGrow
  <2>2. \/ shells[i].life = "deleted" \/ \E u \in Workers : InHand(u, shells[i])
        \/ shells[i].id \in Ids({handle} \ {None}) \cup Ids(saved) \cup excused
    BY DEF IInv, ShellsAreHeld
  <2>3. \A u \in Workers : InHand(u, shells[i]) => InHand(u, shells[i])'
    BY <2>1 DEF InHand
  <2>. QED  BY <2>1, <2>2, <2>3
<1>6. ASSUME \A i \in DOMAIN shells' \ DOMAIN shells : shells'[i].by \in Nat /\ shells'[i].by > budget.opens
      PROVE  Numbered'
  <2>1. \A i \in DOMAIN shells' : shells'[i].by \in Nat /\ shells'[i].by > budget.opens
    BY <1>6 DEF ShellsGrow, IInv, Numbered
  <2>. QED  BY <2>1 DEF IInv, Numbered
<1>. QED  BY <1>1, <1>2, <1>3, <1>4, <1>5, <1>6

\* The shell a request creates is the first of its number.
LEMMA NumberIsNew ==
    ASSUME IInv, NEW c, InPlace(c), c \in late \/ \E w \in Workers : c = call[w], c.op \in Creating
    PROVE  c.number \in Nat /\ c.number > budget.opens
<1>1. c.number \in Nat
  BY DEF InPlace, WellAsked, IsCall
<1>. QED  BY <1>1 DEF IInv, Numbered

\* A request that is served at once.
LEMMA ServeKeeps == ASSUME IInv, NEW w \in Workers, Serve(w) PROVE IInv'
<1>. DEFINE c == call[w]
<1>1. Asked(w) /\ UNCHANGED <<handle, saved, known, call, late, budget, config, excused>>
  BY DEF Serve, caller, history
<1>2. PICK o \in Served(RequestOf(call[w]), call[w].number) :
        /\ shells' = o.shells /\ commands' = o.commands
        /\ \E status \in IF HasFault(o.doc) THEN {200, 500} ELSE {200} :
              wire' = [wire EXCEPT ![w] = [phase |-> "answered", status |-> status, token |-> Proof,
                                           doc |-> o.doc, reason |-> Reason(call[w])]]
  BY Zenon DEF Serve
<1>3. PICK status \in IF HasFault(o.doc) THEN {200, 500} ELSE {200} :
        wire' = [wire EXCEPT ![w] = [phase |-> "answered", status |-> status, token |-> Proof,
                                     doc |-> o.doc, reason |-> Reason(c)]]
  BY <1>2, Zenon
<1>. DEFINE x == [phase |-> "answered", status |-> status, token |-> Proof,
                  doc |-> o.doc, reason |-> Reason(c)]
<1>4. /\ x.phase = "answered" /\ x.status = status /\ x.token = Proof /\ x.doc = o.doc
      /\ Reason(c) => x.reason
      /\ status = 200 \/ (status = 500 /\ HasFault(x.doc))
  OBVIOUS
<1>5. wire' = [wire EXCEPT ![w] = x]
  BY <1>3
<1>. HIDE DEF x
<1>6. /\ InPlace(c) /\ c.op # "idle" /\ Sound(shells, commands) /\ config \in Configs
  BY <1>1 DEF IInv, Placed, Asked, Busy, TypeInv
<1>7. /\ Sound(o.shells, o.commands)
      /\ ShellsGrow(shells, shells') /\ CommandsGrow(commands, commands')
      /\ \/ DOMAIN o.shells = DOMAIN shells
         \/ LET n == Len(o.shells)
            IN /\ c.op \in Creating /\ Len(shells) \in Nat /\ n = Len(shells) + 1
               /\ DOMAIN o.shells = DOMAIN shells \cup {n} /\ o.shells[n].by = c.number
      /\ HasFault(o.doc) => Reason(c)
      /\ ~HasFault(o.doc) => Fulfilled(c, o.doc, o.shells, o.commands)
  BY <1>2, <1>6, ServedGrows
<1>8. \A i \in DOMAIN shells' \ DOMAIN shells : c.op \in Creating /\ shells'[i].by = c.number
  BY <1>2, <1>7
<1>9. \A i, j \in DOMAIN shells' : i \notin DOMAIN shells /\ j \notin DOMAIN shells => i = j
  BY <1>2, <1>7
<1>10. /\ Placed' /\ Told' /\ OneHandle'
       /\ \A u \in Workers : Answered(u) =>
             Verdict(call[u], wire[u], config.method, shells', commands')
       /\ \A i \in DOMAIN shells :
             \/ shells'[i].life = "deleted" \/ \E u \in Workers : InHand(u, shells[i])'
             \/ shells'[i].id \in Ids({handle'} \ {None}) \cup Ids(saved') \cup excused
       /\ (\A i \in DOMAIN shells' \ DOMAIN shells :
               shells'[i].by \in Nat /\ shells'[i].by > budget.opens) => Numbered'
  BY <1>1, <1>7, GrowthIsFelt
<1>11. TypeInv' /\ wire'[w] = x /\ \A u \in Workers \ {w} : wire'[u] = wire[u]
  BY <1>1, <1>5 DEF IInv, TypeInv
<1>12. Sound(shells, commands)'
  <2>1. Sound(shells', commands')
    BY <1>2, <1>7
  <2>. QED  BY <2>1 DEF Sound, ShellSound, CommandSound
<1>13. Numbered'
  <2>1. c.op \in Creating => c.number \in Nat /\ c.number > budget.opens
    BY <1>6, NumberIsNew
  <2>. QED  BY <1>8, <1>10, <2>1
<1>14. Once'
  <2>1. ASSUME NEW u \in Workers
        PROVE  /\ wire'[u].phase = "broken" => call'[u].lost
               /\ call'[u].op \in Creating /\ ~call'[u].lost =>
                     /\ \A i, j \in DOMAIN shells' :
                           shells'[i].by = call'[u].number /\ shells'[j].by = call'[u].number => i = j
                     /\ wire'[u].phase = "asked" => \A i \in DOMAIN shells' : shells'[i].by # call'[u].number
    <3>1. /\ wire[u].phase = "broken" => call[u].lost
          /\ call[u].op \in Creating /\ ~call[u].lost =>
                /\ \A i, j \in DOMAIN shells :
                      shells[i].by = call[u].number /\ shells[j].by = call[u].number => i = j
                /\ wire[u].phase = "asked" => \A i \in DOMAIN shells : shells[i].by # call[u].number
      BY DEF IInv, Once
    <3>2. \A i \in DOMAIN shells : shells'[i].by = shells[i].by
      BY <1>7 DEF ShellsGrow
    <3>3. CASE u = w
      <4>1. wire'[u].phase = "answered" /\ wire[u].phase = "asked"
        BY <1>1, <1>4, <1>11, <3>3 DEF Asked
      <4>. QED  BY <1>1, <1>9, <3>1, <3>2, <4>1
    <3>4. CASE u # w
      <4>1. call[u].op \in Creating /\ c.op \in Creating => call[u].number # c.number
        BY <3>4 DEF IInv, Numbered
      <4>. QED  BY <1>1, <1>8, <1>11, <3>1, <3>2, <3>4, <4>1
    <3>. QED  BY <3>3, <3>4
  <2>. QED  BY <2>1 DEF Once
<1>15. Truthful'
  <2>1. Verdict(c, x, config.method, shells', commands')
    <3>1. SendSoap(config.method, x) = IF HasFault(x.doc) THEN "soap" ELSE "ok"
      BY <1>2, <1>4, <1>6, ServiceAnswers
    <3>2. c.op = "receive" => Reason(c)
      BY DEF Reason, Creating
    <3>. QED  BY <1>2, <1>4, <1>7, <3>1, <3>2 DEF Verdict
  <2>2. ASSUME NEW u \in Workers, Answered(u)'
        PROVE  Verdict(call'[u], wire'[u], config'.method, shells', commands')
    <3>1. CASE u = w
      BY <1>1, <1>11, <2>1, <3>1
    <3>2. CASE u # w
      <4>1. Answered(u)
        BY <1>1, <1>11, <2>2, <3>2 DEF Answered, Busy
      <4>. QED  BY <1>1, <1>10, <1>11, <3>2, <4>1
    <3>. QED  BY <3>1, <3>2
  <2>. QED  BY <2>2 DEF Truthful
<1>16. ShellsAreHeld'
  <2>1. \A i \in DOMAIN shells' \ DOMAIN shells : InHand(w, shells[i])'
    BY <1>1, <1>8 DEF InHand
  <2>. QED  BY <1>1, <1>10, <2>1 DEF ShellsAreHeld
<1>. QED  BY <1>10, <1>11, <1>12, <1>13, <1>14, <1>15, <1>16 DEF IInv

\* A request that is served after its call gave it up.
LEMMA ServeLateKeeps == ASSUME IInv, ServeLate PROVE IInv'
<1>1. PICK c \in late, created \in BOOLEAN :
        /\ \E o \in Served(RequestOf(c), c.number) :
              /\ shells' = o.shells /\ commands' = o.commands
              /\ created = (Len(o.shells) > Len(shells))
        /\ late' = late \ {c}
        /\ excused' = excused \cup (IF created THEN {shells'[Len(shells')].id} ELSE {})
        /\ UNCHANGED <<handle, saved, known, call, wire, budget, config>>
  BY DEF ServeLate, caller
<1>2. PICK o \in Served(RequestOf(c), c.number) :
              /\ shells' = o.shells /\ commands' = o.commands
              /\ created = (Len(o.shells) > Len(shells))
  BY <1>1
<1>6. /\ InPlace(c) /\ c.op # "idle" /\ Sound(shells, commands) /\ config \in Configs
  BY DEF IInv, Placed, TypeInv
<1>7. /\ Sound(o.shells, o.commands)
      /\ ShellsGrow(shells, shells') /\ CommandsGrow(commands, commands')
      /\ \/ DOMAIN o.shells = DOMAIN shells
         \/ LET n == Len(o.shells)
            IN /\ c.op \in Creating /\ Len(shells) \in Nat /\ n = Len(shells) + 1
               /\ DOMAIN o.shells = DOMAIN shells \cup {n} /\ o.shells[n].by = c.number
  BY <1>2, <1>6, ServedGrows
<1>8. \A i \in DOMAIN shells' \ DOMAIN shells :
          c.op \in Creating /\ shells'[i].by = c.number /\ shells'[i].id \in excused'
  <2>1. CASE DOMAIN o.shells = DOMAIN shells
    BY <1>2, <2>1
  <2>2. CASE DOMAIN o.shells # DOMAIN shells
    <3>. DEFINE n == Len(o.shells)
    <3>1. /\ c.op \in Creating /\ Len(shells) \in Nat /\ n = Len(shells) + 1
          /\ DOMAIN o.shells = DOMAIN shells \cup {n} /\ o.shells[n].by = c.number
      BY <1>7, <2>2
    <3>2. Len(o.shells) > Len(shells)
      BY <3>1
    <3>3. created
      BY <1>2, <3>2, Zenon
    <3>4. excused' = excused \cup {shells'[Len(shells')].id}
      BY <1>1, <3>3
    <3>. QED  BY <1>2, <3>1, <3>4
  <2>. QED  BY <2>1, <2>2
<1>10. /\ Placed' /\ Told' /\ OneHandle'
       /\ \A u \in Workers : Answered(u) =>
             Verdict(call[u], wire[u], config.method, shells', commands')
       /\ \A i \in DOMAIN shells :
             \/ shells'[i].life = "deleted" \/ \E u \in Workers : InHand(u, shells[i])'
             \/ shells'[i].id \in Ids({handle'} \ {None}) \cup Ids(saved') \cup excused
       /\ (\A i \in DOMAIN shells' \ DOMAIN shells :
               shells'[i].by \in Nat /\ shells'[i].by > budget.opens) => Numbered'
  <2>1. late' \subseteq late
    BY <1>1
  <2>. QED  BY <1>1, <1>7, <2>1, GrowthIsFelt
<1>11. TypeInv'
  BY <1>1 DEF IInv, TypeInv
<1>12. Sound(shells, commands)'
  <2>1. Sound(shells', commands')
    BY <1>2, <1>7
  <2>. QED  BY <2>1 DEF Sound, ShellSound, CommandSound
<1>13. Numbered'
  <2>1. c.op \in Creating => c.number \in Nat /\ c.number > budget.opens
    BY <1>6, NumberIsNew
  <2>. QED  BY <1>8, <1>10, <2>1
<1>14. Once'
  <2>1. ASSUME NEW u \in Workers
        PROVE  /\ wire'[u].phase = "broken" => call'[u].lost
               /\ call'[u].op \in Creating /\ ~call'[u].lost =>
                     /\ \A i, j \in DOMAIN shells' :
                           shells'[i].by = call'[u].number /\ shells'[j].by = call'[u].number => i = j
                     /\ wire'[u].phase = "asked" => \A i \in DOMAIN shells' : shells'[i].by # call'[u].number
    <3>1. /\ wire[u].phase = "broken" => call[u].lost
          /\ call[u].op \in Creating /\ ~call[u].lost =>
                /\ \A i, j \in DOMAIN shells :
                      shells[i].by = call[u].number /\ shells[j].by = call[u].number => i = j
                /\ wire[u].phase = "asked" => \A i \in DOMAIN shells : shells[i].by # call[u].number
      BY DEF IInv, Once
    <3>2. \A i \in DOMAIN shells : shells'[i].by = shells[i].by
      BY <1>7 DEF ShellsGrow
    <3>3. call[u].op \in Creating /\ ~call[u].lost /\ c.op \in Creating => call[u].number # c.number
      BY DEF IInv, Numbered
    <3>. QED  BY <1>1, <1>8, <3>1, <3>2, <3>3
  <2>. QED  BY <2>1 DEF Once
<1>15. Truthful'
  BY <1>1, <1>10 DEF Truthful, Answered, Busy
<1>16. ShellsAreHeld'
  <2>1. excused \subseteq excused'
    BY <1>1
  <2>2. \A i \in DOMAIN shells' :
               \/ shells'[i].life = "deleted" \/ \E u \in Workers : InHand(u, shells[i])'
               \/ shells'[i].id \in Ids({handle'} \ {None}) \cup Ids(saved') \cup excused'
    BY <1>8, <1>10, <2>1
  <2>. QED  BY ONLY <2>2 DEF ShellsAreHeld
<1>. QED  BY <1>10, <1>11, <1>12, <1>13, <1>14, <1>15, <1>16 DEF IInv

\* A disconnected shell that times out.
LEMMA ReapKeeps == ASSUME IInv, Reap PROVE IInv'
<1>1. PICK i \in DOMAIN shells :
        /\ shells[i].life = "disconnected" /\ shells' = [shells EXCEPT ![i].life = "deleted"]
        /\ UNCHANGED <<handle, saved, known, call, wire, late, commands, budget, config, excused>>
  BY DEF Reap, caller, history
<1>2. /\ Sound(shells', commands) /\ ShellsGrow(shells, shells') /\ DOMAIN shells' = DOMAIN shells
  <2>1. Sound(shells, commands) /\ "deleted" \in ShellStates /\ shells[i].life # "deleted"
    BY <1>1 DEF IInv, ShellStates
  <2>. PICK tt : tt = shells'
    OBVIOUS
  <2>2. tt = [shells EXCEPT ![i].life = "deleted"] /\ i \in DOMAIN shells
    BY <1>1
  <2>3. Sound(tt, commands) /\ ShellsGrow(shells, tt) /\ DOMAIN tt = DOMAIN shells
    BY ONLY <2>1, <2>2, ShellChanged
  <2>. QED  BY <2>3
<1>3. CommandsGrow(commands, commands')
  BY <1>1, Unchanged
<1>10. /\ Placed' /\ Told' /\ OneHandle'
       /\ \A u \in Workers : Answered(u) =>
             Verdict(call[u], wire[u], config.method, shells', commands')
       /\ \A k \in DOMAIN shells :
             \/ shells'[k].life = "deleted" \/ \E u \in Workers : InHand(u, shells[k])'
             \/ shells'[k].id \in Ids({handle'} \ {None}) \cup Ids(saved') \cup excused
       /\ (\A k \in DOMAIN shells' \ DOMAIN shells :
               shells'[k].by \in Nat /\ shells'[k].by > budget.opens) => Numbered'
  <2>1. late' \subseteq late
    BY <1>1
  <2>. QED  BY <1>1, <1>2, <1>3, <2>1, GrowthIsFelt
<1>11. TypeInv'
  BY <1>1 DEF IInv, TypeInv
<1>12. Sound(shells, commands)'
  <2>1. Sound(shells', commands')
    BY <1>1, <1>2
  <2>. QED  BY <2>1 DEF Sound, ShellSound, CommandSound
<1>13. Numbered'
  BY <1>2, <1>10
<1>14. Once'
  <2>1. \A k \in DOMAIN shells : shells'[k].by = shells[k].by
    BY <1>2 DEF ShellsGrow
  <2>. QED  BY <1>1, <1>2, <2>1 DEF IInv, Once
<1>15. Truthful'
  BY <1>1, <1>10 DEF Truthful, Answered, Busy
<1>16. ShellsAreHeld'
  <2>1. \A k \in DOMAIN shells' :
               \/ shells'[k].life = "deleted" \/ \E u \in Workers : InHand(u, shells[k])'
               \/ shells'[k].id \in Ids({handle'} \ {None}) \cup Ids(saved') \cup excused'
    BY <1>1, <1>2, <1>10
  <2>. QED  BY ONLY <2>1 DEF ShellsAreHeld
<1>. QED  BY <1>10, <1>11, <1>12, <1>13, <1>14, <1>15, <1>16 DEF IInv

-----------------------------------------------------------------------------
(* Exchanges that fail, and retries.                                         *)

\* One call goes on or ends, and the service does nothing.
LEMMA CallKeeps ==
    ASSUME IInv, NEW w \in Workers, NEW c, NEW x, Alters(w, c, x), Busy(w),
           UNCHANGED <<shells, commands, config>>,
           budget' \in [BudgetKinds -> Nat], budget'.opens = budget.opens,
           late' \in {late, late \cup {call[w]}}, InPlace(c),
           c.op \in Creating => /\ c.op = call[w].op /\ c.number = call[w].number
                                /\ call[w].lost \/ late' # late => c.lost
                                /\ x.phase = "asked" => c.lost,
           x.phase = "broken" => c.lost,
           x.phase = "answered" => Verdict(c, x, config.method, shells, commands)
    PROVE  Ground'
<1>1. TypeInv'
  BY DEF IInv, TypeInv, Alters
<1>2. Sound(shells, commands)'
  BY DEF IInv, Sound
<1>3. Placed'
  <2>1. \A d : InPlace(d)' <=> InPlace(d)
    BY DEF InPlace
  <2>. QED  BY <2>1 DEF IInv, Placed, Alters, Busy
<1>4. Numbered'
  <2>1. \A u \in Workers \ {w} : call'[u] = call[u]
    BY DEF Alters
  <2>2. c.op \in Creating => call[w].op \in Creating /\ call[w].number = c.number
    OBVIOUS
  <2>3. call'[w] = c
    BY DEF Alters
  <2>4. \A u \in Workers : call'[u].op \in Creating =>
              call[u].op \in Creating /\ call'[u].number = call[u].number /\ (call[u].lost => call'[u].lost)
    BY <2>1, <2>2, <2>3
  <2>5. \A u \in Workers : call'[u].op \in Creating => call'[u].number > budget'.opens
    BY <2>4 DEF IInv, Numbered
  <2>6. \A d \in late' : d.op \in Creating => d.number > budget'.opens
    BY DEF IInv, Numbered
  <2>7. \A u, v \in Workers :
          call'[u].op \in Creating /\ call'[v].op \in Creating /\ u # v => call'[u].number # call'[v].number
    BY <2>4 DEF IInv, Numbered
  <2>8. ASSUME NEW d \in late', NEW u \in Workers, d.op \in Creating, call'[u].op \in Creating,
               d.number = call'[u].number
        PROVE  call'[u].lost
    <3>1. CASE d \in late
      BY <2>4, <2>8, <3>1 DEF IInv, Numbered
    <3>2. CASE d = call[w] /\ d \notin late
      <4>1. u = w
        BY <2>4, <2>8, <3>2 DEF IInv, Numbered
      <4>. QED  BY <2>3, <2>8, <3>2, <4>1
    <3>. QED  BY <3>1, <3>2
  <2>. QED  BY <2>5, <2>6, <2>7, <2>8 DEF IInv, Numbered
<1>5. Once'
  <2>1. ASSUME NEW u \in Workers
        PROVE  /\ wire'[u].phase = "broken" => call'[u].lost
               /\ call'[u].op \in Creating /\ ~call'[u].lost =>
                     /\ \A i, j \in DOMAIN shells' :
                           shells'[i].by = call'[u].number /\ shells'[j].by = call'[u].number => i = j
                     /\ wire'[u].phase = "asked" => \A i \in DOMAIN shells' : shells'[i].by # call'[u].number
    <3>1. /\ wire[u].phase = "broken" => call[u].lost
          /\ call[u].op \in Creating /\ ~call[u].lost =>
                /\ \A i, j \in DOMAIN shells :
                      shells[i].by = call[u].number /\ shells[j].by = call[u].number => i = j
                /\ wire[u].phase = "asked" => \A i \in DOMAIN shells : shells[i].by # call[u].number
      BY DEF IInv, Once
    <3>2. CASE u = w
      <4>1. call'[u] = c /\ wire'[u] = x
        BY <3>2 DEF Alters
      <4>. QED  BY <3>1, <3>2, <4>1
    <3>3. CASE u # w
      <4>1. call'[u] = call[u] /\ wire'[u] = wire[u]
        BY <3>3 DEF Alters
      <4>. QED  BY <3>1, <4>1
    <3>. QED  BY <3>2, <3>3
  <2>. QED  BY <2>1 DEF Once
<1>6. Truthful'
  <2>1. ASSUME NEW u \in Workers, Answered(u)'
        PROVE  Verdict(call'[u], wire'[u], config'.method, shells', commands')
    <3>1. CASE u = w
      <4>1. call'[u] = c /\ wire'[u] = x
        BY <3>1 DEF Alters
      <4>. QED  BY <2>1, <4>1 DEF Answered
    <3>2. CASE u # w
      <4>1. call'[u] = call[u] /\ wire'[u] = wire[u]
        BY <3>2 DEF Alters
      <4>2. Answered(u)
        BY <2>1, <4>1 DEF Answered, Busy
      <4>. QED  BY <4>1, <4>2 DEF IInv, Truthful
    <3>. QED  BY <3>1, <3>2
  <2>. QED  BY <2>1 DEF Truthful
<1>. QED  BY <1>1, <1>2, <1>3, <1>4, <1>5, <1>6 DEF Ground

\* The call is about the same as before.
Same(c, d) == c.op = d.op /\ c.number = d.number /\ c.shell = d.shell

LEMMA GoesOn ==
    ASSUME IInv, NEW w \in Workers, NEW c, NEW x, Alters(w, c, x), Same(c, call[w]), Ground',
           UNCHANGED <<handle, saved, known, shells, commands, excused>>
    PROVE  IInv'
<1>1. \A u \in Workers : Same(call'[u], call[u])
  BY DEF Alters, Same
<1>2. Told'
  BY DEF IInv, Told
<1>3. OneHandle'
  BY <1>1 DEF IInv, OneHandle, Under, Same
<1>4. ShellsAreHeld'
  <2>1. \A u \in Workers : \A s : InHand(u, s) => InHand(u, s)'
    BY <1>1 DEF InHand, Same
  <2>. QED  BY <2>1 DEF IInv, ShellsAreHeld
<1>. QED  BY <1>2, <1>3, <1>4 DEF IInv, Ground

LEMMA SpendIs ==
    ASSUME TypeInv, NEW kind \in BudgetKinds, kind # "opens", Spend(kind)
    PROVE  budget' \in [BudgetKinds -> Nat] /\ budget'.opens = budget.opens
<1>1. budget \in [BudgetKinds -> Nat] /\ "opens" \in BudgetKinds
  BY DEF TypeInv, BudgetKinds
<1>. QED  BY <1>1 DEF Spend

\* A request that is refused before it is served.
LEMMA RefuseKeeps == ASSUME IInv, NEW w \in Workers, Refuse(w) PROVE IInv'
<1>1. /\ Asked(w) /\ Spend("refusals")
      /\ UNCHANGED <<handle, saved, known, call, late, shells, commands, config, excused>>
  BY DEF Refuse, caller, service, history
<1>. DEFINE answers == [phase : {"answered"}, status : {401, 403, 503}, token : {None}, doc : {<<>>}]
                \cup (IF config.method = "kerberos"
                      THEN {[phase |-> "answered", status |-> 200, token |-> "bad", doc |-> Response(<<>>)]} ELSE {})
<1>0. \E r \in answers : wire' = [wire EXCEPT ![w] = r]
  BY DEF Refuse
<1>. HIDE DEF answers
<1>2. PICK r : r \in answers /\ wire' = [wire EXCEPT ![w] = r]
  BY <1>0
<1>. DEFINE c == call[w]
<1>3. /\ r.phase = "answered"
      /\ \/ r.status \in {401, 403, 503} /\ r.token = None
         \/ config.method = "kerberos" /\ r.token = "bad"
  BY <1>2 DEF answers
<1>4. Alters(w, c, r) /\ Busy(w)
  <2>1. call' = [call EXCEPT ![w] = c]
    BY <1>1 DEF IInv, TypeInv
  <2>2. TypeInv /\ Busy(w)
    BY <1>1 DEF IInv, Asked
  <2>3. wire' = [wire EXCEPT ![w] = r]
    BY <1>2
  <2>. HIDE DEF c
  <2>. QED  BY <2>1, <2>2, <2>3, AltersIs
<1>5. budget' \in [BudgetKinds -> Nat] /\ budget'.opens = budget.opens
  BY <1>1, SpendIs DEF IInv, BudgetKinds
<1>6. Verdict(c, r, config.method, shells, commands)
  BY <1>3, ServerRefuses DEF Verdict
<1>7. Ground'
  <2>1. InPlace(c)
    BY DEF IInv, Placed
  <2>. QED  BY <1>1, <1>3, <1>4, <1>5, <1>6, <2>1, CallKeeps
<1>. QED  BY <1>1, <1>4, <1>7, GoesOn DEF Same

\* An error response whose body broke off.
LEMMA BreakOffKeeps == ASSUME IInv, NEW w \in Workers, BreakOff(w) PROVE IInv'
<1>. DEFINE c == call[w]
            r == [phase |-> "answered", status |-> wire[w].status, token |-> wire[w].token, doc |-> <<>>]
<1>1. /\ Answered(w) /\ Spend("losses") /\ wire' = [wire EXCEPT ![w] = r]
      /\ UNCHANGED <<handle, saved, known, call, late, shells, commands, config, excused>>
  BY DEF BreakOff, caller, service, history
<1>2. r.phase = "answered" /\ SendSoap(config.method, r) \notin {"ok", "soap"}
  BY BrokenOff DEF BreakOff
<1>. HIDE DEF r
<1>3. Alters(w, c, r) /\ Busy(w)
  <2>1. call' = [call EXCEPT ![w] = c]
    BY <1>1 DEF IInv, TypeInv
  <2>2. TypeInv /\ Busy(w)
    BY <1>1 DEF IInv, Answered
  <2>. HIDE DEF c
  <2>. QED  BY <1>1, <2>1, <2>2, AltersIs
<1>4. budget' \in [BudgetKinds -> Nat] /\ budget'.opens = budget.opens
  BY <1>1, SpendIs DEF IInv, BudgetKinds
<1>5. Verdict(c, r, config.method, shells, commands)
  BY <1>2 DEF Verdict
<1>6. Ground'
  <2>1. InPlace(c)
    BY DEF IInv, Placed
  <2>. QED  BY <1>1, <1>2, <1>3, <1>4, <1>5, <2>1, CallKeeps
<1>. QED  BY <1>1, <1>3, <1>6, GoesOn DEF Same

\* Only how often it was tried, and whether an exchange was lost.
LEMMA StillInPlace ==
    ASSUME NEW d, InPlace(d), NEW c, DOMAIN c = DOMAIN d, c.lost \in BOOLEAN,
           c.op = d.op, c.api = d.api, c.shell = d.shell, c.uri = d.uri, c.command = d.command,
           c.number = d.number, c.end = d.end
    PROVE  InPlace(c)
<1>1. IsCall(c)
  BY DEF InPlace, WellAsked, IsCall
<1>2. WellAsked(c)
  BY <1>1 DEF InPlace, WellAsked
<1>. QED  BY <1>2 DEF InPlace, ShellThere, CommandThere

\* A lost request or answer.
LEMMA LoseKeeps == ASSUME IInv, NEW w \in Workers, Lose(w) PROVE IInv'
<1>1. /\ Busy(w) /\ Spend("losses")
      /\ wire' = [wire EXCEPT ![w] = Phase("broken")] /\ call' = [call EXCEPT ![w].lost = TRUE]
      /\ late' \in {late, late \cup {call[w]}}
      /\ UNCHANGED <<handle, saved, known, shells, commands, config, excused>>
  BY DEF Lose, Asked, Answered, caller, service
<1>. DEFINE d == call[w]
<1>0. PICK c : c = [d EXCEPT !.lost = TRUE]
  OBVIOUS
<1>2. InPlace(d)
  BY DEF IInv, Placed
<1>3. /\ DOMAIN c = DOMAIN d /\ c.lost /\ c.lost \in BOOLEAN
      /\ c.op = d.op /\ c.api = d.api /\ c.shell = d.shell /\ c.uri = d.uri /\ c.command = d.command
      /\ c.number = d.number /\ c.end = d.end
  BY <1>0, <1>2 DEF InPlace, WellAsked, IsCall
<1>4. call' = [call EXCEPT ![w] = c]
  BY <1>0, <1>1
<1>. HIDE DEF d
<1>5. Alters(w, c, Phase("broken"))
  BY <1>1, <1>4, AltersIs DEF IInv
<1>6. budget' \in [BudgetKinds -> Nat] /\ budget'.opens = budget.opens
  BY <1>1, SpendIs DEF IInv, BudgetKinds
<1>7. InPlace(c)
  BY <1>2, <1>3, StillInPlace
<1>8. Ground'
  <2>1. Phase("broken").phase = "broken"
    BY DEF Phase
  <2>. QED  BY <1>1, <1>3, <1>5, <1>6, <1>7, <2>1, CallKeeps DEF d
<1>. QED  BY <1>1, <1>3, <1>5, <1>8, GoesOn DEF Same, d

\* send_soap_with_retry asks again.
LEMMA RetryKeeps == ASSUME IInv, NEW w \in Workers, Retry(w) PROVE IInv'
<1>1. /\ Busy(w) /\ wire[w].phase = "broken"
      /\ wire' = [wire EXCEPT ![w] = Phase("asked")] /\ call' = [call EXCEPT ![w].attempt = @ + 1]
      /\ UNCHANGED <<handle, saved, known, late, shells, commands, budget, config, excused>>
  BY DEF Retry, Broken, caller, service, history
<1>. DEFINE d == call[w]
<1>0. PICK c : c = [d EXCEPT !.attempt = @ + 1]
  OBVIOUS
<1>2. InPlace(d) /\ d.lost
  BY <1>1 DEF IInv, Placed, Once
<1>3. /\ DOMAIN c = DOMAIN d /\ c.lost = d.lost
      /\ c.op = d.op /\ c.api = d.api /\ c.shell = d.shell /\ c.uri = d.uri /\ c.command = d.command
      /\ c.number = d.number /\ c.end = d.end
  BY <1>0, <1>2 DEF InPlace, WellAsked, IsCall
<1>4. call' = [call EXCEPT ![w] = c]
  BY <1>0, <1>1
<1>. HIDE DEF d
<1>5. Alters(w, c, Phase("asked"))
  BY <1>1, <1>4, AltersIs DEF IInv
<1>6. budget' \in [BudgetKinds -> Nat] /\ budget'.opens = budget.opens
  BY <1>1 DEF IInv, TypeInv
<1>7. InPlace(c) /\ c.lost
  <2>1. d.lost \in BOOLEAN
    BY <1>2 DEF InPlace, WellAsked, IsCall
  <2>. QED  BY <1>2, <1>3, <2>1, StillInPlace
<1>8. Ground'
  <2>1. Phase("asked").phase = "asked"
    BY DEF Phase
  <2>. QED  BY <1>1, <1>3, <1>5, <1>6, <1>7, <2>1, CallKeeps DEF d
<1>. QED  BY <1>1, <1>3, <1>5, <1>8, GoesOn DEF Same, d

-----------------------------------------------------------------------------
(* Calls that end.                                                           *)

\* What a call that succeeds gives its caller.
Gives(c, p) ==
    /\ c.op \in Creating =>
          \E i \in DOMAIN shells : shells[i].by = c.number /\ shells[i].uri = c.uri /\ p = shells[i].id
    /\ c.op \in {"close", "delete"} =>
          \E i \in DOMAIN shells : shells[i].id = c.shell /\ shells[i].life = "deleted"
    /\ c.op = "start" =>
          \E i \in DOMAIN commands : commands[i].shell = c.shell /\ commands[i].id = p

\* The handle after a call that creates.
LEMMA OpenedIs ==
    ASSUME NEW c, NEW result, NEW p, NEW h, h = Opened(c, result, p)
    PROVE  /\ ~(result = "ok" /\ c.op \in Opening) => h = handle
           /\ result = "ok" /\ c.op \in Opening =>
                 /\ DOMAIN h = {"id", "uri"} /\ h.uri = c.uri
                 /\ h = [id |-> h.id, uri |-> h.uri]
                 /\ h.id = IF c.op = "reconnect" THEN c.shell ELSE p
  BY DEF Opened

\* The shells known by id after a call.
LEMMA KeptIs ==
    ASSUME NEW c, NEW result, NEW p
    PROVE  /\ \A s \in Kept(c, result, p) :
                 \/ s \in saved
                 \/ result = "ok" /\ c.op = "create" /\ s = [id |-> p, uri |-> CMD]
                 \/ c.op \in {"disconnect", "reconnect"} /\ s = [id |-> c.shell, uri |-> c.uri]
           /\ \A s \in saved : \/ s \in Kept(c, result, p)
                               \/ result = "ok" /\ c.op = "delete" /\ s.id = c.shell
           /\ result = "ok" /\ c.op = "create" => p \in Ids(Kept(c, result, p))
           /\ \/ result = "ok" /\ c.op = "disconnect"
              \/ result # "ok" /\ c.op = "reconnect"
              => c.shell \in Ids(Kept(c, result, p))
<1>. DEFINE K == Kept(c, result, p)
<1>1. \A s \in K : \/ s \in saved
                   \/ result = "ok" /\ c.op = "create" /\ s = [id |-> p, uri |-> CMD]
                   \/ c.op \in {"disconnect", "reconnect"} /\ s = [id |-> c.shell, uri |-> c.uri]
  BY DEF Kept
<1>2. \A s \in saved : s \in K \/ (result = "ok" /\ c.op = "delete" /\ s.id = c.shell)
  BY DEF Kept
<1>3. ASSUME result = "ok", c.op = "create" PROVE p \in Ids(K)
  <2>. PICK s : s = [id |-> p, uri |-> CMD]
    OBVIOUS
  <2>1. s \in K
    BY <1>3 DEF Kept
  <2>2. s.id = p
    OBVIOUS
  <2>. QED  BY <2>1, <2>2 DEF Ids
<1>4. ASSUME \/ result = "ok" /\ c.op = "disconnect"
             \/ result # "ok" /\ c.op = "reconnect"
      PROVE  c.shell \in Ids(K)
  <2>. PICK s : s = [id |-> c.shell, uri |-> c.uri]
    OBVIOUS
  <2>1. s \in K
    BY <1>4 DEF Kept
  <2>2. s.id = c.shell
    OBVIOUS
  <2>. QED  BY <2>1, <2>2 DEF Ids
<1>. QED  BY <1>1, <1>2, <1>3, <1>4

LEMMA KnownPair ==
    ASSUME NEW ss, NEW id \in ShellNames, NEW uri \in {CMD, PSRP}, NEW s, s = [id |-> id, uri |-> uri],
           NEW i \in DOMAIN ss, ss[i].id = id, ss[i].uri = uri
    PROVE  ShellKnown(ss, s)
  BY DEF ShellKnown

\* A call ends with a result, and its worker is idle.
LEMMA CallEnds ==
    ASSUME IInv, NEW w \in Workers, Busy(w), Alters(w, Idle, Phase("none")),
           NEW result, NEW p, result = "ok" => Gives(call[w], p), result # "ok" => p = None,
           UNCHANGED <<shells, commands, config>>,
           budget' \in [BudgetKinds -> Nat], budget'.opens = budget.opens,
           late' \in {late, late \cup {call[w]}},
           handle' = Opened(call[w], result, p), saved' = Kept(call[w], result, p),
           excused' = excused \cup Unclaimed(call[w], result, p),
           known' = IF result = "ok" /\ call[w].op = "start"
                    THEN known \cup {[shell |-> call[w].shell, id |-> p]} ELSE known
    PROVE  IInv'
<1>. DEFINE c == call[w]
<1>1. InPlace(c) /\ c.op # "idle"
  BY DEF IInv, Placed, Busy
<1>2. Ground'
  <2>1. InPlace(Idle) /\ Idle.op = "idle" /\ "idle" \notin Creating
    <3>1. IsCall(Idle)
      <4>. PICK d : d = Idle
        OBVIOUS
      <4>1. /\ DOMAIN d = DOMAIN Idle /\ d.op = "idle" /\ d.api = "handle" /\ d.uri = CMD /\ d.number = 0
            /\ d.end \in BOOLEAN /\ d.lost \in BOOLEAN
        BY IdleIs
      <4>2. d.op \in Ops
        BY <4>1 DEF Ops
      <4>3. IsCall(d)
        BY <4>1, <4>2, CallIs
      <4>. QED  BY <4>3
    <3>2. WellAsked(Idle)
      BY <3>1, IdleIs DEF WellAsked, Creating, Consuming
    <3>. QED  BY <3>2, IdleIs DEF InPlace, ShellThere, CommandThere, Creating
  <2>2. Phase("none").phase = "none"
    BY DEF Phase
  <2>. QED  BY <2>1, <2>2, CallKeeps
<1>4. c.uri \in {CMD, PSRP} /\ (c.op \in {"open", "create"} => c.uri = CMD)
  BY <1>1 DEF InPlace, WellAsked, IsCall
<1>5. c.op \in {"disconnect", "reconnect"} =>
          /\ c.shell \in ShellNames
          /\ \E i \in DOMAIN shells : shells[i].id = c.shell /\ shells[i].uri = c.uri
  BY <1>1 DEF InPlace, WellAsked, ShellThere, Creating, Consuming
<1>6. \A i \in DOMAIN shells : shells[i].id \in ShellNames
  BY DEF IInv, Sound, ShellSound, ShellNames, Named
<1>7. result = "ok" /\ c.op \in Creating =>
          p \in ShellNames /\ \E i \in DOMAIN shells : shells[i].id = p /\ shells[i].uri = c.uri
                                                       /\ shells[i].by = c.number
  BY <1>6 DEF Gives
<1>8. \A s : /\ s = [id |-> c.shell, uri |-> c.uri] /\ c.op \in {"disconnect", "reconnect"} =>
                    ShellKnown(shells, s)
             /\ s = [id |-> p, uri |-> c.uri] /\ result = "ok" /\ c.op \in Creating =>
                    ShellKnown(shells, s)
  BY <1>4, <1>5, <1>7, KnownPair
<1>9. handle' # None => ShellKnown(shells', handle')
  <2>1. CASE ~(result = "ok" /\ c.op \in Opening)
    BY <2>1, OpenedIs DEF IInv, Told
  <2>2. CASE result = "ok" /\ c.op \in Opening
    <3>1. /\ handle' = [id |-> handle'.id, uri |-> handle'.uri] /\ handle'.uri = c.uri
          /\ handle'.id = IF c.op = "reconnect" THEN c.shell ELSE p
      BY <2>2, OpenedIs
    <3>2. c.op = "reconnect" \/ c.op \in Creating
      BY <2>2 DEF Opening, Creating
    <3>3. CASE c.op = "reconnect"
      BY <1>8, <3>1, <3>3
    <3>4. CASE c.op \in Creating
      <4>1. c.op # "reconnect"
        BY <3>4 DEF Creating
      <4>. QED  BY <1>8, <2>2, <3>1, <3>4, <4>1
    <3>. QED  BY <3>2, <3>3, <3>4
  <2>. QED  BY <2>1, <2>2
<1>10. \A s \in saved' : ShellKnown(shells', s)
  <2>1. \A s \in saved : ShellKnown(shells, s)
    BY DEF IInv, Told
  <2>2. \A s \in saved' : \/ s \in saved
                          \/ result = "ok" /\ c.op = "create" /\ s = [id |-> p, uri |-> c.uri]
                          \/ c.op \in {"disconnect", "reconnect"} /\ s = [id |-> c.shell, uri |-> c.uri]
    BY <1>4, KeptIs
  <2>3. "create" \in Creating
    BY DEF Creating
  <2>. QED  BY <1>8, <2>1, <2>2, <2>3
<1>11. \A k \in known' : CommandKnown(commands', k)
  <2>1. \A k \in known : CommandKnown(commands, k)
    BY DEF IInv, Told
  <2>2. ASSUME result = "ok", c.op = "start", NEW k, k = [shell |-> c.shell, id |-> p]
        PROVE  CommandKnown(commands, k)
    <3>1. k.shell = c.shell /\ k.id = p
      BY <2>2
    <3>. QED  BY <2>2, <3>1 DEF Gives, CommandKnown
  <2>. QED  BY <2>1, <2>2
<1>12. OneHandle'
  <2>1. \A u \in Workers \ {w} : call'[u] = call[u]
    BY DEF Alters
  <2>2. call'[w].op \notin Opening
    BY IdleIs DEF Alters, Opening
  <2>3. handle' = handle \/ c.op \in Opening
    BY OpenedIs
  <2>. QED  BY <2>1, <2>2, <2>3 DEF IInv, OneHandle, Under
<1>13. ShellsAreHeld'
  <2>1. ASSUME NEW i \in DOMAIN shells, shells[i].life # "deleted"
        PROVE  \/ \E u \in Workers : InHand(u, shells[i])'
               \/ shells[i].id \in Ids({handle'} \ {None}) \cup Ids(saved') \cup excused'
    <3>. DEFINE id == shells[i].id
    <3>1. id \in ShellNames /\ id # None
      BY <1>6, NoneAssumption
    <3>2. result = "ok" /\ c.op \in Opening /\ id = (IF c.op = "reconnect" THEN c.shell ELSE p) =>
              id \in Ids({handle'} \ {None})
      <4>. HIDE DEF c
      <4>1. SUFFICES ASSUME result = "ok", c.op \in Opening,
                            id = (IF c.op = "reconnect" THEN c.shell ELSE p)
                     PROVE  id \in Ids({handle'} \ {None})
        OBVIOUS
      <4>2. handle'.id = id /\ handle' = [id |-> handle'.id, uri |-> handle'.uri]
        BY <4>1, OpenedIs DEF c
      <4>3. handle' # None
        <5>1. handle'.uri = c.uri
          BY <4>1, OpenedIs DEF c
        <5>2. c.uri \in {CMD, PSRP}
          BY <1>4
        <5>. QED  BY <3>1, <4>2, <5>1, <5>2, NoneAssumption
      <4>. QED  BY <4>2, <4>3 DEF Ids
    <3>3. CASE \E u \in Workers \ {w} : InHand(u, shells[i])
      <4>1. \A u \in Workers \ {w} : call'[u] = call[u]
        BY DEF Alters
      <4>. QED  BY <3>3, <4>1 DEF InHand
    <3>4. CASE InHand(w, shells[i])
      <4>1. CASE c.op \in Creating /\ shells[i].by = c.number
        <5>1. id \in Unclaimed(c, result, p) \/ (result = "ok" /\ (~c.lost \/ id = p))
          BY <3>1, <4>1 DEF Unclaimed
        <5>2. result = "ok" /\ ~c.lost => id = p
          BY <1>7, <4>1 DEF IInv, Once
        <5>3. CASE result = "ok" /\ id = p
          <6>1. CASE c.op = "create"
            BY <5>3, <6>1, KeptIs
          <6>2. CASE c.op # "create"
            <7>1. c.op \in Opening /\ c.op # "reconnect"
              BY <4>1, <6>2 DEF Creating, Opening
            <7>. QED  BY <3>2, <5>3, <7>1
          <6>. QED  BY <6>1, <6>2
        <5>. QED  BY <5>1, <5>2, <5>3
      <4>2. CASE c.op \in Consuming /\ id = c.shell
        <5>1. CASE result # "ok"
          <6>1. c.op \notin Creating
            BY <4>2 DEF Creating, Consuming
          <6>. QED  BY <4>2, <5>1, <6>1 DEF Unclaimed
        <5>2. CASE result = "ok" /\ c.op = "close"
          BY <2>1, <4>2, <5>2 DEF Gives, IInv, Sound
        <5>3. CASE result = "ok" /\ c.op = "disconnect"
          BY <4>2, <5>3, KeptIs
        <5>. QED  BY <4>2, <5>1, <5>2, <5>3 DEF Consuming
      <4>3. CASE c.op = "reconnect" /\ id = c.shell
        <5>1. CASE result = "ok"
          <6>1. c.op \in Opening
            BY <4>3 DEF Opening
          <6>. QED  BY <3>2, <4>3, <5>1, <6>1
        <5>2. CASE result # "ok"
          BY <4>3, <5>2, KeptIs
        <5>. QED  BY <5>1, <5>2
      <4>. QED  BY <3>4, <4>1, <4>2, <4>3 DEF InHand
    <3>5. CASE id \in Ids({handle} \ {None})
      <4>1. handle # None
        BY <3>5 DEF Ids
      <4>2. c.op \notin Opening
        BY <4>1 DEF IInv, OneHandle, Under
      <4>3. handle' = handle
        BY <4>2, OpenedIs
      <4>. QED  BY <3>5, <4>3
    <3>6. CASE id \in Ids(saved)
      <4>1. PICK s \in saved : s.id = id
        BY <3>6 DEF Ids
      <4>2. ~(result = "ok" /\ c.op = "delete" /\ s.id = c.shell)
        BY <2>1, <4>1 DEF Gives, IInv, Sound
      <4>3. s \in saved'
        BY <4>2, KeptIs
      <4>. QED  BY <4>1, <4>3 DEF Ids
    <3>7. CASE id \in excused
      BY <3>7
    <3>. QED  BY <2>1, <3>3, <3>4, <3>5, <3>6, <3>7 DEF IInv, ShellsAreHeld
  <2>. QED  BY <2>1 DEF ShellsAreHeld
<1>. QED  BY <1>2, <1>9, <1>10, <1>11, <1>12, <1>13 DEF IInv, Ground, Told

-----------------------------------------------------------------------------
(* Results.                                                                  *)

\* What a result says of the answer it was made from.
LEMMA ResultOfAnswer ==
    ASSUME IInv, NEW w \in Workers, Answered(w)
    PROVE  /\ Result(w) = "ok" => Fulfilled(call[w], wire[w].doc, shells, commands)
           /\ Result(w) = "soap" => wire[w].reason
<1>. DEFINE r == SendSoap(config.method, wire[w])
            c == call[w]
            doc == wire[w].doc
<1>1. Result(w) = IF r = "ok" /\ Parsed(w) = None THEN "soap" ELSE r
  BY DEF Result, Answered, Broken
<1>2. \/ r \notin {"ok", "soap"}
      \/ r = "soap" /\ wire[w].reason
      \/ r = "ok" /\ Fulfilled(c, doc, shells, commands) /\ (c.op = "receive" => wire[w].reason)
  BY DEF IInv, Truthful, Verdict
<1>. HIDE DEF r
<1>3. ASSUME r = "ok", Fulfilled(c, doc, shells, commands), Parsed(w) = None PROVE c.op = "receive"
  <2>1. CASE c.op \in Creating
    <3>1. PICK i \in DOMAIN shells : ParseShellId(doc) = shells[i].id
      BY <1>3, <2>1 DEF Fulfilled
    <3>2. shells[i].id \in ShellNames
      BY DEF IInv, Sound, ShellSound, ShellNames, Named
    <3>3. Parsed(w) = ParseShellId(doc)
      BY <2>1 DEF Parsed
    <3>. QED  BY <1>3, <3>1, <3>2, <3>3, NoneAssumption
  <2>2. CASE c.op = "start"
    <3>1. PICK i \in DOMAIN commands : ParseCommandId(doc) = commands[i].id
      BY <1>3, <2>2 DEF Fulfilled
    <3>2. commands[i].id \in CommandNames
      BY DEF IInv, Sound, CommandSound, CommandNames, Named
    <3>3. Parsed(w) = ParseCommandId(doc)
      BY <2>2 DEF Parsed, Creating
    <3>. QED  BY <1>3, <3>1, <3>2, <3>3, NoneAssumption
  <2>3. CASE c.op \notin Creating /\ c.op # "start" /\ c.op # "receive"
    <3>1. Parsed(w) = TRUE
      BY <2>3 DEF Parsed
    <3>. QED  BY <1>3, <3>1, NoneAssumption
  <2>. QED  BY <2>1, <2>2, <2>3
<1>4. Result(w) = "ok" => Fulfilled(c, doc, shells, commands)
  BY <1>1, <1>2
<1>5. ASSUME Result(w) = "soap" PROVE wire[w].reason
  <2>1. CASE r = "soap"
    BY <1>2, <2>1
  <2>2. CASE r = "ok" /\ Parsed(w) = None
    BY <1>2, <1>3, <2>2
  <2>. QED  BY <1>1, <1>5, <2>1, <2>2
<1>. QED  BY <1>4, <1>5

\* A call that returns.
LEMMA ReturnKeeps == ASSUME IInv, NEW w \in Workers, Return(w) PROVE IInv'
<1>. PICK result : result = Result(w)
  OBVIOUS
<1>. PICK p : p = IF result = "ok" THEN Parsed(w) ELSE None
  OBVIOUS
<1>1. /\ Over(w)
      /\ handle' = Opened(call[w], result, p) /\ saved' = Kept(call[w], result, p)
      /\ known' = IF result = "ok" /\ call[w].op = "start"
                  THEN known \cup {[shell |-> call[w].shell, id |-> p]} ELSE known
      /\ excused' = excused \cup Unclaimed(call[w], result, p)
      /\ call' = [call EXCEPT ![w] = Idle] /\ wire' = [wire EXCEPT ![w] = Phase("none")]
      /\ UNCHANGED <<late, shells, commands, budget, config>>
  BY DEF Return, Ended, service
<1>2. Busy(w)
  BY <1>1 DEF Over, Answered, Broken
<1>3. Alters(w, Idle, Phase("none"))
  BY <1>1, AltersIs DEF IInv
<1>4. budget' \in [BudgetKinds -> Nat] /\ budget'.opens = budget.opens
  BY <1>1 DEF IInv, TypeInv
<1>5. ASSUME result = "ok" PROVE Gives(call[w], p)
  <2>. DEFINE c == call[w]
  <2>1. Answered(w)
    BY <1>1, <1>5 DEF Over, Result
  <2>2. Fulfilled(c, wire[w].doc, shells, commands)
    BY <1>5, <2>1, ResultOfAnswer
  <2>3. c.op \in Creating => p = ParseShellId(wire[w].doc)
    BY <1>5 DEF Parsed
  <2>4. c.op = "start" => p = ParseCommandId(wire[w].doc)
    BY <1>5 DEF Parsed, Creating
  <2>5. c.op \in Creating =>
          \E i \in DOMAIN shells : shells[i].by = c.number /\ shells[i].uri = c.uri /\ p = shells[i].id
    BY <2>2, <2>3 DEF Fulfilled
  <2>6. c.op \in {"close", "delete"} =>
          \E i \in DOMAIN shells : shells[i].id = c.shell /\ shells[i].life = "deleted"
    BY <2>2 DEF Fulfilled
  <2>7. c.op = "start" => \E i \in DOMAIN commands : commands[i].shell = c.shell /\ commands[i].id = p
    BY <2>2, <2>4 DEF Fulfilled
  <2>. QED  BY <2>5, <2>6, <2>7 DEF Gives
<1>. QED  BY <1>1, <1>2, <1>3, <1>4, <1>5, CallEnds

\* A future that is dropped.
LEMMA CancelKeeps == ASSUME IInv, NEW w \in Workers, Cancel(w) PROVE IInv'
<1>1. /\ Busy(w) /\ Spend("cancels") /\ late' \in {late, late \cup {call[w]}}
      /\ saved' = Kept(call[w], "cancelled", None)
      /\ excused' = excused \cup Unclaimed(call[w], "cancelled", None)
      /\ call' = [call EXCEPT ![w] = Idle] /\ wire' = [wire EXCEPT ![w] = Phase("none")]
      /\ UNCHANGED <<handle, known, shells, commands, config>>
  BY DEF Cancel, Ended, service
<1>2. Alters(w, Idle, Phase("none"))
  BY <1>1, AltersIs DEF IInv
<1>3. budget' \in [BudgetKinds -> Nat] /\ budget'.opens = budget.opens
  BY <1>1, SpendIs DEF IInv, BudgetKinds
<1>4. handle' = Opened(call[w], "cancelled", None)
  BY <1>1, OpenedIs
<1>. QED  BY <1>1, <1>2, <1>3, <1>4, CallEnds

\* Every step keeps the invariant.
LEMMA NextKeeps == IInv /\ [Next]_vars => IInv'
<1>. SUFFICES ASSUME IInv, [Next]_vars PROVE IInv'
  OBVIOUS
<1>1. CASE UNCHANGED vars
  <2>1. UNCHANGED <<handle, saved, known, call, wire, late, shells, commands, budget, config, excused>>
    BY <1>1 DEF vars, caller, service, history
  <2>2. TypeInv' /\ Sound(shells, commands)' /\ Numbered' /\ Once' /\ Told' /\ OneHandle'
    BY <2>1 DEF IInv, TypeInv, Sound, Numbered, Once, Told, OneHandle, Under
  <2>3. Placed' /\ Truthful'
    BY <2>1 DEF IInv, Placed, InPlace, Truthful, Answered, Busy
  <2>4. ShellsAreHeld'
    BY <2>1 DEF IInv, ShellsAreHeld, InHand
  <2>. QED  BY <2>2, <2>3, <2>4 DEF IInv
<1>2. ASSUME NEW w \in Workers, CallStep(w) PROVE IInv'
  <2>1. ASSUME NEW op \in Creating, Create(w, op) PROVE IInv'
    BY <2>1, CreateKeeps
  <2>2. ASSUME NEW s \in saved, Reconnect(w, s) PROVE IInv'
    BY <2>2, ReconnectKeeps
  <2>3. ASSUME NEW op \in Consuming, End(w, op) PROVE IInv'
    BY <2>3, EndKeeps
  <2>4. ASSUME NEW t \in Targets, NEW id \in {None, PipelineId}, Start(w, t, id) PROVE IInv'
    BY <2>4, StartKeeps
  <2>5. ASSUME NEW t \in Targets, NEW id \in CommandsOf(t), Receive(w, t, id) \/ Signal(w, t, id) PROVE IInv'
    BY <2>5, ReceiveKeeps, SignalKeeps
  <2>6. ASSUME NEW t \in Targets, NEW id \in CommandsOf(t) \cup {Everything}, NEW end \in BOOLEAN,
               Send(w, t, id, end)
        PROVE  IInv'
    BY <2>6, SendKeeps
  <2>7. ASSUME NEW t \in Targets, Delete(w, t) PROVE IInv'
    BY <2>7, DeleteKeeps
  <2>8. CASE Retry(w) \/ Return(w) \/ Cancel(w)
    BY <2>8, RetryKeeps, ReturnKeeps, CancelKeeps
  <2>. QED  BY <1>2, <2>1, <2>2, <2>3, <2>4, <2>5, <2>6, <2>7, <2>8 DEF CallStep
<1>3. ASSUME NEW w \in Workers, Serve(w) \/ Refuse(w) \/ BreakOff(w) \/ Lose(w) PROVE IInv'
  BY <1>3, ServeKeeps, RefuseKeeps, BreakOffKeeps, LoseKeeps
<1>4. CASE Drop \/ ServeLate \/ Reap
  BY <1>4, DropKeeps, ServeLateKeeps, ReapKeeps
<1>. QED  BY <1>1, <1>2, <1>3, <1>4 DEF Next

\* The invariant says what results can be trusted for.
LEMMA AnswersAreTrue == IInv => ResultsAreTrue
<1>. SUFFICES ASSUME IInv, NEW w \in Workers, Answered(w)
              PROVE  /\ Result(w) = "ok" => Accomplished(call[w])
                     /\ Result(w) = "soap" => wire[w].reason
  BY DEF ResultsAreTrue
<1>. DEFINE c == call[w]
<1>1. Result(w) = "soap" => wire[w].reason
  BY ResultOfAnswer
<1>2. ASSUME Result(w) = "ok" PROVE Accomplished(c)
  <2>1. Fulfilled(c, wire[w].doc, shells, commands)
    BY <1>2, ResultOfAnswer
  <2>2. CASE c.op \in {"close", "delete"}
    <3>1. PICK i \in DOMAIN shells : shells[i].id = c.shell /\ shells[i].life = "deleted"
      BY <2>1, <2>2 DEF Fulfilled
    <3>2. \A j \in DOMAIN shells : shells[j].id = c.shell => shells[j].life = "deleted"
      BY <3>1 DEF IInv, Sound
    <3>3. ShellsOf(c, {"live", "disconnected"}) = {}
      BY <3>2 DEF ShellsOf
    <3>. QED  BY <2>2, <3>3 DEF Accomplished, Creating
  <2>3. CASE c.op = "start"
    <3>1. \E i \in DOMAIN commands : /\ commands[i].shell = c.shell
                                     /\ commands[i].line = <<Line>> /\ commands[i].args = Args
                                     /\ c.command # None => commands[i].id = c.command
      BY <2>1, <2>3 DEF Fulfilled
    <3>. QED  BY <2>3, <3>1 DEF Accomplished, Creating
  <2>4. CASE c.op \in {"ctrlC", "terminate"}
    <3>1. \E i \in DOMAIN commands : /\ commands[i].shell = c.shell /\ commands[i].id = c.command
                                     /\ commands[i].signal # "none"
      BY <2>1, <2>4 DEF Fulfilled, Signalling
    <3>. QED  BY <2>4, <3>1 DEF Accomplished, Creating
  <2>5. CASE c.op \in Creating
    <3>1. \E i \in DOMAIN shells : shells[i].by = c.number
      BY <2>1, <2>5 DEF Fulfilled
    <3>. QED  BY <2>5, <3>1 DEF Accomplished, Creating
  <2>6. CASE c.op \notin {"close", "delete", "start", "ctrlC", "terminate"} /\ c.op \notin Creating
    BY <2>6 DEF Accomplished, Creating
  <2>. QED  BY <2>2, <2>3, <2>4, <2>5, <2>6
<1>. QED  BY <1>1, <1>2

\* Every shell the service keeps is one the caller can close, by its handle or its
\* id, or one whose id went with a dropped handle, a failed call, or a creation
\* whose exchange was lost (Shell::{close, disconnect, drop}, WinrmClient::
\* {create_shell, open_psrp_shell, reconnect_shell}).
THEOREM ShellsAreKept == Spec => []ShellsAreHeld
<1>1. IInv => ShellsAreHeld
  BY DEF IInv
<1>. QED  BY InitIsSound, NextKeeps, <1>1, PTL DEF Spec

\* Ok of an operation is the truth about the service at the time of its answer and
\* until the call returns, whatever other futures do, and a SOAP fault has a reason
\* other than the text of the request (send_soap, check_soap_fault, xml_escape, and
\* the builders of envelope.rs).
THEOREM ResultsCanBeTrusted == Spec => []ResultsAreTrue
  BY InitIsSound, NextKeeps, AnswersAreTrue, PTL DEF Spec

-----------------------------------------------------------------------------
(* Input: the invariant of the pieces that are sent.                         *)

\* A call that sends the piece.
Sends(c, x) == c.op = "send" /\ c.data = x

\* The piece was sent with success and without a loss.
Settled(ss, x) == ss[x].result = "ok" /\ ~ss[x].lost

\* So many exchanges of its own a call has behind it.
Made(c, m) == IF m.phase = "asked" THEN c.attempt ELSE c.attempt + 1

\* So many of the exchanges of a piece are over at most, and were served or not:
\* neither under way nor still to be served late.
Late(ls, x) == {c \in ls : Sends(c, x)}
AtMost(ss, x) == IF Settled(ss, x) THEN 1 ELSE MaxRetries + 1
Spent(cs, ws, ls, ss, x) ==
    (IF \E w \in Workers : Sends(cs[w], x)
     THEN LET w == CHOOSE w \in Workers : Sends(cs[w], x) IN Made(cs[w], ws[w])
     ELSE AtMost(ss, x)) - Cardinality(Late(ls, x))

\* A call of send_input and what the history says of it.
Piece(c) ==
    /\ c.data \in DOMAIN sent /\ sent[c.data].shell = c.shell /\ sent[c.data].command = c.command
    /\ sent[c.data].end = c.end /\ c.attempt \in Nat /\ c.attempt <= MaxRetries

SentFields == {"shell", "command", "end", "result", "lost", "alone"}

\* Every call of send_input is in the history, and no two under way are one.
Pieces ==
    /\ IsSeq(sent) /\ \A x \in DOMAIN sent : DOMAIN sent[x] = SentFields
    /\ \A w \in Workers : call[w].op = "send" =>
          /\ Piece(call[w]) /\ sent[call[w].data].result = "none"
          /\ ~call[w].lost => call[w].attempt = 0
    /\ \A c \in late : c.op = "send" => Piece(c)
    /\ \A u, w \in Workers : call[u].op = "send" /\ call[w].op = "send" /\ call[u].data = call[w].data => u = w

\* The piece is one for the command.
Fits(x, i) == sent[x].shell = commands[i].shell /\ sent[x].command = commands[i].id

\* A command has taken only what was sent to it, and is at its end only if a piece
\* said so.
Inputs ==
    /\ \A i, j \in DOMAIN commands : commands[i].id = commands[j].id => i = j
    /\ \A i \in DOMAIN commands :
          /\ IsSeq(commands[i].input)
          /\ \A k \in DOMAIN commands[i].input :
                commands[i].input[k] \in DOMAIN sent /\ Fits(commands[i].input[k], i)
          /\ commands[i].eof => \E x \in DOMAIN sent : Fits(x, i) /\ sent[x].end

\* A command has no more copies of a piece than exchanges of it are over.
Counts ==
    \A x \in DOMAIN sent :
        /\ IsFiniteSet(Late(late, x)) /\ Spent(call, wire, late, sent, x) \in Nat
        /\ \A i \in DOMAIN commands : Cardinality(Places(x, i)) <= Spent(call, wire, late, sent, x)

\* The command has the piece, and its end when it is the last.
Took(x, i) ==
    /\ Fits(x, i) /\ (sent[x].end => commands[i].eof)
    /\ \E k \in DOMAIN commands[i].input : commands[i].input[k] = x
Arrived(x) == sent[x].command # Everything => \E i \in DOMAIN commands : Took(x, i)

\* What is reported as sent has arrived.
Delivered ==
    /\ \A x \in DOMAIN sent : sent[x].result = "ok" => Arrived(x)
    /\ \A w \in Workers :
          call[w].op = "send" /\ wire[w].phase = "answered" /\ SendSoap(config.method, wire[w]) = "ok" =>
              Arrived(call[w].data)

\* A piece sent alone has no older one beside it, and stands after the older ones.
Alone ==
    \A y \in DOMAIN sent : sent[y].alone => \A w \in Workers : call[w].op = "send" => y <= call[w].data
After ==
    \A i \in DOMAIN commands : \A x, y \in DOMAIN sent :
        x < y /\ sent[y].alone /\ Settled(sent, x) => \A j \in Places(x, i), k \in Places(y, i) : j < k

FInv == Pieces /\ Inputs /\ Counts /\ Delivered /\ Alone /\ After

-----------------------------------------------------------------------------
(* What the service does to the inputs.                                      *)

\* A command keeps its input.
SameInput(x, y) == x.id = y.id /\ x.shell = y.shell /\ x.input = y.input /\ x.eof = y.eof

\* Commands keep their inputs, and a new one has none yet.
InputsKept ==
    /\ DOMAIN commands \subseteq DOMAIN commands'
    /\ \A i \in DOMAIN commands : SameInput(commands'[i], commands[i])
    /\ \A i \in DOMAIN commands' \ DOMAIN commands :
          commands'[i].input = <<>> /\ commands'[i].eof = FALSE
    /\ \A i, j \in DOMAIN commands' : commands'[i].id = commands'[j].id => i = j

\* The command that a call of send_input is for takes the piece.
TakenBy(c, i) ==
    /\ DOMAIN commands' = DOMAIN commands
    /\ \A j \in DOMAIN commands \ {i} : SameInput(commands'[j], commands[j])
    /\ commands[i].shell = c.shell /\ commands[i].id = c.command
    /\ commands'[i].shell = c.shell /\ commands'[i].id = c.command
    /\ commands'[i].input = Append(commands[i].input, c.data)
    /\ commands'[i].eof = (commands[i].eof \/ c.end)
InputTaken(c) == \E i \in DOMAIN commands : TakenBy(c, i)

LEMMA SameCommandsKeep ==
    ASSUME Inputs, commands' = commands
    PROVE  InputsKept
  BY DEF Inputs, InputsKept, SameInput

LEMMA RefusedKeeps ==
    ASSUME Inputs, NEW c, NEW o, Refuses(c, o), commands' = o.commands
    PROVE  InputsKept /\ HasFault(o.doc)
<1>1. commands' = commands /\ HasFault(o.doc)
  BY DEF Refuses
<1>. QED  BY <1>1, SameCommandsKeep

LEMMA StartKeepsInputs ==
    ASSUME Sound(shells, commands), Inputs, NEW c, NEW o, Starts(c, o), commands' = o.commands
    PROVE  InputsKept
<1>1. PICK x : /\ commands' = Append(commands, x) /\ x.input = <<>> /\ x.eof = FALSE
               /\ \A i \in DOMAIN commands : commands[i].id # x.id
  BY DEF Starts
<1>2. IsSeq(commands)
  BY DEF Sound
<1>3. PICK n : n = Len(commands) + 1
  OBVIOUS
<1>4. /\ DOMAIN commands = 1 .. Len(commands) /\ DOMAIN commands' = 1 .. n /\ Len(commands) \in Nat
      /\ commands'[n] = x /\ \A i \in DOMAIN commands : commands'[i] = commands[i]
  <2>1. LET t == Append(commands, x)
        IN /\ IsSeq(t) /\ Len(commands) \in Nat /\ Len(t) = Len(commands) + 1
           /\ DOMAIN commands = 1 .. Len(commands)
           /\ DOMAIN t = 1 .. Len(commands) + 1
           /\ t[Len(commands) + 1] = x /\ \A i \in DOMAIN commands : t[i] = commands[i]
    BY <1>2, Appended
  <2>. QED  BY <1>1, <1>3, <2>1
<1>5. DOMAIN commands \subseteq DOMAIN commands' /\ \A i \in DOMAIN commands' : i \in DOMAIN commands \/ i = n
  BY <1>3, <1>4
<1>6. n \notin DOMAIN commands
  BY <1>3, <1>4
<1>7. \A i \in DOMAIN commands : SameInput(commands'[i], commands[i])
  BY <1>4, Zenon DEF SameInput
<1>8. \A i \in DOMAIN commands' \ DOMAIN commands : commands'[i].input = <<>> /\ commands'[i].eof = FALSE
  BY <1>1, <1>4, <1>5, Zenon
<1>9. ASSUME NEW i \in DOMAIN commands', NEW j \in DOMAIN commands', commands'[i].id = commands'[j].id
      PROVE  i = j
  <2>1. CASE i = n
    BY <1>1, <1>4, <1>5, <1>9, <2>1, Zenon
  <2>2. CASE j = n
    BY <1>1, <1>4, <1>5, <1>9, <2>2, Zenon
  <2>3. CASE i # n /\ j # n
    BY <1>4, <1>5, <1>9, <2>3, Zenon DEF Inputs
  <2>. QED  BY <2>1, <2>2, <2>3
<1>. QED  BY <1>5, <1>7, <1>8, <1>9, Zenon DEF InputsKept

LEMMA TouchedInputs ==
    ASSUME Sound(shells, commands), Inputs, NEW c, NEW o, Touches(c, o), commands' = o.commands
    PROVE  \/ InputsKept /\ (c.op = "send" => c.command = Everything)
           \/ c.op = "send" /\ InputTaken(c)
<1>1. CASE o.commands = commands /\ (c.op = "send" => c.command = Everything)
  BY <1>1, SameCommandsKeep
<1>2. ASSUME NEW i \in DOMAIN commands, NEW x, o.commands = [commands EXCEPT ![i] = x],
             SameCommand(x, commands[i]), Supplies(c, x, commands[i])
      PROVE  \/ InputsKept /\ c.op # "send"
             \/ c.op = "send" /\ InputTaken(c)
  <2>1. /\ DOMAIN commands' = DOMAIN commands /\ commands'[i] = x
        /\ \A j \in DOMAIN commands \ {i} : commands'[j] = commands[j]
    <3>1. IsSeq(commands)
      BY DEF Sound
    <3>2. LET t == [commands EXCEPT ![i] = x]
          IN /\ IsSeq(t) /\ Len(t) = Len(commands) /\ DOMAIN t = DOMAIN commands /\ t[i] = x
             /\ \A j \in DOMAIN commands \ {i} : t[j] = commands[j]
      BY <3>1, Replaced
    <3>. QED  BY <1>2, <3>2
  <2>2. \A j \in DOMAIN commands \ {i} : SameInput(commands'[j], commands[j])
    BY <2>1, Zenon DEF SameInput
  <2>3. x.id = commands[i].id /\ x.shell = commands[i].shell
    BY <1>2 DEF SameCommand
  <2>4. CASE c.op = "send"
    <3>1. /\ commands[i].shell = c.shell /\ commands[i].id = c.command
          /\ x.input = Append(commands[i].input, c.data) /\ x.eof = (commands[i].eof \/ c.end)
      BY <1>2, <2>4, Zenon DEF Supplies
    <3>2. TakenBy(c, i)
      BY <2>1, <2>2, <2>3, <3>1 DEF TakenBy
    <3>. QED  BY <2>4, <3>2, Zenon DEF InputTaken
  <2>5. CASE c.op # "send"
    <3>1. SameInput(commands'[i], commands[i])
      BY <1>2, <2>1, <2>3, <2>5, Zenon DEF Supplies, SameInput
    <3>2. \A j \in DOMAIN commands : SameInput(commands'[j], commands[j])
      BY <2>2, <3>1
    <3>3. \A j, k \in DOMAIN commands' : commands'[j].id = commands'[k].id => j = k
      <4>1. \A j \in DOMAIN commands' : j \in DOMAIN commands /\ commands'[j].id = commands[j].id
        BY <2>1, <3>2, Zenon DEF SameInput
      <4>2. \A j, k \in DOMAIN commands : commands[j].id = commands[k].id => j = k
        BY DEF Inputs
      <4>. QED  BY <4>1, <4>2, ZenonT(60)
    <3>4. DOMAIN commands \subseteq DOMAIN commands' /\ DOMAIN commands' \ DOMAIN commands = {}
      BY <2>1
    <3>. QED  BY <2>5, <3>2, <3>3, <3>4 DEF InputsKept
  <2>. QED  BY <2>4, <2>5
<1>. QED  BY <1>1, <1>2 DEF Touches

\* A piece that is served is taken by its command, whatever else is served leaves
\* every input as it is.
LEMMA ServedInputs ==
    ASSUME Sound(shells, commands), Inputs, NEW c, InPlace(c), c.op # "idle",
           NEW o \in Served(RequestOf(c), c.number), commands' = o.commands
    PROVE  \/ InputsKept /\ (c.op = "send" /\ ~HasFault(o.doc) => c.command = Everything)
           \/ c.op = "send" /\ InputTaken(c)
<1>1. CASE Refuses(c, o)
  BY <1>1, RefusedKeeps
<1>2. CASE c.op \in Creating /\ Creates(c, c.number, o)
  <2>1. commands' = commands /\ c.op # "send"
    BY <1>2 DEF Creates, Creating
  <2>. QED  BY <2>1, SameCommandsKeep
<1>3. CASE c.op \in Moving /\ Moves(c, o)
  <2>1. commands' = commands /\ c.op # "send"
    BY <1>3 DEF Moves, Moving
  <2>. QED  BY <2>1, SameCommandsKeep
<1>4. CASE c.op = "start" /\ Starts(c, o)
  BY <1>4, StartKeepsInputs
<1>5. CASE c.op \in {"receive", "send", "ctrlC", "terminate"} /\ Touches(c, o)
  BY <1>5, TouchedInputs
<1>. QED  BY <1>1, <1>2, <1>3, <1>4, <1>5, ServedIs

-----------------------------------------------------------------------------
(* What a step does to the pieces.                                           *)

\* The history of the calls only grows, and a piece is settled by its call.
SentKeeps ==
    /\ IsSeq(sent') /\ DOMAIN sent \subseteq DOMAIN sent'
    /\ \A x \in DOMAIN sent :
          /\ sent'[x].shell = sent[x].shell /\ sent'[x].command = sent[x].command
          /\ sent'[x].end = sent[x].end /\ sent'[x].alone = sent[x].alone
          /\ DOMAIN sent'[x] = DOMAIN sent[x]
          /\ Settled(sent', x) => Settled(sent, x) \/ \E w \in Workers : Sends(call[w], x)

\* How many exchanges of a piece are over, before the step and after it.
SpentNow(x)  == Spent(call, wire, late, sent, x)
SpentThen(x) == Spent(call', wire', late', sent', x)

\* Exchanges that are over stay over.
Room ==
    \A x \in DOMAIN sent' :
        /\ IsFiniteSet(Late(late', x)) /\ SpentThen(x) \in Nat
        /\ x \in DOMAIN sent => SpentNow(x) <= SpentThen(x)

\* A command takes a piece by an exchange that is over with it.
FedBy(c) ==
    /\ Piece(c) /\ InputTaken(c) /\ ~Settled(sent', c.data)
    /\ SpentNow(c.data) + 1 <= SpentThen(c.data)
Fed == InputsKept \/ \E c : FedBy(c)

LEMMA InputsGo ==
    ASSUME Inputs, SentKeeps, Fed
    PROVE  Inputs'
<1>1. CASE InputsKept
  <2>1. \A i \in DOMAIN commands : SameInput(commands'[i], commands[i])
    BY <1>1 DEF InputsKept
  <2>2. \A i \in DOMAIN commands' \ DOMAIN commands : commands'[i].input = <<>> /\ commands'[i].eof = FALSE
    BY <1>1 DEF InputsKept
  <2>3. \A i, j \in DOMAIN commands' : commands'[i].id = commands'[j].id => i = j
    BY <1>1 DEF InputsKept
  <2>4. ASSUME NEW i \in DOMAIN commands'
        PROVE  /\ IsSeq(commands'[i].input)
               /\ \A k \in DOMAIN commands'[i].input :
                     \E x \in DOMAIN sent' : x = commands'[i].input[k] /\ Fits(x, i)'
               /\ commands'[i].eof => \E x \in DOMAIN sent' : Fits(x, i)' /\ sent'[x].end
    <3>1. CASE i \in DOMAIN commands
      <4>1. /\ commands'[i].id = commands[i].id /\ commands'[i].shell = commands[i].shell
            /\ commands'[i].input = commands[i].input /\ commands'[i].eof = commands[i].eof
        BY <2>1, <3>1, Zenon DEF SameInput
      <4>2. \A x \in DOMAIN sent : x \in DOMAIN sent' /\ (Fits(x, i) => Fits(x, i)') /\ sent'[x].end = sent[x].end
        BY <4>1, Zenon DEF SentKeeps, Fits
      <4>. QED  BY <3>1, <4>1, <4>2, Zenon DEF Inputs
    <3>2. CASE i \notin DOMAIN commands
      <4>1. commands'[i].input = <<>> /\ commands'[i].eof = FALSE
        BY <2>2, <3>2
      <4>2. IsSeq(<<>>) /\ DOMAIN <<>> = {}
        BY DEF IsSeq
      <4>. QED  BY <4>1, <4>2
    <3>. QED  BY <3>1, <3>2
  <2>. QED  BY <2>3, <2>4 DEF Inputs
<1>2. ASSUME NEW c, FedBy(c) PROVE Inputs'
  <2>1. PICK i \in DOMAIN commands : TakenBy(c, i)
    BY <1>2 DEF FedBy, InputTaken
  <2>2. /\ DOMAIN commands' = DOMAIN commands
        /\ \A j \in DOMAIN commands \ {i} : SameInput(commands'[j], commands[j])
        /\ commands[i].shell = c.shell /\ commands[i].id = c.command
        /\ commands'[i].shell = c.shell /\ commands'[i].id = c.command
        /\ commands'[i].input = Append(commands[i].input, c.data)
        /\ commands'[i].eof = (commands[i].eof \/ c.end)
    BY <2>1, Zenon DEF TakenBy
  <2>3. \A j \in DOMAIN commands : commands'[j].id = commands[j].id /\ commands'[j].shell = commands[j].shell
    BY <2>2, Zenon DEF SameInput
  <2>4. \A j, k \in DOMAIN commands' : commands'[j].id = commands'[k].id => j = k
    BY <2>2, <2>3, Zenon DEF Inputs
  <2>5. \A x \in DOMAIN sent : \A j \in DOMAIN commands :
            x \in DOMAIN sent' /\ (Fits(x, j) => Fits(x, j)') /\ sent'[x].end = sent[x].end
    BY <2>3, Zenon DEF SentKeeps, Fits
  <2>6. ASSUME NEW j \in DOMAIN commands'
        PROVE  /\ IsSeq(commands'[j].input)
               /\ \A k \in DOMAIN commands'[j].input :
                     \E x \in DOMAIN sent' : x = commands'[j].input[k] /\ Fits(x, j)'
               /\ commands'[j].eof => \E x \in DOMAIN sent' : Fits(x, j)' /\ sent'[x].end
    <3>1. CASE j # i
      <4>1. commands'[j].input = commands[j].input /\ commands'[j].eof = commands[j].eof
        BY <2>2, <3>1, Zenon DEF SameInput
      <4>. QED  BY <2>2, <2>5, <4>1, Zenon DEF Inputs
    <3>2. CASE j = i
      <4>. PICK q : q = commands[i].input
        OBVIOUS
      <4>1. /\ IsSeq(q) /\ \A k \in DOMAIN q : q[k] \in DOMAIN sent /\ Fits(q[k], i)
            /\ commands[i].eof => \E x \in DOMAIN sent : Fits(x, i) /\ sent[x].end
        BY Zenon DEF Inputs
      <4>2. /\ c.data \in DOMAIN sent /\ Fits(c.data, i) /\ sent[c.data].end = c.end
        BY <1>2, <2>2, Zenon DEF FedBy, Piece, Fits
      <4>3. LET t == Append(q, c.data)
            IN /\ IsSeq(t) /\ Len(q) \in Nat /\ Len(t) = Len(q) + 1 /\ DOMAIN q = 1 .. Len(q)
               /\ DOMAIN t = 1 .. Len(q) + 1
               /\ t[Len(q) + 1] = c.data /\ \A k \in DOMAIN q : t[k] = q[k]
        BY <4>1, Appended
      <4>. PICK t : t = Append(q, c.data)
        OBVIOUS
      <4>4. IsSeq(t) /\ \A k \in DOMAIN t : t[k] \in DOMAIN sent /\ Fits(t[k], i)
        <5>1. \A k \in DOMAIN t : k \in DOMAIN q \/ k = Len(q) + 1
          BY <4>3
        <5>2. IsSeq(t) /\ t[Len(q) + 1] = c.data /\ \A k \in DOMAIN q : t[k] = q[k]
          BY <4>3
        <5>. QED  BY <4>1, <4>2, <5>1, <5>2, Zenon
      <4>5. commands'[i].input = t
        BY <2>2
      <4>6. commands'[i].eof => \E x \in DOMAIN sent : Fits(x, i) /\ sent[x].end
        BY <2>2, <4>1, <4>2, Zenon
      <4>. QED  BY <2>2, <2>5, <3>2, <4>4, <4>5, <4>6, Zenon
    <3>. QED  BY <3>1, <3>2
  <2>. QED  BY <2>4, <2>6 DEF Inputs
<1>. QED  BY <1>1, <1>2 DEF Fed

\* What has arrived stays.
LEMMA ArrivedStays ==
    ASSUME Inputs, SentKeeps, InputsKept \/ (\E c : InputTaken(c)), NEW x \in DOMAIN sent, Arrived(x)
    PROVE  Arrived(x)'
<1>1. /\ sent'[x].shell = sent[x].shell /\ sent'[x].command = sent[x].command
      /\ sent'[x].end = sent[x].end
  BY DEF SentKeeps
<1>2. CASE sent[x].command = Everything
  BY <1>1, <1>2 DEF Arrived
<1>3. ASSUME NEW i \in DOMAIN commands, Took(x, i) PROVE Arrived(x)'
  <2>1. /\ i \in DOMAIN commands' /\ commands'[i].id = commands[i].id /\ commands'[i].shell = commands[i].shell
        /\ commands[i].eof => commands'[i].eof
        /\ \A k \in DOMAIN commands[i].input :
              k \in DOMAIN commands'[i].input /\ commands'[i].input[k] = commands[i].input[k]
    <3>1. CASE InputsKept
      BY <3>1, Zenon DEF InputsKept, SameInput
    <3>2. ASSUME NEW c, NEW j \in DOMAIN commands, TakenBy(c, j), i # j
          PROVE  /\ i \in DOMAIN commands' /\ SameInput(commands'[i], commands[i])
      BY <3>2, Zenon DEF TakenBy
    <3>3. ASSUME NEW c, TakenBy(c, i)
          PROVE  /\ i \in DOMAIN commands' /\ commands'[i].id = commands[i].id
                 /\ commands'[i].shell = commands[i].shell
                 /\ commands[i].eof => commands'[i].eof
                 /\ \A k \in DOMAIN commands[i].input :
                       k \in DOMAIN commands'[i].input /\ commands'[i].input[k] = commands[i].input[k]
      <4>. PICK q : q = commands[i].input
        OBVIOUS
      <4>1. IsSeq(q)
        BY DEF Inputs
      <4>2. LET t == Append(q, c.data)
            IN /\ IsSeq(t) /\ Len(q) \in Nat /\ Len(t) = Len(q) + 1 /\ DOMAIN q = 1 .. Len(q)
               /\ DOMAIN t = 1 .. Len(q) + 1
               /\ t[Len(q) + 1] = c.data /\ \A k \in DOMAIN q : t[k] = q[k]
        BY <4>1, Appended
      <4>. PICK t : t = Append(q, c.data)
        OBVIOUS
      <4>3. \A k \in DOMAIN q : k \in DOMAIN t /\ t[k] = q[k]
        BY <4>2
      <4>4. commands'[i].input = t
        BY <3>3 DEF TakenBy
      <4>. QED  BY <3>3, <4>3, <4>4, Zenon DEF TakenBy
    <3>. QED  BY <3>1, <3>2, <3>3, Zenon DEF InputTaken, SameInput
  <2>2. Took(x, i)'
    BY <1>1, <1>3, <2>1, Zenon DEF Took, Fits
  <2>. QED  BY <2>1, <2>2, Zenon DEF Arrived
<1>. QED  BY <1>2, <1>3, Zenon DEF Arrived

\* A piece that is taken has arrived.
LEMMA TakenArrives ==
    ASSUME Inputs, SentKeeps, NEW c, Piece(c), InputTaken(c)
    PROVE  Arrived(c.data)'
<1>1. PICK i \in DOMAIN commands : TakenBy(c, i)
  BY DEF InputTaken
<1>. PICK x : x = c.data
  OBVIOUS
<1>2. /\ sent'[x].shell = c.shell /\ sent'[x].command = c.command /\ sent'[x].end = c.end
  BY Zenon DEF Piece, SentKeeps
<1>3. /\ i \in DOMAIN commands' /\ commands'[i].shell = c.shell /\ commands'[i].id = c.command
      /\ c.end => commands'[i].eof
  BY <1>1, Zenon DEF TakenBy
<1>4. \E k \in DOMAIN commands'[i].input : commands'[i].input[k] = x
  <2>. PICK q : q = commands[i].input
    OBVIOUS
  <2>1. IsSeq(q)
    BY DEF Inputs
  <2>2. LET t == Append(q, x)
        IN /\ IsSeq(t) /\ Len(q) \in Nat /\ Len(t) = Len(q) + 1 /\ DOMAIN q = 1 .. Len(q)
           /\ DOMAIN t = 1 .. Len(q) + 1
           /\ t[Len(q) + 1] = x /\ \A k \in DOMAIN q : t[k] = q[k]
    BY <2>1, Appended
  <2>. PICK t : t = Append(q, x)
    OBVIOUS
  <2>3. \E k \in DOMAIN t : t[k] = x
    BY <2>2
  <2>4. commands'[i].input = t
    BY <1>1 DEF TakenBy
  <2>. QED  BY <2>3, <2>4
<1>5. Took(x, i)'
  BY <1>2, <1>3, <1>4, Zenon DEF Took, Fits
<1>. QED  BY <1>3, <1>5, Zenon DEF Arrived

-----------------------------------------------------------------------------
(* The places of a piece in the input of a command.                          *)

LEMMA PlacesAre ==
    ASSUME Inputs, NEW i \in DOMAIN commands, NEW x
    PROVE  /\ IsFiniteSet(Places(x, i)) /\ (x \notin DOMAIN sent => Places(x, i) = {})
           /\ Len(commands[i].input) \in Nat
           /\ \A k \in Places(x, i) : k \in Nat /\ k <= Len(commands[i].input)
<1>. PICK q : q = commands[i].input
  OBVIOUS
<1>1. IsSeq(q) /\ \A k \in DOMAIN q : q[k] \in DOMAIN sent
  BY DEF Inputs
<1>2. Len(q) \in Nat /\ DOMAIN q = 1 .. Len(q)
  BY <1>1 DEF IsSeq
<1>3. Places(x, i) = {k \in DOMAIN q : q[k] = x}
  BY DEF Places
<1>4. IsFiniteSet(1 .. Len(q))
  BY <1>2, FS_Interval
<1>5. IsFiniteSet(Places(x, i))
  BY <1>2, <1>3, <1>4, FS_Subset
<1>. QED  BY <1>1, <1>2, <1>3, <1>5

\* A piece that is taken has one place more, behind all others.
LEMMA PlaceTaken ==
    ASSUME Inputs, NEW c, NEW i \in DOMAIN commands, TakenBy(c, i), NEW x
    PROVE  /\ \A j \in DOMAIN commands \ {i} : Places(x, j)' = Places(x, j)
           /\ x # c.data => Places(x, i)' = Places(x, i)
           /\ x = c.data => Places(x, i)' = Places(x, i) \cup {Len(commands[i].input) + 1}
<1>1. \A j \in DOMAIN commands \ {i} : commands'[j].input = commands[j].input
  BY Zenon DEF TakenBy, SameInput
<1>2. \A j \in DOMAIN commands \ {i} : Places(x, j)' = Places(x, j)
  BY <1>1, Zenon DEF Places
<1>. PICK q : q = commands[i].input
  OBVIOUS
<1>3. IsSeq(q)
  BY DEF Inputs
<1>4. LET t == Append(q, c.data)
      IN /\ IsSeq(t) /\ Len(q) \in Nat /\ Len(t) = Len(q) + 1 /\ DOMAIN q = 1 .. Len(q)
         /\ DOMAIN t = 1 .. Len(q) + 1
         /\ t[Len(q) + 1] = c.data /\ \A k \in DOMAIN q : t[k] = q[k]
  BY <1>3, Appended
<1>. PICK t : t = Append(q, c.data)
  OBVIOUS
<1>. PICK n : n = Len(q) + 1
  OBVIOUS
<1>5. /\ \A k \in DOMAIN t : k \in DOMAIN q \/ k = n
      /\ n \in DOMAIN t /\ n \notin DOMAIN q /\ DOMAIN q \subseteq DOMAIN t
      /\ t[n] = c.data /\ \A k \in DOMAIN q : t[k] = q[k]
  BY <1>4
<1>6. commands'[i].input = t
  BY DEF TakenBy
<1>7. Places(x, i) = {k \in DOMAIN q : q[k] = x}
  BY DEF Places
<1>8. Places(x, i)' = {k \in DOMAIN t : t[k] = x}
  BY <1>6 DEF Places
<1>9. x # c.data => Places(x, i)' = Places(x, i)
  BY <1>5, <1>7, <1>8
<1>10. x = c.data => Places(x, i)' = Places(x, i) \cup {n}
  BY <1>5, <1>7, <1>8
<1>. QED  BY <1>2, <1>9, <1>10

\* What a step makes of the places of a piece.
PlacedAnew(x, i) ==
    \/ Places(x, i)' = {}
    \/ i \in DOMAIN commands /\ Places(x, i)' = Places(x, i)
    \/ /\ i \in DOMAIN commands
       /\ \E c : FedBy(c) /\ x = c.data
       /\ \E n \in Nat : /\ Places(x, i)' = Places(x, i) \cup {n} /\ n \notin Places(x, i)
                         /\ \A z : \A k \in Places(z, i) : k \in Nat /\ k < n

LEMMA PlacesGo ==
    ASSUME Inputs, Fed, NEW x, NEW i \in DOMAIN commands'
    PROVE  PlacedAnew(x, i) /\ (x \notin DOMAIN sent => Places(x, i)' = {})
<1>1. CASE InputsKept
  <2>1. CASE i \in DOMAIN commands
    <3>1. commands'[i].input = commands[i].input
      BY <1>1, <2>1, Zenon DEF InputsKept, SameInput
    <3>2. Places(x, i)' = Places(x, i)
      BY <3>1, Zenon DEF Places
    <3>. QED  BY <2>1, <3>2, PlacesAre DEF PlacedAnew
  <2>2. CASE i \notin DOMAIN commands
    <3>1. commands'[i].input = <<>>
      BY <1>1, <2>2 DEF InputsKept
    <3>2. Places(x, i)' = {}
      BY <3>1 DEF Places
    <3>. QED  BY <3>2 DEF PlacedAnew
  <2>. QED  BY <2>1, <2>2
<1>2. ASSUME NEW c, FedBy(c) PROVE PlacedAnew(x, i) /\ (x \notin DOMAIN sent => Places(x, i)' = {})
  <2>1. PICK j \in DOMAIN commands : TakenBy(c, j)
    BY <1>2 DEF FedBy, InputTaken
  <2>2. i \in DOMAIN commands /\ c.data \in DOMAIN sent
    BY <1>2, <2>1 DEF TakenBy, FedBy, Piece
  <2>3. CASE i # j \/ x # c.data
    <3>1. Places(x, i)' = Places(x, i)
      <4>1. /\ \A k \in DOMAIN commands \ {j} : Places(x, k)' = Places(x, k)
            /\ x # c.data => Places(x, j)' = Places(x, j)
        BY <2>1, PlaceTaken
      <4>2. CASE i = j
        BY <2>3, <4>1, <4>2
      <4>3. CASE i # j
        BY <2>2, <4>1, <4>3
      <4>. QED  BY <4>2, <4>3
    <3>. QED  BY <2>2, <3>1, PlacesAre DEF PlacedAnew
  <2>4. CASE i = j /\ x = c.data
    <3>. PICK n : n = Len(commands[i].input) + 1
      OBVIOUS
    <3>1. Places(x, i)' = Places(x, i) \cup {n}
      BY <2>1, <2>4, PlaceTaken
    <3>2. n \in Nat /\ \A z : \A k \in Places(z, i) : k \in Nat /\ k < n
      <4>1. Len(commands[i].input) \in Nat
            /\ \A z : \A k \in Places(z, i) : k \in Nat /\ k <= Len(commands[i].input)
        BY <2>2, PlacesAre
      <4>. QED  BY <4>1
    <3>3. n \notin Places(x, i)
      BY <3>2
    <3>. QED  BY <1>2, <2>2, <2>4, <3>1, <3>2, <3>3 DEF PlacedAnew
  <2>. QED  BY <2>3, <2>4
<1>. QED  BY <1>1, <1>2 DEF Fed

\* No command has more copies than before but of a piece an exchange of which is over.
LEMMA CountsGo ==
    ASSUME Inputs, Counts, Fed, Room, SentKeeps
    PROVE  Counts'
<1>. SUFFICES ASSUME NEW x \in DOMAIN sent', NEW i \in DOMAIN commands'
              PROVE  Cardinality(Places(x, i)') <= SpentThen(x)
  BY DEF Counts, Room, SpentThen
<1>1. SpentThen(x) \in Nat /\ (x \in DOMAIN sent => SpentNow(x) <= SpentThen(x))
  BY DEF Room
<1>2. CASE Places(x, i)' = {}
  BY <1>1, <1>2, FS_EmptySet
<1>3. CASE x \in DOMAIN sent /\ i \in DOMAIN commands /\ Places(x, i)' = Places(x, i)
  <2>1. Cardinality(Places(x, i)) <= SpentNow(x) /\ SpentNow(x) \in Nat
    BY <1>3 DEF Counts, SpentNow
  <2>2. Cardinality(Places(x, i)) \in Nat
    BY <1>3, PlacesAre, FS_CardinalityType
  <2>. QED  BY <1>1, <1>3, <2>1, <2>2
<1>4. ASSUME i \in DOMAIN commands, NEW c, FedBy(c), x = c.data,
             NEW n \in Nat, Places(x, i)' = Places(x, i) \cup {n}, n \notin Places(x, i)
      PROVE  Cardinality(Places(x, i)') <= SpentThen(x)
  <2>1. x \in DOMAIN sent /\ SpentNow(x) + 1 <= SpentThen(x)
    BY <1>4 DEF FedBy, Piece
  <2>2. Cardinality(Places(x, i)) <= SpentNow(x) /\ SpentNow(x) \in Nat
    BY <1>4, <2>1 DEF Counts, SpentNow
  <2>3. IsFiniteSet(Places(x, i))
    BY <1>4, PlacesAre
  <2>4. Cardinality(Places(x, i)) \in Nat
        /\ Cardinality(Places(x, i) \cup {n}) = Cardinality(Places(x, i)) + 1
    BY <1>4, <2>3, FS_CardinalityType, FS_AddElement
  <2>. QED  BY <1>1, <1>4, <2>1, <2>2, <2>4
<1>. QED  BY <1>2, <1>3, <1>4, PlacesGo DEF PlacedAnew

\* A piece that is taken comes after all others, and no settled one is taken.
LEMMA AfterGoes ==
    ASSUME Pieces, Inputs, Alone, After, Fed, SentKeeps
    PROVE  After'
<1>. SUFFICES ASSUME NEW i \in DOMAIN commands', NEW x \in DOMAIN sent', NEW y \in DOMAIN sent',
                     x < y, sent'[y].alone, Settled(sent', x),
                     NEW j \in Places(x, i)', NEW k \in Places(y, i)'
              PROVE  j < k
  BY DEF After
<1>1. x \in DOMAIN sent /\ y \in DOMAIN sent
  BY PlacesGo
<1>2. sent[y].alone
  BY <1>1 DEF SentKeeps
<1>3. Settled(sent, x)
  <2>1. ASSUME NEW w \in Workers, Sends(call[w], x) PROVE FALSE
    <3>1. y <= x
      BY <1>1, <1>2, <2>1 DEF Alone, Sends
    <3>2. x \in Nat /\ y \in Nat
      BY <1>1 DEF Pieces, IsSeq
    <3>. QED  BY <3>1, <3>2
  <2>. QED  BY <1>1, <2>1 DEF SentKeeps
<1>4. i \in DOMAIN commands /\ Places(x, i)' = Places(x, i)
  BY PlacesGo DEF PlacedAnew, FedBy
<1>5. CASE Places(y, i)' = Places(y, i)
  BY <1>1, <1>2, <1>3, <1>4, <1>5 DEF After
<1>6. ASSUME NEW n \in Nat, Places(y, i)' = Places(y, i) \cup {n},
             \A z : \A m \in Places(z, i) : m \in Nat /\ m < n
      PROVE  j < k
  <2>1. CASE k = n
    BY <1>4, <1>6, <2>1
  <2>2. CASE k \in Places(y, i)
    BY <1>1, <1>2, <1>3, <1>4, <2>2 DEF After
  <2>. QED  BY <1>6, <2>1, <2>2
<1>. QED  BY <1>5, <1>6, PlacesGo DEF PlacedAnew

-----------------------------------------------------------------------------
(* The exchanges of a piece.                                                 *)

LEMMA SpentByCall ==
    ASSUME NEW cs, NEW ws, NEW ls, NEW ss, NEW x, NEW w \in Workers, Sends(cs[w], x),
           \A u \in Workers : Sends(cs[u], x) => u = w
    PROVE  Spent(cs, ws, ls, ss, x) = Made(cs[w], ws[w]) - Cardinality(Late(ls, x))
<1>. PICK v : v = CHOOSE u \in Workers : Sends(cs[u], x)
  OBVIOUS
<1>1. v = w
  OBVIOUS
<1>. QED  BY <1>1 DEF Spent

LEMMA SpentOfEnded ==
    ASSUME NEW cs, NEW ws, NEW ls, NEW ss, NEW x, \A u \in Workers : ~Sends(cs[u], x)
    PROVE  Spent(cs, ws, ls, ss, x) = AtMost(ss, x) - Cardinality(Late(ls, x))
  BY DEF Spent

\* No exchange of the piece begins or ends.
Beside(x) ==
    /\ \A w \in Workers : /\ Sends(call'[w], x) <=> Sends(call[w], x)
                          /\ Sends(call[w], x) => call'[w] = call[w] /\ wire'[w] = wire[w]
    /\ \A c : Sends(c, x) => (c \in late' <=> c \in late)
    /\ Settled(sent', x) <=> Settled(sent, x)

LEMMA BesideKeeps ==
    ASSUME Pieces, Counts, NEW x \in DOMAIN sent, Beside(x)
    PROVE  IsFiniteSet(Late(late', x)) /\ SpentThen(x) = SpentNow(x) /\ SpentThen(x) \in Nat
<1>1. Late(late', x) = Late(late, x)
  BY DEF Beside, Late
<1>2. IsFiniteSet(Late(late, x)) /\ SpentNow(x) \in Nat
  BY DEF Counts, SpentNow
<1>3. ASSUME NEW w \in Workers, Sends(call[w], x) PROVE SpentThen(x) = SpentNow(x)
  <2>1. \A u \in Workers : Sends(call[u], x) => u = w
    BY <1>3 DEF Pieces, Sends
  <2>2. /\ \A u \in Workers : Sends(call'[u], x) => u = w
        /\ Sends(call'[w], x) /\ call'[w] = call[w] /\ wire'[w] = wire[w]
    BY <1>3, <2>1, Zenon DEF Beside
  <2>3. SpentNow(x) = Made(call[w], wire[w]) - Cardinality(Late(late, x))
    BY <1>3, <2>1, SpentByCall DEF SpentNow
  <2>4. SpentThen(x) = Made(call'[w], wire'[w]) - Cardinality(Late(late', x))
    BY <2>2, SpentByCall DEF SpentThen
  <2>. QED  BY <1>1, <2>2, <2>3, <2>4, Zenon
<1>4. ASSUME \A w \in Workers : ~Sends(call[w], x) PROVE SpentThen(x) = SpentNow(x)
  <2>1. \A w \in Workers : ~Sends(call'[w], x)
    BY <1>4 DEF Beside
  <2>2. SpentNow(x) = AtMost(sent, x) - Cardinality(Late(late, x))
    BY <1>4, SpentOfEnded DEF SpentNow
  <2>3. SpentThen(x) = AtMost(sent', x) - Cardinality(Late(late', x))
    BY <2>1, SpentOfEnded DEF SpentThen
  <2>4. AtMost(sent', x) = AtMost(sent, x)
    BY DEF Beside, AtMost
  <2>. QED  BY <1>1, <2>2, <2>3, <2>4, Zenon
<1>. QED  BY <1>1, <1>2, <1>3, <1>4

\* Nothing is sent, and no piece is taken.
LEMMA ElsewhereKeeps ==
    ASSUME FInv, InputsKept, sent' = sent, config' = config,
           \A w \in Workers : call'[w].op = "send" \/ call[w].op = "send" =>
               call'[w] = call[w] /\ wire'[w] = wire[w],
           \A c : c.op = "send" => (c \in late' <=> c \in late)
    PROVE  FInv'
<1>1. Pieces /\ Inputs /\ Counts /\ Delivered /\ Alone /\ After /\ Fed
  BY DEF FInv, Fed
<1>2. SentKeeps
  BY <1>1 DEF SentKeeps, Pieces
<1>3. Room
  <2>1. \A x \in DOMAIN sent : Beside(x)
    BY DEF Beside, Sends
  <2>2. ASSUME NEW x \in DOMAIN sent'
        PROVE /\ IsFiniteSet(Late(late', x)) /\ SpentThen(x) \in Nat /\ SpentNow(x) <= SpentThen(x)
    <3>1. IsFiniteSet(Late(late', x)) /\ SpentThen(x) = SpentNow(x) /\ SpentThen(x) \in Nat
      BY <1>1, <2>1, <2>2, BesideKeeps
    <3>. QED  BY <3>1
  <2>. QED  BY <2>2 DEF Room
<1>4. Inputs' /\ Counts' /\ After'
  BY <1>1, <1>2, <1>3, InputsGo, CountsGo, AfterGoes
<1>5. Pieces'
  <2>1. \A e : Piece(e) => Piece(e)'
    BY DEF Piece
  <2>2. \A u \in Workers : call'[u].op = "send" => call'[u] = call[u] /\ call[u].op = "send"
    BY Zenon
  <2>3. \A e \in late' : e.op = "send" => Piece(e)'
    BY <1>1, <2>1 DEF Pieces
  <2>4. ASSUME NEW u \in Workers, call'[u].op = "send"
        PROVE  \E e : /\ e = call'[u] /\ Piece(e)' /\ sent'[e.data].result = "none"
                      /\ ~e.lost => e.attempt = 0
    BY <1>1, <2>1, <2>2, <2>4 DEF Pieces
  <2>5. \A u, v \in Workers :
            call'[u].op = "send" /\ call'[v].op = "send" /\ call'[u].data = call'[v].data => u = v
    BY <1>1, <2>2 DEF Pieces
  <2>. QED  BY <1>1, <2>3, <2>4, <2>5 DEF Pieces
<1>6. \A x \in DOMAIN sent : Arrived(x) => Arrived(x)'
  BY <1>1, <1>2, ArrivedStays
<1>7. Delivered'
  <2>1. \A x \in DOMAIN sent' : sent'[x].result = "ok" => Arrived(x)'
    BY <1>1, <1>6 DEF Delivered
  <2>2. ASSUME NEW w \in Workers, call'[w].op = "send", wire'[w].phase = "answered",
               SendSoap(config'.method, wire'[w]) = "ok"
        PROVE  \E x : x = call'[w].data /\ Arrived(x)'
    <3>1. call'[w] = call[w] /\ wire'[w] = wire[w]
      BY <2>2
    <3>2. Arrived(call[w].data) /\ call[w].data \in DOMAIN sent
      BY <1>1, <2>2, <3>1 DEF Delivered, Pieces, Piece
    <3>. QED  BY <1>6, <3>1, <3>2
  <2>. QED  BY <2>1, <2>2 DEF Delivered
<1>8. Alone'
  BY <1>1 DEF Alone
<1>. QED  BY <1>4, <1>5, <1>7, <1>8 DEF FInv

\* One exchange of a piece begins or ends, or its call does.
LEMMA CallGoes ==
    ASSUME FInv, NEW w \in Workers, NEW c, NEW m, Alters(w, c, m), call[w].op = "send",
           NEW d, d = call[w], NEW z, z = d.data, config' = config, Fed, SentKeeps,
           DOMAIN sent' = DOMAIN sent, \A x \in DOMAIN sent \ {z} : sent'[x] = sent[x],
           late' \in {late, late \cup {d}}, IsFiniteSet(Late(late', z)),
           SpentThen(z) \in Nat, SpentNow(z) <= SpentThen(z),
           c.op = "send" => /\ sent' = sent /\ Piece(c) /\ c.data = z /\ (~c.lost => c.attempt = 0)
                            /\ m.phase = "answered" /\ SendSoap(config.method, m) = "ok" => Arrived(z)',
           sent'[z].result = "ok" => Arrived(z)'
    PROVE  FInv'
<1>1. Pieces /\ Inputs /\ Counts /\ Delivered /\ Alone /\ After
  BY DEF FInv
<1>2. /\ call'[w] = c /\ wire'[w] = m
      /\ \A u \in Workers \ {w} : call'[u] = call[u] /\ wire'[u] = wire[u]
  BY DEF Alters
<1>3. z \in DOMAIN sent /\ sent[z].result = "none" /\ Piece(d)
  BY <1>1 DEF Pieces, Piece
<1>4. Sends(d, z) /\ \A u \in Workers \ {w} : ~Sends(call[u], z)
  BY <1>1 DEF Pieces, Sends
<1>5. ASSUME NEW x \in DOMAIN sent, x # z PROVE Beside(x)
  <2>1. ~Sends(call[w], x) /\ ~Sends(c, x) /\ ~Sends(d, x)
    BY <1>5 DEF Sends
  <2>2. \A u \in Workers : /\ Sends(call'[u], x) <=> Sends(call[u], x)
                           /\ Sends(call[u], x) => call'[u] = call[u] /\ wire'[u] = wire[u]
    BY <1>2, <2>1, Zenon
  <2>3. \A e : Sends(e, x) => (e \in late' <=> e \in late)
    BY <2>1
  <2>4. Settled(sent', x) <=> Settled(sent, x)
    BY <1>5 DEF Settled
  <2>. QED  BY <2>2, <2>3, <2>4 DEF Beside
<1>6. Room
  <2>1. ASSUME NEW x \in DOMAIN sent'
        PROVE /\ IsFiniteSet(Late(late', x)) /\ SpentThen(x) \in Nat /\ SpentNow(x) <= SpentThen(x)
    <3>1. CASE x = z
      BY <3>1
    <3>2. CASE x # z
      <4>1. IsFiniteSet(Late(late', x)) /\ SpentThen(x) = SpentNow(x) /\ SpentThen(x) \in Nat
        BY <1>1, <1>5, <2>1, <3>2, BesideKeeps
      <4>. QED  BY <4>1
    <3>. QED  BY <3>1, <3>2
  <2>. QED  BY <2>1 DEF Room
<1>7. Inputs' /\ Counts' /\ After'
  BY <1>1, <1>6, InputsGo, CountsGo, AfterGoes
<1>8. \A x \in DOMAIN sent : Arrived(x) => Arrived(x)'
  BY <1>1, ArrivedStays DEF Fed, FedBy
<1>9. ASSUME NEW u \in Workers, u # w, call'[u].op = "send"
      PROVE  /\ call'[u] = call[u] /\ wire'[u] = wire[u] /\ call[u].data # z
             /\ call[u].data \in DOMAIN sent
  BY <1>1, <1>2, <1>4, <1>9 DEF Pieces, Piece, Sends
<1>10. Pieces'
  <2>1. \A e : Piece(e) => Piece(e)'
    BY Zenon DEF Piece, SentKeeps
  <2>2. ASSUME NEW u \in Workers, call'[u].op = "send"
        PROVE  \E e : /\ e = call'[u] /\ Piece(e)' /\ sent'[e.data].result = "none"
                      /\ ~e.lost => e.attempt = 0
    <3>1. CASE u = w
      BY <1>2, <1>3, <2>1, <2>2, <3>1
    <3>2. CASE u # w
      <4>1. call'[u] = call[u] /\ sent'[call[u].data] = sent[call[u].data] /\ call[u].op = "send"
        BY <1>9, <2>2, <3>2
      <4>. QED  BY <1>1, <2>1, <4>1 DEF Pieces
    <3>. QED  BY <3>1, <3>2
  <2>3. ASSUME NEW e \in late', e.op = "send" PROVE Piece(e)'
    BY <1>1, <1>3, <2>1, <2>3 DEF Pieces
  <2>4. ASSUME NEW u \in Workers, NEW v \in Workers, call'[u].op = "send", call'[v].op = "send",
               call'[u].data = call'[v].data
        PROVE  u = v
    BY <1>1, <1>2, <1>9, <2>4 DEF Pieces
  <2>5. \A x \in DOMAIN sent' : DOMAIN sent'[x] = SentFields
    BY <1>1 DEF Pieces, SentKeeps
  <2>. QED  BY <2>2, <2>3, <2>4, <2>5 DEF Pieces, SentKeeps
<1>11. Delivered'
  <2>1. ASSUME NEW x \in DOMAIN sent', sent'[x].result = "ok" PROVE Arrived(x)'
    <3>1. CASE x # z
      BY <1>1, <1>8, <2>1, <3>1 DEF Delivered
    <3>. QED  BY <2>1, <3>1
  <2>2. ASSUME NEW u \in Workers, call'[u].op = "send", wire'[u].phase = "answered",
               SendSoap(config'.method, wire'[u]) = "ok"
        PROVE  \E x : x = call'[u].data /\ Arrived(x)'
    <3>1. CASE u = w
      BY <1>2, <2>2, <3>1
    <3>2. CASE u # w
      <4>1. call'[u] = call[u] /\ wire'[u] = wire[u] /\ call[u].data \in DOMAIN sent
        BY <1>9, <2>2, <3>2
      <4>2. Arrived(call[u].data)
        BY <1>1, <2>2, <4>1 DEF Delivered
      <4>. QED  BY <1>8, <4>1, <4>2
    <3>. QED  BY <3>1, <3>2
  <2>. QED  BY <2>1, <2>2 DEF Delivered
<1>12. Alone'
  <2>1. \A u \in Workers : call'[u].op = "send" => call[u].op = "send" /\ call'[u].data = call[u].data
    BY <1>2, <1>9
  <2>. QED  BY <1>1, <2>1 DEF Alone, SentKeeps
<1>. QED  BY <1>7, <1>10, <1>11, <1>12 DEF FInv

-----------------------------------------------------------------------------
(* Steps that send.                                                          *)

\* A call of send_input begins.
LEMMA SendBegins ==
    ASSUME FInv, NEW w \in Workers, ~Busy(w), NEW c, Alters(w, c, Phase("asked")),
           c.op = "send", c.data = Len(sent) + 1, c.attempt = 0, c.lost = FALSE,
           NEW s, sent' = Append(sent, s), s.shell = c.shell, s.command = c.command, s.end = c.end,
           s.result = "none", DOMAIN s = SentFields, s.alone => ~Under({"send"}),
           late' = late, commands' = commands, config' = config
    PROVE  FInv'
<1>. PICK n : n = c.data
  OBVIOUS
<1>1. Pieces /\ Inputs /\ Counts /\ Delivered /\ Alone /\ After /\ Fed
  BY SameCommandsKeep DEF FInv, Fed
<1>2. /\ call'[w] = c /\ wire'[w].phase = "asked" /\ call[w].op = "idle"
      /\ \A u \in Workers \ {w} : call'[u] = call[u] /\ wire'[u] = wire[u]
  BY DEF Alters, Phase, Busy
<1>3. /\ IsSeq(sent') /\ DOMAIN sent' = DOMAIN sent \cup {n} /\ n \notin DOMAIN sent
      /\ sent'[n] = s /\ \A x \in DOMAIN sent : sent'[x] = sent[x]
      /\ n \in Nat /\ \A x \in DOMAIN sent : x \in Nat /\ x < n
  <2>1. IsSeq(sent)
    BY <1>1 DEF Pieces
  <2>2. LET t == Append(sent, s)
        IN /\ IsSeq(t) /\ Len(sent) \in Nat /\ Len(t) = Len(sent) + 1 /\ DOMAIN sent = 1 .. Len(sent)
           /\ DOMAIN t = 1 .. Len(sent) + 1
           /\ t[Len(sent) + 1] = s /\ \A i \in DOMAIN sent : t[i] = sent[i]
    BY <2>1, Appended
  <2>. PICK k : k = Len(sent)
    OBVIOUS
  <2>3. /\ IsSeq(sent') /\ k \in Nat /\ DOMAIN sent = 1 .. k /\ DOMAIN sent' = 1 .. k + 1 /\ n = k + 1
        /\ sent'[n] = s /\ \A i \in DOMAIN sent : sent'[i] = sent[i]
    BY <2>2
  <2>. QED  BY <2>3
<1>4. SentKeeps
  BY <1>3 DEF SentKeeps, Settled
<1>5. \A u \in Workers : call[u].op = "send" => u # w /\ call[u].data \in DOMAIN sent /\ call'[u] = call[u]
                                                /\ wire'[u] = wire[u]
  BY <1>1, <1>2 DEF Pieces, Piece
<1>6. Late(late, n) = {}
  BY <1>1, <1>3 DEF Late, Sends, Pieces, Piece
<1>7. Room
  <2>1. ASSUME NEW x \in DOMAIN sent PROVE Beside(x)
    <3>1. ~Sends(c, x) /\ ~Sends(call[w], x)
      BY <1>2, <1>3 DEF Sends
    <3>2. \A u \in Workers : /\ Sends(call'[u], x) <=> Sends(call[u], x)
                             /\ Sends(call[u], x) => call'[u] = call[u] /\ wire'[u] = wire[u]
      BY <1>2, <3>1, Zenon
    <3>. QED  BY <1>3, <3>2 DEF Beside, Settled
  <2>2. SpentThen(n) = 0
    <3>1. Sends(call'[w], n) /\ \A u \in Workers : Sends(call'[u], n) => u = w
      BY <1>1, <1>2, <1>3, <1>5 DEF Sends
    <3>2. SpentThen(n) = Made(call'[w], wire'[w]) - Cardinality(Late(late', n))
      BY <3>1, SpentByCall DEF SpentThen
    <3>3. Made(call'[w], wire'[w]) = 0
      BY <1>2 DEF Made
    <3>4. Cardinality(Late(late', n)) = 0
      BY <1>6, FS_EmptySet
    <3>. QED  BY <3>2, <3>3, <3>4
  <2>3. IsFiniteSet(Late(late', n))
    BY <1>6, FS_EmptySet
  <2>4. ASSUME NEW x \in DOMAIN sent'
        PROVE /\ IsFiniteSet(Late(late', x)) /\ SpentThen(x) \in Nat
              /\ x \in DOMAIN sent => SpentNow(x) <= SpentThen(x)
    <3>1. CASE x = n
      BY <1>3, <2>2, <2>3, <3>1
    <3>2. CASE x # n
      <4>1. x \in DOMAIN sent
        BY <1>3, <3>2
      <4>2. IsFiniteSet(Late(late', x)) /\ SpentThen(x) = SpentNow(x) /\ SpentThen(x) \in Nat
        BY <1>1, <2>1, <4>1, BesideKeeps
      <4>. QED  BY <4>2
    <3>. QED  BY <3>1, <3>2
  <2>. QED  BY <2>4 DEF Room
<1>8. Inputs' /\ Counts' /\ After'
  BY <1>1, <1>4, <1>7, InputsGo, CountsGo, AfterGoes
<1>9. Pieces'
  <2>1. \A e : Piece(e) => Piece(e)'
    BY <1>4, Zenon DEF Piece, SentKeeps
  <2>2. Piece(c)' /\ sent'[c.data].result = "none"
    BY <1>3, ShellAssumption DEF Piece
  <2>3. ASSUME NEW u \in Workers, call'[u].op = "send"
        PROVE  \E e : /\ e = call'[u] /\ Piece(e)' /\ sent'[e.data].result = "none"
                      /\ ~e.lost => e.attempt = 0
    <3>1. CASE u = w
      BY <1>2, <2>2, <3>1
    <3>2. CASE u # w
      <4>1. call'[u] = call[u] /\ call[u].op = "send" /\ sent'[call[u].data] = sent[call[u].data]
        BY <1>2, <1>3, <1>5, <2>3, <3>2
      <4>. QED  BY <1>1, <2>1, <4>1 DEF Pieces
    <3>. QED  BY <3>1, <3>2
  <2>4. ASSUME NEW e \in late', e.op = "send" PROVE Piece(e)'
    BY <1>1, <2>1, <2>4 DEF Pieces
  <2>5. ASSUME NEW u \in Workers, NEW v \in Workers, call'[u].op = "send", call'[v].op = "send",
               call'[u].data = call'[v].data
        PROVE  u = v
    BY <1>1, <1>2, <1>3, <1>5, <2>5 DEF Pieces
  <2>6. \A x \in DOMAIN sent' : DOMAIN sent'[x] = SentFields
    BY <1>1, <1>3 DEF Pieces
  <2>. QED  BY <1>3, <2>3, <2>4, <2>5, <2>6 DEF Pieces
<1>10. \A x \in DOMAIN sent : Arrived(x) => Arrived(x)'
  BY <1>1, <1>4, ArrivedStays DEF Fed, FedBy
<1>11. Delivered'
  <2>1. ASSUME NEW x \in DOMAIN sent', sent'[x].result = "ok" PROVE Arrived(x)'
    <3>1. x \in DOMAIN sent /\ sent[x].result = "ok"
      BY <1>3, <2>1
    <3>. QED  BY <1>1, <1>10, <3>1 DEF Delivered
  <2>2. ASSUME NEW u \in Workers, call'[u].op = "send", wire'[u].phase = "answered",
               SendSoap(config'.method, wire'[u]) = "ok"
        PROVE  \E x : x = call'[u].data /\ Arrived(x)'
    <3>1. u # w
      BY <1>2, <2>2
    <3>2. call'[u] = call[u] /\ wire'[u] = wire[u] /\ call[u].data \in DOMAIN sent
      BY <1>2, <1>5, <2>2, <3>1
    <3>3. Arrived(call[u].data)
      BY <1>1, <2>2, <3>2 DEF Delivered
    <3>. QED  BY <1>10, <3>2, <3>3
  <2>. QED  BY <2>1, <2>2 DEF Delivered
<1>12. Alone'
  <2>1. ASSUME NEW y \in DOMAIN sent', sent'[y].alone, NEW u \in Workers, call'[u].op = "send"
        PROVE  y <= call'[u].data
    <3>1. CASE u = w
      BY <1>2, <1>3, <2>1, <3>1
    <3>2. CASE u # w
      <4>1. call'[u] = call[u] /\ call[u].op = "send"
        BY <1>2, <2>1, <3>2
      <4>2. y # n
        BY <1>3, <2>1, <4>1 DEF Under
      <4>. QED  BY <1>1, <1>3, <2>1, <4>1, <4>2 DEF Alone
    <3>. QED  BY <3>1, <3>2
  <2>. QED  BY <2>1 DEF Alone
<1>. QED  BY <1>8, <1>9, <1>11, <1>12 DEF FInv

\* A call of send_input that is under way.
LEMMA SendUnderWay ==
    ASSUME FInv, NEW w \in Workers, NEW d, d = call[w], d.op = "send", NEW z, z = d.data
    PROVE  /\ z \in DOMAIN sent /\ Piece(d) /\ sent[z].result = "none" /\ (~d.lost => d.attempt = 0)
           /\ d.attempt \in Nat /\ d.attempt <= MaxRetries /\ Sends(d, z)
           /\ \A u \in Workers : Sends(call[u], z) => u = w
           /\ IsFiniteSet(Late(late, z)) /\ Cardinality(Late(late, z)) \in Nat
           /\ SpentNow(z) \in Nat /\ SpentNow(z) = Made(d, wire[w]) - Cardinality(Late(late, z))
<1>1. Pieces /\ Counts
  BY DEF FInv
<1>2. /\ z \in DOMAIN sent /\ Piece(d) /\ sent[z].result = "none" /\ (~d.lost => d.attempt = 0)
      /\ d.attempt \in Nat /\ d.attempt <= MaxRetries /\ Sends(d, z)
      /\ \A u \in Workers : Sends(call[u], z) => u = w
  BY <1>1 DEF Pieces, Piece, Sends
<1>3. IsFiniteSet(Late(late, z)) /\ Cardinality(Late(late, z)) \in Nat /\ SpentNow(z) \in Nat
  BY <1>1, <1>2, FS_CardinalityType DEF Counts, SpentNow
<1>4. SpentNow(z) = Made(d, wire[w]) - Cardinality(Late(late, z))
  <2>1. Sends(call[w], z) /\ \A u \in Workers : Sends(call[u], z) => u = w
    BY <1>2
  <2>2. SpentNow(z) = Made(call[w], wire[w]) - Cardinality(Late(late, z))
    BY <2>1, SpentByCall DEF SpentNow
  <2>. QED  BY <2>2
<1>. QED  BY <1>2, <1>3, <1>4

\* What is over of a piece when its call goes on.
LEMMA SendGoesOn ==
    ASSUME FInv, NEW w \in Workers, NEW d, d = call[w], d.op = "send", NEW z, z = d.data,
           NEW c, NEW m, Alters(w, c, m), c.op = "send", c.data = z
    PROVE  SpentThen(z) = Made(c, m) - Cardinality(Late(late', z))
<1>1. \A u \in Workers : Sends(call[u], z) => u = w
  BY SendUnderWay
<1>2. Sends(call'[w], z) /\ \A u \in Workers : Sends(call'[u], z) => u = w
  BY <1>1 DEF Alters, Sends
<1>3. call'[w] = c /\ wire'[w] = m
  BY DEF Alters
<1>. QED  BY <1>2, <1>3, SpentByCall DEF SpentThen

\* The service answers, or the server refuses.
LEMMA SendAnswered ==
    ASSUME FInv, NEW w \in Workers, NEW d, d = call[w], d.op = "send", wire[w].phase = "asked",
           NEW m, m.phase = "answered", Alters(w, d, m),
           late' = late, sent' = sent, config' = config,
           \/ InputsKept /\ (SendSoap(config.method, m) = "ok" => d.command = Everything)
           \/ InputTaken(d)
    PROVE  FInv'
<1>. PICK z : z = d.data
  OBVIOUS
<1>1. /\ z \in DOMAIN sent /\ Piece(d) /\ sent[z].result = "none" /\ (~d.lost => d.attempt = 0)
      /\ d.attempt \in Nat /\ d.attempt <= MaxRetries
      /\ IsFiniteSet(Late(late, z)) /\ Cardinality(Late(late, z)) \in Nat
      /\ SpentNow(z) \in Nat /\ SpentNow(z) = Made(d, wire[w]) - Cardinality(Late(late, z))
  BY SendUnderWay
<1>2. SpentThen(z) = Made(d, m) - Cardinality(Late(late, z))
  BY SendGoesOn
<1>3. Made(d, wire[w]) = d.attempt /\ Made(d, m) = d.attempt + 1
  BY DEF Made
<1>4. SpentThen(z) \in Nat /\ SpentNow(z) + 1 <= SpentThen(z) /\ SpentNow(z) <= SpentThen(z)
  BY <1>1, <1>2, <1>3
<1>5. SentKeeps
  BY DEF FInv, Pieces, SentKeeps
<1>6. Fed
  <2>1. CASE InputTaken(d)
    BY <1>1, <1>4, <2>1 DEF Fed, FedBy, Settled
  <2>. QED  BY <2>1 DEF Fed
<1>7. SendSoap(config.method, m) = "ok" => Arrived(z)'
  <2>1. CASE InputTaken(d)
    BY <1>1, <1>5, <2>1, TakenArrives DEF FInv
  <2>2. CASE d.command = Everything
    BY <1>1, <2>2 DEF Piece, Arrived
  <2>. QED  BY <2>1, <2>2
<1>. QED  BY <1>1, <1>4, <1>5, <1>6, <1>7, CallGoes

\* An error answer is cut.
LEMMA SendCut ==
    ASSUME FInv, NEW w \in Workers, NEW d, d = call[w], d.op = "send", wire[w].phase = "answered",
           NEW m, m.phase = "answered", SendSoap(config.method, m) # "ok", Alters(w, d, m),
           late' = late, sent' = sent, config' = config, commands' = commands
    PROVE  FInv'
<1>. PICK z : z = d.data
  OBVIOUS
<1>1. /\ z \in DOMAIN sent /\ Piece(d) /\ sent[z].result = "none" /\ (~d.lost => d.attempt = 0)
      /\ IsFiniteSet(Late(late, z)) /\ SpentNow(z) \in Nat
      /\ SpentNow(z) = Made(d, wire[w]) - Cardinality(Late(late, z))
  BY SendUnderWay
<1>2. SpentThen(z) = Made(d, m) - Cardinality(Late(late, z))
  BY SendGoesOn
<1>3. SpentThen(z) = SpentNow(z)
  BY <1>1, <1>2 DEF Made
<1>4. InputsKept
  BY SameCommandsKeep DEF FInv
<1>5. SentKeeps
  BY DEF FInv, Pieces, SentKeeps
<1>6. Fed
  BY <1>4 DEF Fed
<1>7. SpentNow(z) <= SpentThen(z) /\ SpentThen(z) \in Nat
  BY <1>1, <1>3
<1>. QED  BY <1>1, <1>5, <1>6, <1>7, CallGoes

\* A call given up may be served late.
LEMMA GivenUp ==
    ASSUME NEW d, NEW z, Sends(d, z), IsFiniteSet(Late(late, z)), late' \in {late, late \cup {d}}
    PROVE  /\ IsFiniteSet(Late(late', z)) /\ Cardinality(Late(late', z)) \in Nat
           /\ Cardinality(Late(late', z)) <= Cardinality(Late(late, z)) + 1
           /\ late' = late => Cardinality(Late(late', z)) = Cardinality(Late(late, z))
<1>1. CASE late' = late
  BY <1>1, FS_CardinalityType
<1>2. CASE late' = late \cup {d} /\ late' # late
  <2>1. Late(late', z) = Late(late, z) \cup {d}
    BY <1>2 DEF Late
  <2>2. /\ IsFiniteSet(Late(late, z) \cup {d})
        /\ Cardinality(Late(late, z) \cup {d}) =
             IF d \in Late(late, z) THEN Cardinality(Late(late, z)) ELSE Cardinality(Late(late, z)) + 1
    BY FS_AddElement
  <2>3. Cardinality(Late(late, z)) \in Nat
    BY FS_CardinalityType
  <2>4. IsFiniteSet(Late(late', z)) /\ Cardinality(Late(late', z)) <= Cardinality(Late(late, z)) + 1
    BY <2>1, <2>2, <2>3
  <2>. QED  BY <1>2, <2>4, FS_CardinalityType
<1>. QED  BY <1>1, <1>2

\* An exchange breaks, or the call is made again.
LEMMA SendBreaks ==
    ASSUME FInv, NEW w \in Workers, NEW d, d = call[w], d.op = "send",
           wire[w].phase \in {"asked", "answered"},
           NEW c, Alters(w, c, Phase("broken")), c.op = "send", c.data = d.data, c.shell = d.shell,
           c.command = d.command, c.end = d.end, c.attempt = d.attempt, c.lost = TRUE,
           late' \in {late, late \cup {d}}, wire[w].phase = "answered" => late' = late,
           sent' = sent, config' = config, commands' = commands
    PROVE  FInv'
<1>. PICK z : z = d.data
  OBVIOUS
<1>. PICK m : m = Phase("broken")
  OBVIOUS
<1>1. /\ z \in DOMAIN sent /\ Piece(d) /\ sent[z].result = "none" /\ Sends(d, z)
      /\ d.attempt \in Nat /\ d.attempt <= MaxRetries
      /\ IsFiniteSet(Late(late, z)) /\ Cardinality(Late(late, z)) \in Nat
      /\ SpentNow(z) \in Nat /\ SpentNow(z) = Made(d, wire[w]) - Cardinality(Late(late, z))
  BY SendUnderWay
<1>2. SpentThen(z) = Made(c, m) - Cardinality(Late(late', z))
  BY SendGoesOn
<1>3. m.phase = "broken" /\ Made(c, m) = d.attempt + 1
  BY DEF Made, Phase
<1>4. /\ IsFiniteSet(Late(late', z)) /\ Cardinality(Late(late', z)) \in Nat
      /\ Cardinality(Late(late', z)) <= Cardinality(Late(late, z)) + 1
      /\ late' = late => Cardinality(Late(late', z)) = Cardinality(Late(late, z))
  BY <1>1, GivenUp
<1>5. SpentNow(z) <= SpentThen(z) /\ SpentThen(z) \in Nat
  <2>1. CASE wire[w].phase = "asked"
    <3>1. Made(d, wire[w]) = d.attempt
      BY <2>1 DEF Made
    <3>. QED  BY <1>1, <1>2, <1>3, <1>4, <3>1
  <2>2. CASE wire[w].phase = "answered"
    <3>1. Made(d, wire[w]) = d.attempt + 1
      BY <2>2 DEF Made
    <3>. QED  BY <1>1, <1>2, <1>3, <1>4, <2>2, <3>1
  <2>. QED  BY <2>1, <2>2
<1>6. SentKeeps /\ Fed /\ Piece(c)
  BY <1>1, SameCommandsKeep DEF FInv, Pieces, SentKeeps, Fed, Piece
<1>. QED  BY <1>1, <1>3, <1>4, <1>5, <1>6, CallGoes

LEMMA SendRepeats ==
    ASSUME FInv, NEW w \in Workers, NEW d, d = call[w], d.op = "send", wire[w].phase = "broken",
           d.lost, d.attempt < MaxRetries,
           NEW c, Alters(w, c, Phase("asked")), c.op = "send", c.data = d.data, c.shell = d.shell,
           c.command = d.command, c.end = d.end, c.attempt = d.attempt + 1, c.lost = d.lost,
           late' = late, sent' = sent, config' = config, commands' = commands
    PROVE  FInv'
<1>. PICK z : z = d.data
  OBVIOUS
<1>. PICK m : m = Phase("asked")
  OBVIOUS
<1>1. /\ z \in DOMAIN sent /\ Piece(d) /\ sent[z].result = "none"
      /\ d.attempt \in Nat /\ d.attempt <= MaxRetries
      /\ IsFiniteSet(Late(late, z)) /\ Cardinality(Late(late, z)) \in Nat
      /\ SpentNow(z) \in Nat /\ SpentNow(z) = Made(d, wire[w]) - Cardinality(Late(late, z))
  BY SendUnderWay
<1>2. SpentThen(z) = Made(c, m) - Cardinality(Late(late, z))
  BY SendGoesOn
<1>3. m.phase = "asked" /\ Made(c, m) = d.attempt + 1 /\ Made(d, wire[w]) = d.attempt + 1
  BY DEF Made, Phase
<1>4. SpentNow(z) <= SpentThen(z) /\ SpentThen(z) \in Nat
  BY <1>1, <1>2, <1>3
<1>5. Piece(c)
  BY <1>1, ShellAssumption DEF Piece
<1>6. SentKeeps /\ Fed
  BY SameCommandsKeep DEF FInv, Pieces, SentKeeps, Fed
<1>. QED  BY <1>1, <1>3, <1>4, <1>5, <1>6, CallGoes

\* A call returns or is dropped.
LEMMA SendEnds ==
    ASSUME FInv, NEW w \in Workers, NEW d, d = call[w], d.op = "send", d.lost \in BOOLEAN,
           Alters(w, Idle, Phase("none")), late' \in {late, late \cup {d}},
           wire[w].phase # "asked" => late' = late,
           NEW result, sent' = Sent(d, result), config' = config, commands' = commands,
           result = "ok" => wire[w].phase = "answered" /\ SendSoap(config.method, wire[w]) = "ok"
    PROVE  FInv'
<1>. PICK z : z = d.data
  OBVIOUS
<1>1. /\ z \in DOMAIN sent /\ Piece(d) /\ sent[z].result = "none" /\ Sends(d, z) /\ (~d.lost => d.attempt = 0)
      /\ d.attempt \in Nat /\ d.attempt <= MaxRetries
      /\ \A u \in Workers : Sends(call[u], z) => u = w
      /\ IsFiniteSet(Late(late, z)) /\ Cardinality(Late(late, z)) \in Nat
      /\ SpentNow(z) \in Nat /\ SpentNow(z) = Made(d, wire[w]) - Cardinality(Late(late, z))
  BY SendUnderWay
<1>2. /\ IsSeq(sent') /\ DOMAIN sent' = DOMAIN sent
      /\ \A x \in DOMAIN sent \ {z} : sent'[x] = sent[x]
      /\ sent'[z] = [[sent[z] EXCEPT !.result = result] EXCEPT !.lost = d.lost]
  <2>. PICK s : s = [[sent[z] EXCEPT !.result = result] EXCEPT !.lost = d.lost]
    OBVIOUS
  <2>1. IsSeq(sent)
    BY DEF FInv, Pieces
  <2>2. sent' = [sent EXCEPT ![z] = s]
    BY <1>1, <2>1 DEF Sent, IsSeq
  <2>3. LET t == [sent EXCEPT ![z] = s]
        IN /\ IsSeq(t) /\ Len(t) = Len(sent) /\ DOMAIN t = DOMAIN sent /\ t[z] = s
           /\ \A j \in DOMAIN sent \ {z} : t[j] = sent[j]
    BY <1>1, <2>1, Replaced
  <2>. QED  BY <2>2, <2>3
<1>3. /\ sent'[z].shell = sent[z].shell /\ sent'[z].command = sent[z].command
      /\ sent'[z].end = sent[z].end /\ sent'[z].alone = sent[z].alone
      /\ sent'[z].result = result /\ sent'[z].lost = d.lost /\ DOMAIN sent'[z] = DOMAIN sent[z]
  <2>1. DOMAIN sent[z] = SentFields
    BY <1>1 DEF FInv, Pieces
  <2>. QED  BY <1>2, <2>1 DEF SentFields
<1>4. Settled(sent', z) <=> result = "ok" /\ ~d.lost
  BY <1>3 DEF Settled
<1>5. SpentThen(z) = AtMost(sent', z) - Cardinality(Late(late', z))
  <2>1. \A u \in Workers : ~Sends(call'[u], z)
    BY <1>1, IdleIs DEF Alters, Sends
  <2>. QED  BY <2>1, SpentOfEnded DEF SpentThen
<1>6. /\ IsFiniteSet(Late(late', z)) /\ Cardinality(Late(late', z)) \in Nat
      /\ Cardinality(Late(late', z)) <= Cardinality(Late(late, z)) + 1
      /\ late' = late => Cardinality(Late(late', z)) = Cardinality(Late(late, z))
  BY <1>1, GivenUp
<1>7. SpentNow(z) <= SpentThen(z) /\ SpentThen(z) \in Nat
  <2>1. CASE wire[w].phase = "asked"
    <3>1. Made(d, wire[w]) = d.attempt /\ AtMost(sent', z) = MaxRetries + 1
      BY <1>4, <2>1 DEF Made, AtMost
    <3>. QED  BY <1>1, <1>5, <1>6, <3>1, ShellAssumption
  <2>2. CASE wire[w].phase # "asked"
    <3>1. Made(d, wire[w]) = d.attempt + 1
      BY <2>2 DEF Made
    <3>2. d.attempt + 1 <= AtMost(sent', z) /\ AtMost(sent', z) \in Nat
      BY <1>1, <1>4, ShellAssumption DEF AtMost
    <3>. QED  BY <1>1, <1>5, <1>6, <2>2, <3>1, <3>2
  <2>. QED  BY <2>1, <2>2
<1>8. SentKeeps
  <2>1. \A x \in DOMAIN sent \ {z} : Settled(sent', x) => Settled(sent, x)
    BY <1>2 DEF Settled
  <2>2. Sends(call[w], z)
    BY <1>1
  <2>3. ASSUME NEW x \in DOMAIN sent
        PROVE  /\ sent'[x].shell = sent[x].shell /\ sent'[x].command = sent[x].command
               /\ sent'[x].end = sent[x].end /\ sent'[x].alone = sent[x].alone
               /\ DOMAIN sent'[x] = DOMAIN sent[x]
               /\ Settled(sent', x) => Settled(sent, x) \/ \E u \in Workers : Sends(call[u], x)
    <3>1. CASE x = z
      BY <1>3, <2>2, <3>1, Zenon
    <3>2. CASE x # z
      <4>1. sent'[x] = sent[x]
        BY <1>2, <3>2
      <4>. QED  BY <2>1, <3>2, <4>1
    <3>. QED  BY <3>1, <3>2
  <2>. QED  BY <1>2, <2>3, Zenon DEF SentKeeps
<1>9. Fed
  BY SameCommandsKeep DEF FInv, Fed
<1>10. result = "ok" => Arrived(z)'
  <2>1. result = "ok" => Arrived(z)
    BY DEF FInv, Delivered
  <2>2. Inputs /\ InputsKept
    BY SameCommandsKeep DEF FInv
  <2>3. InputsKept \/ \E x : InputTaken(x)
    BY <2>2
  <2>4. z \in DOMAIN sent
    BY <1>1
  <2>5. ASSUME Arrived(z) PROVE Arrived(z)'
    BY <1>8, <2>2, <2>3, <2>4, <2>5, ArrivedStays, ZenonT(60)
  <2>. QED  BY <2>1, <2>5
<1>. QED  BY <1>1, <1>2, <1>3, <1>6, <1>7, <1>8, <1>9, <1>10, IdleIs, CallGoes

\* A piece whose call was given up is served after all.
LEMMA SendServedLate ==
    ASSUME FInv, Sound(shells, commands), NEW d \in late, d.op = "send", late' = late \ {d},
           call' = call, wire' = wire, sent' = sent, config' = config, InputsKept \/ InputTaken(d)
    PROVE  FInv'
<1>. PICK z : z = d.data
  OBVIOUS
<1>1. Pieces /\ Inputs /\ Counts /\ Delivered /\ Alone /\ After
  BY DEF FInv
<1>2. z \in DOMAIN sent /\ Piece(d) /\ Sends(d, z)
  BY <1>1 DEF Pieces, Piece, Sends
<1>3. SentKeeps
  BY <1>1 DEF SentKeeps, Pieces
<1>4. /\ IsFiniteSet(Late(late', z)) /\ Cardinality(Late(late, z)) \in Nat \ {0}
      /\ Cardinality(Late(late', z)) = Cardinality(Late(late, z)) - 1
  <2>1. Late(late', z) = Late(late, z) \ {d} /\ d \in Late(late, z)
    BY <1>2 DEF Late
  <2>2. IsFiniteSet(Late(late, z))
    BY <1>1, <1>2 DEF Counts
  <2>3. IsFiniteSet(Late(late', z)) /\ Cardinality(Late(late', z)) = Cardinality(Late(late, z)) - 1
    BY <2>1, <2>2, FS_RemoveElement
  <2>4. Cardinality(Late(late', z)) \in Nat /\ Cardinality(Late(late, z)) \in Nat
    BY <2>2, <2>3, FS_CardinalityType
  <2>. QED  BY <2>3, <2>4
<1>5. SpentNow(z) \in Nat /\ SpentThen(z) = SpentNow(z) + 1
  <2>. PICK f : f = Cardinality(Late(late, z))
    OBVIOUS
  <2>1. f \in Nat /\ SpentNow(z) \in Nat
    BY <1>1, <1>2, <1>4 DEF Counts, SpentNow
  <2>2. ASSUME NEW w \in Workers, Sends(call[w], z) PROVE SpentThen(z) = SpentNow(z) + 1
    <3>1. \A u \in Workers : Sends(call[u], z) => u = w
      BY <1>1, <2>2 DEF Pieces, Sends
    <3>2. SpentNow(z) = Made(call[w], wire[w]) - f
      BY <2>2, <3>1, SpentByCall DEF SpentNow
    <3>3. Spent(call, wire, late', sent, z) = Made(call[w], wire[w]) - Cardinality(Late(late', z))
      BY <2>2, <3>1, SpentByCall
    <3>4. SpentThen(z) = Made(call[w], wire[w]) - (f - 1)
      BY <1>4, <3>3 DEF SpentThen
    <3>5. Made(call[w], wire[w]) \in Nat
      BY <1>1, <2>2 DEF Made, Pieces, Piece, Sends
    <3>. QED  BY <2>1, <3>2, <3>4, <3>5
  <2>3. ASSUME \A u \in Workers : ~Sends(call[u], z) PROVE SpentThen(z) = SpentNow(z) + 1
    <3>1. SpentNow(z) = AtMost(sent, z) - f
      BY <2>3, SpentOfEnded DEF SpentNow
    <3>2. Spent(call, wire, late', sent, z) = AtMost(sent, z) - Cardinality(Late(late', z))
      BY <2>3, SpentOfEnded
    <3>3. SpentThen(z) = AtMost(sent, z) - (f - 1)
      BY <1>4, <3>2 DEF SpentThen
    <3>4. AtMost(sent, z) \in Nat
      BY ShellAssumption DEF AtMost
    <3>. QED  BY <2>1, <3>1, <3>3, <3>4
  <2>. QED  BY <2>1, <2>2, <2>3
<1>6. ASSUME InputTaken(d) PROVE ~Settled(sent, z)
  <2>1. SUFFICES ASSUME Settled(sent, z) PROVE FALSE
    OBVIOUS
  <2>2. sent[z].command # Everything
    <3>1. PICK j \in DOMAIN commands : commands[j].id = d.command
      BY <1>6 DEF InputTaken, TakenBy
    <3>2. commands[j].id \in CommandNames
      BY DEF Sound, CommandSound, CommandNames, Named
    <3>. QED  BY <1>2, <3>1, <3>2, CommandIdsAssumption DEF Piece, Everything
  <2>3. PICK i \in DOMAIN commands : Took(z, i)
    BY <1>1, <1>2, <2>1, <2>2 DEF Delivered, Settled, Arrived
  <2>4. Cardinality(Places(z, i)) >= 1
    <3>1. Places(z, i) # {}
      BY <2>3 DEF Took, Places
    <3>2. IsFiniteSet(Places(z, i))
      BY <1>1, PlacesAre
    <3>. QED  BY <3>1, <3>2, FS_EmptySet, FS_CardinalityType
  <2>5. \A u \in Workers : ~Sends(call[u], z)
    BY <1>1, <2>1 DEF Pieces, Sends, Settled
  <2>6. SpentNow(z) = 1 - Cardinality(Late(late, z))
    BY <2>1, <2>5, SpentOfEnded DEF SpentNow, AtMost
  <2>7. Cardinality(Places(z, i)) <= SpentNow(z)
    BY <1>1, <1>2 DEF Counts, SpentNow
  <2>8. Cardinality(Places(z, i)) \in Nat
    BY <1>1, PlacesAre, FS_CardinalityType
  <2>. QED  BY <1>4, <2>4, <2>6, <2>7, <2>8
<1>7. Fed
  <2>1. CASE InputTaken(d)
    <3>1. SpentNow(z) + 1 <= SpentThen(z)
      BY <1>5
    <3>. QED  BY <1>2, <1>6, <2>1, <3>1 DEF Fed, FedBy
  <2>. QED  BY <2>1 DEF Fed
<1>8. Room
  <2>1. ASSUME NEW x \in DOMAIN sent, x # z PROVE Beside(x)
    BY <1>2, <2>1 DEF Beside, Sends
  <2>2. ASSUME NEW x \in DOMAIN sent'
        PROVE /\ IsFiniteSet(Late(late', x)) /\ SpentThen(x) \in Nat /\ SpentNow(x) <= SpentThen(x)
    <3>1. CASE x = z
      BY <1>4, <1>5, <3>1
    <3>2. CASE x # z
      <4>1. IsFiniteSet(Late(late', x)) /\ SpentThen(x) = SpentNow(x) /\ SpentThen(x) \in Nat
        BY <1>1, <2>1, <2>2, <3>2, BesideKeeps
      <4>. QED  BY <4>1
    <3>. QED  BY <3>1, <3>2
  <2>. QED  BY <2>2 DEF Room
<1>9. Inputs' /\ Counts' /\ After'
  BY <1>1, <1>3, <1>7, <1>8, InputsGo, CountsGo, AfterGoes
<1>10. Pieces'
  <2>1. \A e : Piece(e) => Piece(e)'
    BY DEF Piece
  <2>. QED  BY <1>1, <2>1 DEF Pieces
<1>11. \A x \in DOMAIN sent : Arrived(x) => Arrived(x)'
  BY <1>1, <1>3, ArrivedStays
<1>12. Delivered' /\ Alone'
  <2>1. \A x \in DOMAIN sent' : sent'[x].result = "ok" => Arrived(x)'
    BY <1>1, <1>11 DEF Delivered
  <2>2. ASSUME NEW w \in Workers, call[w].op = "send", wire[w].phase = "answered",
               SendSoap(config.method, wire[w]) = "ok"
        PROVE  \E x : x = call[w].data /\ Arrived(x)'
    <3>1. Arrived(call[w].data) /\ call[w].data \in DOMAIN sent
      BY <1>1, <2>2 DEF Delivered, Pieces, Piece
    <3>. QED  BY <1>11, <3>1
  <2>3. Delivered'
    BY <2>1, <2>2 DEF Delivered
  <2>. QED  BY <1>1, <2>3 DEF Alone
<1>. QED  BY <1>9, <1>10, <1>12 DEF FInv

-----------------------------------------------------------------------------
(* Every step keeps the invariant of the pieces.                             *)

\* A step of a worker that does not send.
LEMMA NoSend ==
    ASSUME FInv, NEW w \in Workers, NEW c, NEW m, Alters(w, c, m), call[w].op # "send", c.op # "send",
           late' \in {late, late \cup {call[w]}}, InputsKept, sent' = sent, config' = config
    PROVE  FInv'
<1>1. \A u \in Workers : call'[u].op = "send" \/ call[u].op = "send" => call'[u] = call[u] /\ wire'[u] = wire[u]
  BY DEF Alters
<1>2. \A e : e.op = "send" => (e \in late' <=> e \in late)
  OBVIOUS
<1>. QED  BY <1>1, <1>2, ElsewhereKeeps

LEMMA OtherBegins ==
    ASSUME IInv, FInv, NEW w \in Workers, NEW kind, NEW c, Begin(w, kind, c), c.op # "send", sent' = sent
    PROVE  FInv'
<1>1. /\ ~Busy(w) /\ call' = [call EXCEPT ![w] = c] /\ wire' = [wire EXCEPT ![w] = Phase("asked")]
      /\ late' = late /\ commands' = commands /\ config' = config
  BY DEF Begin, service
<1>2. Alters(w, c, Phase("asked"))
  BY <1>1, AltersIs DEF IInv
<1>3. call[w].op # "send" /\ InputsKept
  BY <1>1, SameCommandsKeep DEF Busy, FInv
<1>. QED  BY <1>1, <1>2, <1>3, NoSend

\* What an operation is applied to has no attempt behind it.
LEMMA TargetIsNew ==
    ASSUME NEW t \in Targets
    PROVE  DOMAIN t = DOMAIN Idle /\ t.attempt = 0 /\ t.lost = FALSE /\ t.op = "idle"
<1>1. Idle.attempt = 0 /\ Idle.lost = FALSE
  BY DEF Idle
<1>2. CASE \E s \in {handle} \ {None} : t = [Idle EXCEPT !.shell = s.id, !.uri = s.uri]
  BY <1>1, <1>2, IdleIs
<1>3. CASE \E s \in saved : t = [Idle EXCEPT !.api = "client", !.shell = s.id]
  BY <1>1, <1>3, IdleIs
<1>. QED  BY <1>2, <1>3 DEF Targets

LEMMA SendFeeds ==
    ASSUME IInv, FInv, NEW w \in Workers, NEW t \in Targets, NEW id, NEW end, Send(w, t, id, end)
    PROVE  FInv'
<1>. PICK c : c = [t EXCEPT !.op = "send", !.command = id, !.end = end, !.data = Len(sent) + 1]
  OBVIOUS
<1>. PICK s : s = [shell |-> t.shell, command |-> id, end |-> end, result |-> "none",
                   lost |-> FALSE, alone |-> ~Under({"send"})]
  OBVIOUS
<1>1. Begin(w, "sends", c) /\ sent' = Append(sent, s)
  BY DEF Send
<1>2. /\ ~Busy(w) /\ call' = [call EXCEPT ![w] = c] /\ wire' = [wire EXCEPT ![w] = Phase("asked")]
      /\ late' = late /\ commands' = commands /\ config' = config
  BY <1>1 DEF Begin, service
<1>3. Alters(w, c, Phase("asked"))
  BY <1>2, AltersIs DEF IInv
<1>4. /\ c.op = "send" /\ c.data = Len(sent) + 1 /\ c.attempt = 0 /\ c.lost = FALSE
      /\ c.shell = t.shell /\ c.command = id /\ c.end = end
  <2>1. DOMAIN t = DOMAIN Idle /\ t.attempt = 0 /\ t.lost = FALSE
    BY TargetIsNew
  <2>. QED  BY <2>1, IdleIs
<1>5. /\ s.shell = c.shell /\ s.command = c.command /\ s.end = c.end /\ s.result = "none"
      /\ DOMAIN s = SentFields /\ (s.alone => ~Under({"send"}))
  BY <1>4 DEF SentFields
<1>. QED  BY <1>1, <1>2, <1>3, <1>4, <1>5, SendBegins

LEMMA ServeFeeds == ASSUME IInv, FInv, NEW w \in Workers, Serve(w) PROVE FInv'
<1>. PICK d : d = call[w]
  OBVIOUS
<1>1. /\ Asked(w) /\ call' = call /\ late' = late /\ config' = config /\ sent' = sent
  BY DEF Serve, history
<1>2. PICK o \in Served(RequestOf(call[w]), call[w].number) :
        /\ shells' = o.shells /\ commands' = o.commands
        /\ \E status \in IF HasFault(o.doc) THEN {200, 500} ELSE {200} :
              wire' = [wire EXCEPT ![w] = [phase |-> "answered", status |-> status, token |-> Proof,
                                           doc |-> o.doc, reason |-> Reason(call[w])]]
  BY Zenon DEF Serve
<1>4. PICK m : /\ Alters(w, d, m) /\ m.phase = "answered" /\ m.token = Proof /\ m.doc = o.doc
               /\ m.status = 200 \/ (m.status = 500 /\ HasFault(m.doc))
  <2>1. PICK status \in IF HasFault(o.doc) THEN {200, 500} ELSE {200} :
          wire' = [wire EXCEPT ![w] = [phase |-> "answered", status |-> status, token |-> Proof,
                                       doc |-> o.doc, reason |-> Reason(call[w])]]
    BY <1>2, Zenon
  <2>. DEFINE m == [phase |-> "answered", status |-> status, token |-> Proof,
                    doc |-> o.doc, reason |-> Reason(call[w])]
  <2>2. /\ m.phase = "answered" /\ m.token = Proof /\ m.doc = o.doc
        /\ m.status = 200 \/ (m.status = 500 /\ HasFault(m.doc))
    OBVIOUS
  <2>3. wire' = [wire EXCEPT ![w] = m]
    BY <2>1
  <2>4. call' = [call EXCEPT ![w] = d]
    BY <1>1 DEF IInv, TypeInv
  <2>. HIDE DEF m
  <2>5. Alters(w, d, m)
    BY <1>1, <2>3 DEF IInv, TypeInv, Alters
  <2>. QED  BY <2>2, <2>5
<1>6. /\ InPlace(d) /\ d.op # "idle" /\ Sound(shells, commands) /\ Inputs /\ config \in Configs
  BY <1>1 DEF IInv, Placed, TypeInv, FInv, Asked, Busy
<1>7. \/ InputsKept /\ (d.op = "send" /\ ~HasFault(o.doc) => d.command = Everything)
      \/ d.op = "send" /\ InputTaken(d)
  BY <1>2, <1>6, ServedInputs
<1>8. SendSoap(config.method, m) = "ok" => ~HasFault(o.doc)
  BY <1>4, <1>6, ServiceAnswers
<1>9. CASE d.op # "send"
  BY <1>1, <1>4, <1>7, <1>9, NoSend
<1>10. CASE d.op = "send"
  <2>1. \/ InputsKept /\ (SendSoap(config.method, m) = "ok" => d.command = Everything)
        \/ InputTaken(d)
    BY <1>7, <1>8, <1>10
  <2>2. wire[w].phase = "asked"
    BY <1>1 DEF Asked
  <2>. QED  BY <1>1, <1>4, <1>10, <2>1, <2>2, SendAnswered
<1>. QED  BY <1>9, <1>10

LEMMA RefuseFeeds == ASSUME IInv, FInv, NEW w \in Workers, Refuse(w) PROVE FInv'
<1>. PICK d : d = call[w]
  OBVIOUS
<1>1. /\ Asked(w)
      /\ UNCHANGED <<call, late, commands, config, sent>>
  BY DEF Refuse, service, history
<1>. DEFINE answers == [phase : {"answered"}, status : {401, 403, 503}, token : {None}, doc : {<<>>}]
                \cup (IF config.method = "kerberos"
                      THEN {[phase |-> "answered", status |-> 200, token |-> "bad", doc |-> Response(<<>>)]} ELSE {})
<1>0. \E r \in answers : wire' = [wire EXCEPT ![w] = r]
  BY DEF Refuse
<1>. HIDE DEF answers
<1>2. PICK r : r \in answers /\ wire' = [wire EXCEPT ![w] = r]
  BY <1>0
<1>3. /\ r.phase = "answered"
      /\ \/ r.status \in {401, 403, 503} /\ r.token = None
         \/ config.method = "kerberos" /\ r.token = "bad"
  BY <1>2 DEF answers
<1>4. Alters(w, d, r)
  <2>1. call' = [call EXCEPT ![w] = d]
    BY <1>1 DEF IInv, TypeInv
  <2>2. TypeInv
    BY DEF IInv
  <2>3. wire' = [wire EXCEPT ![w] = r]
    BY <1>2
  <2>. QED  BY <2>1, <2>2, <2>3, AltersIs
<1>5. SendSoap(config.method, r) # "ok"
  BY <1>3, ServerRefuses
<1>6. InputsKept
  BY <1>1, SameCommandsKeep DEF FInv
<1>7. CASE d.op # "send"
  BY <1>1, <1>4, <1>6, <1>7, NoSend
<1>8. CASE d.op = "send"
  <2>1. wire[w].phase = "asked"
    BY <1>1 DEF Asked
  <2>. QED  BY <1>1, <1>3, <1>4, <1>5, <1>6, <1>8, <2>1, SendAnswered
<1>. QED  BY <1>7, <1>8

LEMMA BreakOffFeeds == ASSUME IInv, FInv, NEW w \in Workers, BreakOff(w) PROVE FInv'
<1>. PICK d : d = call[w]
  OBVIOUS
<1>. DEFINE r == [phase |-> "answered", status |-> wire[w].status, token |-> wire[w].token, doc |-> <<>>]
<1>1. /\ Answered(w) /\ wire[w].phase = "answered" /\ wire' = [wire EXCEPT ![w] = r]
      /\ UNCHANGED <<call, late, commands, config, sent>>
  BY DEF BreakOff, Answered, service, history
<1>2. r.phase = "answered" /\ SendSoap(config.method, r) # "ok"
  BY BrokenOff DEF BreakOff
<1>. HIDE DEF r
<1>3. Alters(w, d, r)
  <2>1. call' = [call EXCEPT ![w] = d]
    BY <1>1 DEF IInv, TypeInv
  <2>. QED  BY <1>1, <2>1, AltersIs DEF IInv
<1>4. CASE d.op # "send"
  <2>1. InputsKept
    BY <1>1, SameCommandsKeep DEF FInv
  <2>. QED  BY <1>1, <1>3, <1>4, <2>1, NoSend
<1>5. CASE d.op = "send"
  BY <1>1, <1>2, <1>3, <1>5, SendCut
<1>. QED  BY <1>4, <1>5

LEMMA LoseFeeds == ASSUME IInv, FInv, NEW w \in Workers, Lose(w) PROVE FInv'
<1>. PICK d : d = call[w]
  OBVIOUS
<1>1. /\ wire[w].phase \in {"asked", "answered"}
      /\ wire' = [wire EXCEPT ![w] = Phase("broken")] /\ call' = [call EXCEPT ![w].lost = TRUE]
      /\ late' \in {late, late \cup {d}} /\ (wire[w].phase = "answered" => late' = late)
      /\ commands' = commands /\ config' = config /\ sent' = sent
  BY DEF Lose, Asked, Answered, service
<1>2. PICK c : c = [d EXCEPT !.lost = TRUE]
  OBVIOUS
<1>3. /\ c.lost = TRUE /\ c.op = d.op /\ c.shell = d.shell /\ c.command = d.command /\ c.data = d.data
      /\ c.end = d.end /\ c.attempt = d.attempt
  BY <1>2 DEF IInv, Placed, InPlace, WellAsked, IsCall
<1>4. Alters(w, c, Phase("broken"))
  <2>1. call' = [call EXCEPT ![w] = c]
    BY <1>1, <1>2
  <2>. QED  BY <1>1, <2>1, AltersIs DEF IInv
<1>5. CASE d.op # "send"
  BY <1>1, <1>3, <1>4, <1>5, SameCommandsKeep, NoSend DEF FInv
<1>6. CASE d.op = "send"
  BY <1>1, <1>3, <1>4, <1>6, SendBreaks
<1>. QED  BY <1>5, <1>6

LEMMA RetryFeeds == ASSUME IInv, FInv, NEW w \in Workers, Retry(w) PROVE FInv'
<1>. PICK d : d = call[w]
  OBVIOUS
<1>1. /\ wire[w].phase = "broken" /\ d.attempt < MaxRetries
      /\ wire' = [wire EXCEPT ![w] = Phase("asked")] /\ call' = [call EXCEPT ![w].attempt = @ + 1]
      /\ late' = late /\ commands' = commands /\ config' = config /\ sent' = sent
  BY DEF Retry, Broken, service, history
<1>2. PICK c : c = [d EXCEPT !.attempt = @ + 1]
  OBVIOUS
<1>3. /\ c.lost = d.lost /\ c.op = d.op /\ c.shell = d.shell /\ c.command = d.command /\ c.data = d.data
      /\ c.end = d.end /\ c.attempt = d.attempt + 1
  BY <1>2 DEF IInv, Placed, InPlace, WellAsked, IsCall
<1>4. Alters(w, c, Phase("asked"))
  <2>1. call' = [call EXCEPT ![w] = c]
    BY <1>1, <1>2
  <2>. QED  BY <1>1, <2>1, AltersIs DEF IInv
<1>5. d.lost
  BY <1>1 DEF IInv, Once
<1>6. CASE d.op # "send"
  BY <1>1, <1>3, <1>4, <1>6, SameCommandsKeep, NoSend DEF FInv
<1>7. CASE d.op = "send"
  BY <1>1, <1>3, <1>4, <1>5, <1>7, SendRepeats
<1>. QED  BY <1>6, <1>7

\* A call that is over, or that is dropped.
LEMMA EndFeeds ==
    ASSUME IInv, FInv, NEW w \in Workers, NEW d, d = call[w],
           Ended(w),
           late' \in {late, late \cup {d}}, wire[w].phase # "asked" => late' = late,
           NEW result, sent' = Sent(d, result), config' = config, commands' = commands,
           result = "ok" /\ d.op = "send" => wire[w].phase = "answered" /\ SendSoap(config.method, wire[w]) = "ok"
    PROVE  FInv'
<1>1. Alters(w, Idle, Phase("none"))
  BY AltersIs DEF IInv, Ended
<1>2. CASE d.op # "send"
  <2>1. sent' = sent /\ InputsKept
    BY <1>2, SameCommandsKeep DEF Sent, FInv
  <2>. QED  BY <1>1, <1>2, <2>1, IdleIs, NoSend
<1>3. CASE d.op = "send"
  <2>1. d.lost \in BOOLEAN
    BY DEF IInv, Placed, InPlace, WellAsked, IsCall
  <2>. QED  BY <1>1, <1>3, <2>1, SendEnds
<1>. QED  BY <1>2, <1>3

LEMMA ReturnFeeds == ASSUME IInv, FInv, NEW w \in Workers, Return(w) PROVE FInv'
<1>. PICK d : d = call[w]
  OBVIOUS
<1>. PICK result : result = Result(w)
  OBVIOUS
<1>1. /\ Over(w) /\ Ended(w) /\ sent' = Sent(d, result)
      /\ late' = late /\ commands' = commands /\ config' = config
  BY DEF Return, service
<1>2. wire[w].phase \in {"broken", "answered"}
  BY <1>1 DEF Over, Answered, Broken
<1>3. ASSUME result = "ok" PROVE wire[w].phase = "answered" /\ SendSoap(config.method, wire[w]) = "ok"
  <2>1. ~Broken(w)
    BY <1>3 DEF Result
  <2>2. Answered(w)
    BY <1>1, <2>1 DEF Over
  <2>3. PICK r : r = SendSoap(config.method, wire[w])
    OBVIOUS
  <2>4. result = IF r = "ok" /\ Parsed(w) = None THEN "soap" ELSE r
    BY <2>1, <2>3 DEF Result
  <2>. QED  BY <1>3, <2>2, <2>3, <2>4 DEF Answered
<1>. QED  BY <1>1, <1>2, <1>3, EndFeeds

LEMMA CancelFeeds == ASSUME IInv, FInv, NEW w \in Workers, Cancel(w) PROVE FInv'
<1>. PICK d : d = call[w]
  OBVIOUS
<1>1. /\ Busy(w) /\ Ended(w) /\ sent' = Sent(d, "cancelled")
      /\ late' \in {late, late \cup {d}} /\ (wire[w].phase # "asked" => late' = late)
      /\ commands' = commands /\ config' = config
  BY DEF Cancel, Asked, service
<1>. QED  BY <1>1, EndFeeds

LEMMA ServeLateFeeds == ASSUME IInv, FInv, ServeLate PROVE FInv'
<1>1. PICK c \in late :
        /\ \E o \in Served(RequestOf(c), c.number) : commands' = o.commands
        /\ late' = late \ {c} /\ UNCHANGED <<call, wire, config, sent>>
  BY DEF ServeLate
<1>2. PICK o \in Served(RequestOf(c), c.number) : commands' = o.commands
  BY <1>1
<1>3. InPlace(c) /\ c.op # "idle" /\ Sound(shells, commands) /\ Inputs
  BY DEF IInv, Placed, FInv
<1>4. InputsKept \/ (c.op = "send" /\ InputTaken(c))
  BY <1>2, <1>3, ServedInputs
<1>5. CASE c.op = "send"
  BY <1>1, <1>3, <1>4, <1>5, SendServedLate
<1>6. CASE c.op # "send"
  <2>1. \A e : e.op = "send" => (e \in late' <=> e \in late)
    BY <1>1, <1>6
  <2>. QED  BY <1>1, <1>4, <1>6, <2>1, ElsewhereKeeps
<1>. QED  BY <1>5, <1>6

LEMMA NothingFeeds ==
    ASSUME FInv, UNCHANGED <<call, wire, late, commands, config, sent>>
    PROVE  FInv'
<1>1. InputsKept
  BY SameCommandsKeep DEF FInv
<1>. QED  BY <1>1, ElsewhereKeeps

LEMMA NextFeeds == IInv /\ FInv /\ [Next]_vars => FInv'
<1>. SUFFICES ASSUME IInv, FInv, [Next]_vars PROVE FInv'
  OBVIOUS
<1>1. CASE UNCHANGED vars
  BY <1>1, NothingFeeds DEF vars, service, history
<1>2. ASSUME NEW w \in Workers, CallStep(w) PROVE FInv'
  <2>1. ASSUME NEW op \in Creating, Create(w, op) PROVE FInv'
    <3>. PICK c : c = [Idle EXCEPT !.op = op, !.number = budget.opens,
                          !.shell = IF op = "openPsrp" THEN Plain(ProposedIds[budget.opens]) ELSE None,
                          !.uri   = IF op = "openPsrp" THEN PSRP ELSE CMD]
      OBVIOUS
    <3>1. Begin(w, "opens", c) /\ sent' = sent
      BY <2>1 DEF Create
    <3>2. c.op # "send"
      BY IdleIs DEF Creating
    <3>. QED  BY <3>1, <3>2, OtherBegins
  <2>2. ASSUME NEW s \in saved, Reconnect(w, s) PROVE FInv'
    <3>. PICK c : c = [Idle EXCEPT !.op = "reconnect", !.shell = s.id, !.uri = s.uri]
      OBVIOUS
    <3>1. Begin(w, "reconnects", c) /\ sent' = sent
      BY <2>2 DEF Reconnect
    <3>2. c.op # "send"
      BY IdleIs
    <3>. QED  BY <3>1, <3>2, OtherBegins
  <2>3. ASSUME NEW op \in Consuming, End(w, op) PROVE FInv'
    <3>. PICK c : c = [Idle EXCEPT !.op = op, !.shell = handle.id, !.uri = handle.uri]
      OBVIOUS
    <3>1. Begin(w, "ends", c) /\ sent' = sent
      BY <2>3 DEF End
    <3>2. c.op # "send"
      BY IdleIs DEF Consuming
    <3>. QED  BY <3>1, <3>2, OtherBegins
  <2>4. ASSUME NEW t \in Targets, NEW id \in {None, PipelineId}, Start(w, t, id) PROVE FInv'
    <3>. PICK c : c = [t EXCEPT !.op = "start", !.command = id]
      OBVIOUS
    <3>1. Begin(w, "starts", c) /\ sent' = sent
      BY <2>4 DEF Start
    <3>2. c.op # "send"
      BY IdleIs, TargetIsNew
    <3>. QED  BY <3>1, <3>2, OtherBegins
  <2>5. ASSUME NEW t \in Targets, NEW id \in CommandsOf(t), Receive(w, t, id) PROVE FInv'
    <3>. PICK c : c = [t EXCEPT !.op = "receive", !.command = id]
      OBVIOUS
    <3>1. Begin(w, "receives", c) /\ sent' = sent
      BY <2>5 DEF Receive
    <3>2. c.op # "send"
      BY IdleIs, TargetIsNew
    <3>. QED  BY <3>1, <3>2, OtherBegins
  <2>6. ASSUME NEW t \in Targets, NEW id \in CommandsOf(t), Signal(w, t, id) PROVE FInv'
    <3>. PICK op : op = IF t.api = "handle" THEN "ctrlC" ELSE "terminate"
      OBVIOUS
    <3>. PICK c : c = [t EXCEPT !.op = op, !.command = id]
      OBVIOUS
    <3>1. Begin(w, "signals", c) /\ sent' = sent
      BY <2>6 DEF Signal
    <3>2. c.op # "send"
      BY IdleIs, TargetIsNew
    <3>. QED  BY <3>1, <3>2, OtherBegins
  <2>7. ASSUME NEW t \in Targets, NEW id \in CommandsOf(t) \cup {Everything}, NEW end \in BOOLEAN,
               Send(w, t, id, end)
        PROVE  FInv'
    BY <2>7, SendFeeds
  <2>8. ASSUME NEW t \in Targets, Delete(w, t) PROVE FInv'
    <3>. PICK c : c = [t EXCEPT !.op = "delete"]
      OBVIOUS
    <3>1. Begin(w, "ends", c) /\ sent' = sent
      BY <2>8 DEF Delete
    <3>2. c.op # "send"
      BY IdleIs, TargetIsNew
    <3>. QED  BY <3>1, <3>2, OtherBegins
  <2>9. CASE Retry(w) \/ Return(w) \/ Cancel(w)
    BY <2>9, RetryFeeds, ReturnFeeds, CancelFeeds
  <2>. QED  BY <1>2, <2>1, <2>2, <2>3, <2>4, <2>5, <2>6, <2>7, <2>8, <2>9 DEF CallStep
<1>3. ASSUME NEW w \in Workers, Serve(w) \/ Refuse(w) \/ BreakOff(w) \/ Lose(w) PROVE FInv'
  BY <1>3, ServeFeeds, RefuseFeeds, BreakOffFeeds, LoseFeeds
<1>4. CASE Drop \/ Reap
  <2>1. UNCHANGED <<call, wire, late, commands, config, sent>>
    BY <1>4 DEF Drop, Reap, service, history
  <2>. QED  BY <2>1, NothingFeeds
<1>5. CASE ServeLate
  BY <1>5, ServeLateFeeds
<1>. QED  BY <1>1, <1>2, <1>3, <1>4, <1>5 DEF Next

LEMMA InitFeeds == Init => FInv
<1>. SUFFICES ASSUME Init PROVE FInv
  OBVIOUS
<1>1. sent = <<>> /\ commands = <<>> /\ late = {} /\ \A w \in Workers : call[w].op # "send"
  BY IdleIs DEF Init
<1>2. IsSeq(<<>>) /\ DOMAIN <<>> = {}
  BY DEF IsSeq
<1>3. DOMAIN sent = {} /\ DOMAIN commands = {} /\ IsSeq(sent)
  BY <1>1, <1>2
<1>. QED  BY <1>1, <1>3 DEF FInv, Pieces, Inputs, Counts, Delivered, Alone, After

\* The invariant says what became of the input.
LEMMA FedInputArrives == IInv /\ FInv => InputArrives
<1>. SUFFICES ASSUME IInv, FInv, NEW i \in DOMAIN commands
              PROVE  /\ \A x \in SentTo(i) : LET copies == Cardinality(Places(x, i)) IN
                          /\ copies <= MaxRetries + 1
                          /\ sent[x].result = "ok" => copies >= 1 /\ (sent[x].end => commands[i].eof)
                          /\ sent[x].result = "ok" /\ ~sent[x].lost => copies = 1
                     /\ \A x, y \in SentTo(i) : x < y /\ sent[y].alone /\ ~sent[x].lost /\ sent[x].result = "ok" =>
                          \A j \in Places(x, i), k \in Places(y, i) : j < k
                     /\ commands[i].eof => \E x \in SentTo(i) : sent[x].end
  BY DEF InputArrives
<1>1. Pieces /\ Inputs /\ Counts /\ Delivered /\ After /\ Sound(shells, commands)
  BY DEF FInv, IInv
<1>2. ASSUME NEW x \in SentTo(i)
      PROVE  LET copies == Cardinality(Places(x, i)) IN
               /\ copies <= MaxRetries + 1
               /\ sent[x].result = "ok" => copies >= 1 /\ (sent[x].end => commands[i].eof)
               /\ sent[x].result = "ok" /\ ~sent[x].lost => copies = 1
  <2>. PICK n : n = Cardinality(Places(x, i))
    OBVIOUS
  <2>. PICK f : f = Cardinality(Late(late, x))
    OBVIOUS
  <2>1. x \in DOMAIN sent /\ Fits(x, i)
    BY DEF SentTo, Fits
  <2>2. IsFiniteSet(Places(x, i)) /\ n \in Nat /\ f \in Nat
    BY <1>1, <2>1, PlacesAre, FS_CardinalityType DEF Counts
  <2>3. n <= SpentNow(x) /\ SpentNow(x) \in Nat
    BY <1>1, <2>1 DEF Counts, SpentNow
  <2>4. SpentNow(x) <= MaxRetries + 1
    <3>1. ASSUME NEW w \in Workers, Sends(call[w], x) PROVE SpentNow(x) <= MaxRetries + 1
      <4>1. \A u \in Workers : Sends(call[u], x) => u = w
        BY <1>1, <3>1 DEF Pieces, Sends
      <4>2. SpentNow(x) = Made(call[w], wire[w]) - f
        BY <3>1, <4>1, SpentByCall DEF SpentNow
      <4>3. Made(call[w], wire[w]) \in Nat /\ Made(call[w], wire[w]) <= MaxRetries + 1
        BY <1>1, <3>1, ShellAssumption DEF Made, Pieces, Piece, Sends
      <4>. QED  BY <2>2, <4>2, <4>3, ShellAssumption
    <3>2. ASSUME \A w \in Workers : ~Sends(call[w], x) PROVE SpentNow(x) <= MaxRetries + 1
      <4>1. SpentNow(x) = AtMost(sent, x) - f
        BY <3>2, SpentOfEnded DEF SpentNow
      <4>2. AtMost(sent, x) \in Nat /\ AtMost(sent, x) <= MaxRetries + 1
        BY ShellAssumption DEF AtMost
      <4>. QED  BY <2>2, <4>1, <4>2, ShellAssumption
    <3>. QED  BY <3>1, <3>2
  <2>5. ASSUME Settled(sent, x) PROVE n <= 1
    <3>1. \A w \in Workers : ~Sends(call[w], x)
      BY <1>1, <2>5 DEF Pieces, Sends, Settled
    <3>2. SpentNow(x) = 1 - f
      BY <2>5, <3>1, SpentOfEnded DEF SpentNow, AtMost
    <3>. QED  BY <2>2, <2>3, <3>2
  <2>6. ASSUME sent[x].result = "ok" PROVE n >= 1 /\ (sent[x].end => commands[i].eof)
    <3>1. sent[x].command # Everything
      <4>1. commands[i].id \in CommandNames
        BY <1>1 DEF Sound, CommandSound, CommandNames, Named
      <4>. QED  BY <2>1, <4>1, CommandIdsAssumption DEF Fits, Everything
    <3>2. PICK j \in DOMAIN commands : Took(x, j)
      BY <1>1, <2>1, <2>6, <3>1 DEF Delivered, Arrived
    <3>3. j = i
      BY <1>1, <2>1, <3>2 DEF Took, Fits, Inputs
    <3>4. Places(x, i) # {} /\ (sent[x].end => commands[i].eof)
      BY <3>2, <3>3 DEF Took, Places
    <3>5. n # 0
      BY <2>2, <3>4, FS_EmptySet
    <3>. QED  BY <2>2, <3>4, <3>5
  <2>7. n <= MaxRetries + 1
    BY <2>2, <2>3, <2>4, ShellAssumption
  <2>8. sent[x].result = "ok" /\ ~sent[x].lost => n = 1
    BY <2>2, <2>5, <2>6 DEF Settled
  <2>. QED  BY <2>6, <2>7, <2>8
<1>3. ASSUME NEW x \in SentTo(i), NEW y \in SentTo(i), x < y, sent[y].alone, ~sent[x].lost, sent[x].result = "ok",
             NEW j \in Places(x, i), NEW k \in Places(y, i)
      PROVE  j < k
  BY <1>1, <1>3 DEF After, SentTo, Settled
<1>4. commands[i].eof => \E x \in SentTo(i) : sent[x].end
  BY <1>1 DEF Inputs, Fits, SentTo
<1>. QED  BY <1>2, <1>3, <1>4

\* A command has every piece that was reported as sent, its end with the last, and
\* no copy of one without a lost exchange; two calls that do not overlap are served
\* in their order, and no input is at its end but by a call: for every number of
\* futures, of pieces, of losses, retries and cancellations, and whenever the
\* service serves what was given up (Shell::send_input, send_soap_with_retry).
THEOREM InputAlwaysArrives == Spec => []InputArrives
<1>1. Init => IInv /\ FInv
  BY InitIsSound, InitFeeds
<1>2. IInv /\ FInv /\ [Next]_vars => (IInv /\ FInv)'
  BY NextKeeps, NextFeeds
<1>. QED  BY <1>1, <1>2, FedInputArrives, PTL DEF Spec

=============================================================================
