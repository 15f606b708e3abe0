------------------------------- MODULE PsrpText -------------------------------
(***************************************************************************)
(* What PSRP messages say (src/psrp/protocol.rs): the CLIXML that is sent, and *)
(* what is found in the CLIXML that is received by searching its text.  A text *)
(* is a sequence of characters, a document one of tags and characters; a word, *)
(* an entity's name or a number counts as a character.  The service, external, *)
(* reads and writes CLIXML as PowerShell does.                                 *)
(***************************************************************************)
EXTENDS Naturals, Sequences

LOCAL INSTANCE FiniteSetsExt
LOCAL INSTANCE SequencesExt

-----------------------------------------------------------------------------
(* Characters and tags.                                                      *)

Char(c) == <<"char", c, "">>
NL      == Char("newline")
Bom     == Char("BOM")

Open(name, n)  == <<"open", name, n>>
Empty(name, n) == <<"empty", name, n>>
Close(name)    == <<"close", name, "">>

Entity == [c \in {"<", ">", "&", "\"", "'"} |->
              CASE c = "<" -> "lt;" [] c = ">" -> "gt;" [] c = "&" -> "amp;"
                [] c = "\"" -> "quot;" [] c = "'" -> "apos;"]

Mapped(text, F(_)) == FlattenSeq([i \in DOMAIN text |-> F(text[i])])

\* Mutant of XmlEscape: the ampersand is replaced after the others.
XmlEscapeTwice(text) ==
    LET Others(x) == IF x[2] \in DOMAIN Entity \ {"&"} THEN <<Char("&"), Char(Entity[x[2]])>>
                     ELSE IF x = Char("bell") THEN <<Char("_x0007_")>> ELSE <<x>>
        Amp(x)    == IF x = Char("&") THEN <<x, Char("amp;")>> ELSE <<x>>
    IN Mapped(Mapped(text, Others), Amp)

\* xml_escape: control characters but tab and newlines are spelt _xHHHH_; that a
\* text already holds such a spelling is not looked at.
XmlEscape(text) ==
    LET Escaped(x) == IF x[2] \in DOMAIN Entity THEN <<Char("&"), Char(Entity[x[2]])>>
                      ELSE IF x = Char("bell") THEN <<Char("_x0007_")>> ELSE <<x>>
    IN Mapped(text, Escaped)

\* str::replace of one entity.
Replaced(text, c) ==
    LET Here(n) == /\ n < Len(text) /\ text[n] = Char("&") /\ text[n + 1] = Char(Entity[c])
        from[n \in 1 .. Len(text) + 1] ==
            IF n > Len(text) THEN <<>>
            ELSE IF Here(n) THEN <<Char(c)>> \o from[n + 2] ELSE <<text[n]>> \o from[n + 1]
    IN from[1]

ReplacedInOrder(text, order) == FoldLeft(Replaced, text, order)

\* Mutant of XmlUnescape: the ampersand is replaced first.
XmlUnescapeAmpFirst(text) == ReplacedInOrder(text, <<"&", "<", ">", "\"", "'">>)

XmlUnescape(text) == ReplacedInOrder(text, <<"<", ">", "&", "\"", "'">>)

-----------------------------------------------------------------------------
(* Messages.                                                                 *)

Message(destination, type, rpid, pid, body) ==
    [destination |-> destination, type |-> type, rpid |-> rpid, pid |-> pid, body |-> body]

WithId(id, message) == [id |-> id, message |-> message]

\* A pool has one runspace, and names the versions it speaks.
SessionCapability == <<Open("Obj", ""), Open("Version", "protocolversion"), Char("2.3"),
                       Close("Version"), Close("Obj")>>
InitRunspacePool  == <<Open("Obj", ""), Open("I32", "MaxRunspaces"), Char("1"), Close("I32"),
                       Close("Obj")>>

CreatePipelineXml(script) ==
    <<Open("Obj", ""), Open("S", "Cmd")>> \o XmlEscape(script) \o <<Close("S"), Close("Obj")>>

CreationFragments(rpid) ==
    <<WithId(1, Message("server", "SESSION_CAPABILITY", rpid, "nil", SessionCapability)),
      WithId(2, Message("server", "INIT_RUNSPACEPOOL", rpid, "nil", InitRunspacePool))>>

\* Object ids 1 and 2 have been used; next_oid is 3.
PipelineFragments(rpid, pid, script) ==
    WithId(3, Message("server", "CREATE_PIPELINE", rpid, pid, CreatePipelineXml(script)))

\* decode_message of one that is long enough and UTF-8: the destination and the
\* ids are not looked at.
DecodeMessage(m) ==
    [type |-> m.type, data |-> IF m.body # <<>> /\ m.body[1] = Bom THEN Tail(m.body) ELSE m.body]

-----------------------------------------------------------------------------
(* Searches.                                                                 *)

IsTag(x) == x[1] # "char"

Spelling(n) == "N=" \o n
Numbers     == {"0", "1", "2", "3", "4", "5", "6", "42"}

\* The tag or the text that spells N="name", what follows the next `>', up to `<'.
NumberAfter(doc, i) ==
    LET tags == {j \in i .. Len(doc) : IsTag(doc[j])}
        next == {j \in Min(tags) + 1 .. Len(doc) : IsTag(doc[j])}
        text == SubSeq(doc, Min(tags) + 1, Min(next) - 1)
    IN IF tags # {} /\ next # {} /\ Len(text) = 1 /\ text[1][2] \in Numbers THEN text[1][2] ELSE ""

Naming(doc, name) ==
    {i \in DOMAIN doc : IF IsTag(doc[i]) THEN doc[i][3] = name ELSE doc[i] = Char(Spelling(name))}

ExtractNamedI32(doc, name) ==
    IF Naming(doc, name) = {} THEN "" ELSE NumberAfter(doc, Min(Naming(doc, name)))

\* The names of CLIXML that begin as that of a string does.
BeginWithS == {"S", "Sg", "SB", "SBK", "SS", "STK"}

\* All between `<S' and the next `</S>', which other tags may begin with too.
Strings(doc) ==
    LET from[n \in 0 .. Len(doc)] ==
            LET tags == {i \in n + 1 .. Len(doc) : doc[i][1] \in {"open", "empty"}
                                                    /\ doc[i][2] \in BeginWithS}
                tag  == Min(tags)
                ends == {j \in tag + 1 .. Len(doc) : doc[j] = Close("S")}
                text == XmlUnescape(SubSeq(doc, tag + 1, Min(ends) - 1))
            IN IF tags = {} THEN <<>>
               ELSE IF doc[tag][1] = "empty" THEN from[tag]
               ELSE IF ends = {} THEN <<>>
               ELSE (IF text = <<>> THEN <<>> ELSE <<text>>) \o from[Min(ends)]
    IN from[0]

Placeholders == {<<>>, <<Char("None")>>, <<Char("Default")>>, <<Char("UNKNOWN")>>}

\* The first <ToString> that says something.
ToStrings(doc) ==
    LET from[n \in 0 .. Len(doc)] ==
            LET tags == {i \in n + 1 .. Len(doc) : doc[i] = Open("ToString", "")}
                ends == {j \in Min(tags) + 1 .. Len(doc) : doc[j] = Close("ToString")}
                text == XmlUnescape(SubSeq(doc, Min(tags) + 1, Min(ends) - 1))
            IN IF tags = {} \/ ends = {} THEN <<>>
               ELSE IF text \notin Placeholders THEN <<text>> ELSE from[Min(ends)]
    IN from[0]

Joined(texts) ==
    FlattenSeq([i \in DOMAIN texts |-> IF i = 1 THEN texts[i] ELSE <<NL>> \o texts[i]])

\* Strings, or else a ToString, or else all that stands outside of tags, as it is.
ExtractOutputText(doc) ==
    IF Strings(doc) # <<>> THEN Joined(Strings(doc))
    ELSE IF ToStrings(doc) # <<>> THEN ToStrings(doc)[1]
    ELSE SelectSeq(doc, LAMBDA x : ~IsTag(x))

-----------------------------------------------------------------------------
(* CLIXML as the service reads and writes it.                                *)

\* The text an XML reader finds; what is not well-formed ends it.
ReadXml(text) ==
    LET from[n \in 1 .. Len(text) + 1] ==
            LET named == {c \in DOMAIN Entity : n < Len(text) /\ text[n + 1] = Char(Entity[c])}
            IN IF n > Len(text) THEN <<>>
               ELSE IF text[n] \notin {Char("&"), Char("<")} THEN <<text[n]>> \o from[n + 1]
               ELSE IF text[n] = Char("&") /\ named # {}
                    THEN <<Char(CHOOSE c \in named : TRUE)>> \o from[n + 2]
                    ELSE <<Char("malformed")>>
    IN from[1]

Decoded(text) ==
    Mapped(text, LAMBDA x : IF x = Char("_x0007_") THEN <<Char("bell")>> ELSE <<x>>)

ScriptOf(doc) ==
    LET tag  == Min({i \in DOMAIN doc : doc[i] = Open("S", "Cmd")})
        end  == Min({j \in tag + 1 .. Len(doc) : doc[j] = Close("S")})
    IN Decoded(ReadXml(SubSeq(doc, tag + 1, end - 1)))

\* A script may itself hold what a control character is spelt with.
SpellsControl(script) == Contains(script, Char("_x0007_"))

\* Whether the service takes these for a pool and a pipeline of that pool.
Accepts(creation, pipeline, commandId) ==
    LET all      == creation \o <<pipeline>>
        expected == <<"SESSION_CAPABILITY", "INIT_RUNSPACEPOOL", "CREATE_PIPELINE">>
    IN /\ Len(all) = 3 /\ \A i \in 1 .. 3 : all[i].message.type = expected[i]
       /\ \A i, j \in 1 .. 3 : i < j => /\ all[i].id < all[j].id
                                         /\ all[i].message.rpid = all[j].message.rpid
       /\ pipeline.message.pid = commandId

Escaping(x) ==
    IF x[2] \in {"<", ">", "&"} THEN <<Char("&"), Char(Entity[x[2]])>>
    ELSE CASE x = NL              -> <<Char("_x000A_")>>
           [] x = Char("bell")    -> <<Char("_x0007_")>>
           [] x = Char("_x0007_") -> <<Char("_x005F_"), Char("x0007_")>>
           [] OTHER               -> <<x>>

Element(short, name, n, text) ==
    IF text = <<>> /\ short THEN <<Empty(name, n)>>
    ELSE <<Open(name, n)>> \o Mapped(text, Escaping) \o <<Close(name)>>

\* A value is of a type and has a text, or is an object with members and a text.
Value(type, text, members) == [type |-> type, text |-> text, members |-> members]
Member(type, text)         == [type |-> type, text |-> text]

Serialized(short, v) ==
    IF v.type # "Obj" THEN Element(short, v.type, "", v.text)
    ELSE <<Open("Obj", "")>> \o Element(short, "ToString", "", v.text)
             \o FlattenSeq([i \in DOMAIN v.members |->
                               Element(short, v.members[i].type, "member", v.members[i].text)])
             \o <<Close("Obj")>>

\* A state, by its number, and the error that came with it, whose text may be anything.
StateOf(name, n, text) ==
    <<Open("Obj", ""), Open("I32", name), Char(n), Close("I32"), Open("S", "Message")>>
        \o Mapped(text, Escaping) \o <<Close("S"), Open("I32", "Line"), Char("1"), Close("I32"),
                                        Close("Obj")>>

-----------------------------------------------------------------------------
(* What a reader of the output expects.                                      *)

\* What a value says: its strings, one to a line, or else its text, or else the
\* texts of its members.
Says(v) ==
    LET strings == SelectSeq(v.members, LAMBDA m : m.type = "S" /\ m.text # <<>>)
    IN IF v.type = "Obj" /\ strings # <<>> THEN Joined([i \in DOMAIN strings |-> strings[i].text])
       ELSE IF v.type # "Obj" \/ v.text # <<>> THEN v.text
       ELSE FlattenSeq([i \in DOMAIN v.members |-> v.members[i].text])

Texts(v) == {v.text} \cup {v.members[i].text : i \in DOMAIN v.members}

\* CLIXML's own spelling of control characters is not undone.
Spelt(v) == \E t \in Texts(v) : \E c \in {NL, Char("bell"), Char("_x0007_")} : Contains(t, c)

\* An ampersand before what looks like the rest of a later entity is unescaped twice.
Twice(v) == \E t \in Texts(v) : \E i \in 1 .. Len(t) - 1 :
                t[i] = Char("&") /\ t[i + 1] \in {Char("quot;"), Char("apos;")}

\* What is neither a string nor a ToString is not unescaped.
Raw(v) == /\ v.type # "S" /\ \A i \in DOMAIN v.members : v.members[i].type # "S"
          /\ \E t \in Texts(v) : \E c \in {"<", ">", "&"} : Contains(t, Char(c))

\* Another tag that begins with S is taken for a string's, up to the end of one.
Mistaken(v) == \E i, j \in DOMAIN v.members :
    i < j /\ v.members[i].type \in BeginWithS \ {"S"} /\ v.members[j].type = "S"

\* The text of the object is one that is passed over.
PassedOver(v) == v.type = "Obj" /\ v.text \in Placeholders \ {<<>>}

\* After another, a value that says nothing leaves no line.
Nothing(v) == Says(v) = <<>>

Misread(v) == Spelt(v) \/ Twice(v) \/ Raw(v) \/ Mistaken(v) \/ PassedOver(v) \/ Nothing(v)

=============================================================================
