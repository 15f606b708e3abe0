------------------------------ MODULE SoapParser ------------------------------
(***************************************************************************)
(* src/soap/parser.rs: what the client takes from a response by searching     *)
(* its text.  A document is the sequence of its tags and texts; a tag is      *)
(* found by how it is spelt, with its prefix, and not by what it means.       *)
(***************************************************************************)
EXTENDS SoapEnvelope, FiniteSetsExt

LOCAL INSTANCE SequencesExt

-----------------------------------------------------------------------------
(* Documents.                                                                *)

Bare == ""   \* no prefix, no name

Tag(kind, prefix, name, attrs) ==
    [kind |-> kind, prefix |-> prefix, name |-> name, attrs |-> attrs, text |-> None]
Open(prefix, name)         == Tag("open", prefix, name, <<>>)
OpenWith(prefix, name, as) == Tag("open", prefix, name, as)
Empty(prefix, name, as)    == Tag("empty", prefix, name, as)
Close(prefix, name)        == Tag("close", prefix, name, <<>>)
\* A text is of a sort: an id, bytes in base64, a number, a word ...
Text(sort, x) ==
    [kind |-> "text", prefix |-> Bare, name |-> Bare, attrs |-> <<>>, text |-> <<sort, x>>]
Element(prefix, name, content) == <<Open(prefix, name)>> \o content \o <<Close(prefix, name)>>

\* Nothing is left of it by trim().
Blank(content) == \A i \in DOMAIN content : content[i].kind = "text" /\ content[i].text[1] = "space"

-----------------------------------------------------------------------------
(* Searches.                                                                 *)

\* The tags that end in `:name>' or, without a prefix, read `<name>'.
Spelt(doc, name, kinds) ==
    {i \in DOMAIN doc : doc[i].kind \in kinds /\ doc[i].name = name /\ doc[i].attrs = <<>>}

Closing(doc, i) == {j \in i + 1 .. Len(doc) : doc[j] = Close(doc[i].prefix, doc[i].name)}

Content(doc, i) == SubSeq(doc, i + 1, Min(Closing(doc, i)) - 1)

\* extract_element_text: prefixed tags are looked for as long as there are any,
\* then, after the last of them, those without a prefix.
ElementText(doc, name) ==
    LET tags      == Spelt(doc, name, {"open", "close"})
        prefixed  == {i \in tags : doc[i].prefix # Bare}
        after     == IF prefixed = {} THEN 0 ELSE Max(prefixed)
        bare      == {i \in tags : doc[i].prefix = Bare /\ i > after}
        Filled(S) == {i \in S : /\ doc[i].kind = "open" /\ Closing(doc, i) # {}
                                /\ ~Blank(Content(doc, i))}
    IN IF Filled(prefixed) # {} THEN Content(doc, Min(Filled(prefixed)))
       ELSE IF Filled(bare) # {} THEN Content(doc, Min(Filled(bare)))
       ELSE None

\* contains(): the word is looked for in tags, attributes and texts alike.
Mentions(doc, word) ==
    \E i \in DOMAIN doc :
        \/ doc[i].name = word
        \/ doc[i].kind = "text" /\ doc[i].text = <<"word", word>>
        \/ \E a \in DOMAIN doc[i].attrs : doc[i].attrs[a][2] = word

-----------------------------------------------------------------------------
(* Streams.                                                                  *)

\* The tags that begin with `<rsp:Stream ' or `<Stream '; an empty one is taken
\* for an opening one.
StreamTags(doc) ==
    {i \in DOMAIN doc : /\ doc[i].kind \in {"open", "empty"} /\ doc[i].name = "Stream"
                        /\ doc[i].prefix \in {"rsp", Bare} /\ doc[i].attrs # <<>>}

StreamClose(doc, i) ==
    {j \in i + 1 .. Len(doc) : /\ doc[j].kind = "close" /\ doc[j].name = "Stream"
                               /\ doc[j].prefix \in {"rsp", Bare}}

NameOf(tag) ==
    LET named == {a \in DOMAIN tag.attrs : tag.attrs[a][1] = "Name"}
    IN IF named = {} THEN "" ELSE tag.attrs[Min(named)][2]

\* extract_streams: each tag with what stands between it and the next closing
\* one; the search ends at a tag that has none.
Streams(doc) ==
    LET from[n \in 0 .. Len(doc)] ==
            LET tags == {i \in StreamTags(doc) : i > n}
                tag  == Min(tags)
                end  == Min(StreamClose(doc, tag))
                body == SubSeq(doc, tag + 1, end - 1)
            IN IF tags = {} \/ StreamClose(doc, tag) = {} THEN <<>>
               ELSE (IF Blank(body) THEN <<>> ELSE <<<<NameOf(doc[tag]), body>>>>) \o from[end]
    IN from[0]

\* Base64 is one text, the bytes it stands for; anything else does not decode.
Decodes(body) == Len(body) = 1 /\ body[1].kind = "text" /\ body[1].text[1] = "base64"

-----------------------------------------------------------------------------
(* Errors of PowerShell.                                                     *)

Marker     == "#< CLIXML"
ErrorTag   == "<S S=Error>"
ErrorClose == "</S>"

\* parse_clixml: what stands between an error tag and the next closing one.
Clixml(data) ==
    LET from[n \in 0 .. Len(data)] ==
            LET tags == {i \in n + 1 .. Len(data) : data[i] = ErrorTag}
                ends == {i \in Min(tags) + 1 .. Len(data) : data[i] = ErrorClose}
            IN IF tags = {} \/ ends = {} THEN <<>>
               ELSE SubSeq(data, Min(tags) + 1, Min(ends) - 1) \o from[Min(ends)]
    IN from[0]

\* Mutant of Stderr: the marker is looked for in the last atom.
StderrByEnd(data) == IF data # <<>> /\ Last(data) = Marker THEN Clixml(data) ELSE data

Stderr(data) == IF data # <<>> /\ data[1] = Marker THEN Clixml(data) ELSE data

-----------------------------------------------------------------------------
(* Responses.                                                                *)

HasFault(doc) ==
    \E i \in Spelt(doc, "Fault", {"open", "close"}) : doc[i].prefix # Bare \/ doc[i].kind = "open"

\* Mutant of CheckSoapFault: only a fault that stands without a prefix.
CheckBareFault(doc) == ~ \E i \in DOMAIN doc : doc[i] = Open(Bare, "Fault")

CheckSoapFault(doc) == ~HasFault(doc)

ParseId(doc, name) ==
    LET id == ElementText(doc, name)
    IN IF id = None THEN None ELSE id[1].text[2]

ParseShellId(doc)   == ParseId(doc, "ShellId")
ParseCommandId(doc) == ParseId(doc, "CommandId")

DataOf(streams, name) ==
    FlattenSeq([i \in DOMAIN streams |-> IF streams[i][1] = name THEN streams[i][2][1].text[2] ELSE <<>>])

\* Each piece of stderr is looked at by itself.
StderrOf(streams) ==
    FlattenSeq([i \in DOMAIN streams |->
                    IF streams[i][1] = "stderr" THEN Stderr(streams[i][2][1].text[2]) ELSE <<>>])

ExitCode(doc) ==
    LET text == ElementText(doc, "ExitCode")
    IN IF text = None \/ text[1].text[1] # "number" THEN None ELSE text[1].text[2]

ParseReceiveOutput(doc) ==
    LET streams == Streams(doc)
    IN IF (\E i \in DOMAIN streams : ~Decodes(streams[i][2])) \/ HasFault(doc)
       THEN None
       ELSE [stdout |-> DataOf(streams, "stdout"), stderr |-> StderrOf(streams),
             exitCode |-> ExitCode(doc), done |-> Mentions(doc, Done)]

ItemsOf(doc) == LET items == ElementText(doc, "Items") IN IF items = None THEN <<>> ELSE items

\* Mutant of ParseEnumerateResponse: the last answer is taken to hold nothing.
ParseUnlessLast(doc) ==
    IF Mentions(doc, "EndOfSequence") THEN [items |-> <<>>, context |-> None]
    ELSE [items |-> ItemsOf(doc), context |-> ParseId(doc, "EnumerationContext")]

ParseEnumerateResponse(doc) ==
    [items   |-> ItemsOf(doc),
     context |-> IF Mentions(doc, "EndOfSequence") THEN None ELSE ParseId(doc, "EnumerationContext")]

=============================================================================
