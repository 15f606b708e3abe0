------------------------------ MODULE MCPsrpRun ------------------------------
(* Scripts of up to two characters, and values of each kind: strings, an       *)
(* address, and objects with and without strings and texts.                    *)
EXTENDS PsrpRun

T(chars) == [i \in DOMAIN chars |-> Char(chars[i])]

ScriptChars == {"a", "<", ">", "&", "\"", "'", "lt;", "quot;", "bell", "_x0007_"}
MCScripts   == {T(s) : s \in UNION {[1 .. n -> ScriptChars] : n \in 0 .. 2}}

Objects == {Value("Obj", T(<<"None">>), <<Member("I32", T(<<"42">>))>>),
            Value("Obj", T(<<"a">>), <<>>),
            Value("Obj", T(<<"a">>), <<Member("S", T(<<"b", "&">>)), Member("Sg", T(<<"42">>)),
                                       Member("S", T(<<"c">>))>>),
            Value("Obj", <<>>, <<Member("S", <<>>), Member("S", T(<<"c">>))>>)}

Plain == {Value("S", T(s), <<>>) : s \in {<<>>, <<"<", "&", "lt;">>, <<"bell", "&", "quot;">>}}
             \cup {Value("URI", T(<<"a", "&">>), <<>>)}

MCOutputs == [type : {"PIPELINE_OUTPUT"}, value : Objects \cup Plain]
                 \cup [type : {"ERROR_RECORD"}, value : {Value("S", T(<<"a">>), <<>>)}]

=============================================================================
