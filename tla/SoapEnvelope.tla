----------------------------- MODULE SoapEnvelope -----------------------------
(***************************************************************************)
(* The requests of WS-Management as src/soap/envelope.rs builds them.  A      *)
(* text is known by what it says and how often it was escaped; an envelope by *)
(* its header, the texts and the values of its body, and the options that     *)
(* ended up between the two.                                                  *)
(***************************************************************************)
EXTENDS Naturals, Sequences

CONSTANTS Special,  \* what a text may say that XML reserves characters of
          Cfg,      \* WinrmConfig and the endpoint: the fields the builders read
          None

-----------------------------------------------------------------------------
(* Texts.                                                                    *)

Plain(says) == [says |-> says, escapes |-> 0]

\* Mutant of XmlEscape: the text is inserted as it is.
InsertedRaw(x) == x

\* Entities for the reserved characters; any other text stays what it is.
XmlEscape(x) == IF x.says \in Special THEN [x EXCEPT !.escapes = @ + 1] ELSE x

\* What the reader of a document makes of a text in it, which breaks the
\* document if its reserved characters stand there unescaped.
WellFormed(x) == x.says \in Special => x.escapes > 0
XmlRead(x)    == IF x.says \in Special THEN [x EXCEPT !.escapes = @ - 1] ELSE x

Escaped(texts) == [i \in DOMAIN texts |-> XmlEscape(texts[i])]
Optional(text) == IF text = None THEN <<>> ELSE <<XmlEscape(text)>>

-----------------------------------------------------------------------------
(* The header.                                                               *)

CMD  == "shell/cmd"
PSRP == "powershell/Microsoft.PowerShell"
WMI  == "wmi/root/cimv2/*"

Done      == "CommandState/Done"
Terminate == "signal/terminate"
CtrlC     == "signal/ctrl_c"

\* build_header_for
Header(action, uri, shell) ==
    [action |-> action, uri |-> uri, selector |-> Optional(shell),
     to |-> XmlEscape(Cfg.endpoint), session |-> Cfg.session,
     timeout |-> Cfg.timeout, maxEnvelope |-> Cfg.maxEnvelope, options |-> {}]

\* build_header: the shell is one of cmd, whatever it is.
CmdHeader(action, shell) == Header(action, CMD, shell)

WithOptions(header, options) == [header EXCEPT !.options = options]

Envelope(header, element, texts, values) ==
    [header |-> header, loose |-> {}, element |-> element, texts |-> texts, values |-> values]

NoTexts == [none |-> <<>>]

-----------------------------------------------------------------------------
(* Shells.                                                                   *)

\* The options of the command shell follow the header instead of being in it.
CreateShellRequest ==
    [Envelope(CmdHeader("Create", None), "Shell",
              [workingDirectory |-> Optional(Cfg.workingDirectory),
               names |-> Escaped(Cfg.envNames), variables |-> Escaped(Cfg.envValues)],
              [input |-> {"stdin"}, output |-> {"stdout", "stderr"}, idle |-> Cfg.idle])
     EXCEPT !.loose = {<<"WINRS_NOPROFILE", TRUE>>, <<"WINRS_CODEPAGE", Cfg.codepage>>}]

\* The shell id is the one the client proposes.
CreatePsrpShellRequest(creation, uri, shell) ==
    Envelope(WithOptions(Header("Create", uri, None), {<<"protocolversion", "2.3">>}), "Shell",
             [shell |-> Optional(shell)],
             [input |-> {"stdin", "pr"}, output |-> {"stdout"}, idle |-> Cfg.idle,
              creation |-> creation])

DeleteShellRequest(shell) == Envelope(CmdHeader("Delete", shell), "Empty", NoTexts, <<>>)

\* The time the service may keep the shell is that of one operation.
DisconnectShellRequestWithUri(shell, uri) ==
    Envelope(Header("Disconnect", uri, shell), "Disconnect", NoTexts, [idle |-> Cfg.timeout])

ReconnectShellRequestWithUri(shell, uri) ==
    Envelope(Header("Reconnect", uri, shell), "Reconnect", NoTexts, <<>>)

-----------------------------------------------------------------------------
(* Commands.                                                                 *)

ExecuteCommandRequestWithUri(shell, line, args, uri) ==
    Envelope(Header("Command", uri, shell), "CommandLine",
             [line |-> <<XmlEscape(line)>>, args |-> Escaped(args), command |-> <<>>], <<>>)

ExecuteCommandRequest(shell, line, args) == ExecuteCommandRequestWithUri(shell, line, args, CMD)

ExecuteCommandWithIdRequest(shell, line, args, command, uri) ==
    Envelope(Header("Command", uri, shell), "CommandLine",
             [line |-> <<XmlEscape(line)>>, args |-> Escaped(args),
              command |-> <<XmlEscape(command)>>], <<>>)

ReceiveOutputRequestWithUri(shell, command, uri) ==
    Envelope(Header("Receive", uri, shell), "Receive", [command |-> <<XmlEscape(command)>>],
             [streams |-> {"stdout", "stderr"}])

ReceiveOutputRequest(shell, command) == ReceiveOutputRequestWithUri(shell, command, CMD)

\* Without a command the output is that of the shell.
ReceivePsrpRequest(shell, command, uri) ==
    Envelope(WithOptions(Header("Receive", uri, shell), {<<"KEEPALIVE", TRUE>>}), "Receive",
             [command |-> Optional(command)], [streams |-> {"stdout"}])

\* Mutant of SendInputRequestWithUri: the end is never said.
SendInputOpenEnded(shell, command, data, endOfStream, uri) ==
    Envelope(Header("Send", uri, shell), "Send", [command |-> <<XmlEscape(command)>>],
             [stream |-> "stdin", data |-> data, end |-> FALSE])

SendInputRequestWithUri(shell, command, data, endOfStream, uri) ==
    Envelope(Header("Send", uri, shell), "Send", [command |-> <<XmlEscape(command)>>],
             [stream |-> "stdin", data |-> data, end |-> endOfStream])

\* Neither a command nor an end.
SendPsrpRequest(shell, data, uri) ==
    Envelope(Header("Send", uri, shell), "Send", [command |-> <<>>],
             [stream |-> "stdin", data |-> data, end |-> FALSE])

SignalRequest(shell, command, code) ==
    Envelope(CmdHeader("Signal", shell), "Signal", [command |-> <<XmlEscape(command)>>],
             [code |-> code])

SignalTerminateRequest(shell, command) == SignalRequest(shell, command, Terminate)

SignalCtrlCRequest(shell, command) == SignalRequest(shell, command, CtrlC)

-----------------------------------------------------------------------------
(* Enumerations.                                                             *)

\* The resource is every class of the namespace, which goes into the document
\* as it is.
WmiUri(namespace) == IF namespace = None THEN WMI ELSE namespace

EnumerateWqlRequest(query, namespace) ==
    Envelope(Header("Enumerate", WmiUri(namespace), None), "Enumerate",
             [query |-> <<XmlEscape(query)>>],
             [dialect |-> "WQL", optimize |-> TRUE, maxElements |-> 32000])

\* Whatever the namespace of the enumeration is.
PullRequest(context) ==
    Envelope(Header("Pull", WMI, None), "Pull", [context |-> <<XmlEscape(context)>>],
             [maxElements |-> 32000])

-----------------------------------------------------------------------------
(* The reader of a request.                                                  *)

TextsOf(r) == {r.header.to} \cup {r.header.selector[i] : i \in DOMAIN r.header.selector}
              \cup UNION {{r.texts[f][i] : i \in DOMAIN r.texts[f]} : f \in DOMAIN r.texts}

Readable(r) == r.header.uri \notin Special /\ \A x \in TextsOf(r) : WellFormed(x)

Read(texts) == [i \in DOMAIN texts |-> XmlRead(texts[i])]

=============================================================================
