------------------------------ MODULE ShellHandle ------------------------------
(***************************************************************************)
(* Remote shells held by a caller (src/shell.rs, and the operations by shell  *)
(* id of src/client.rs): a handle that several futures of the caller use at   *)
(* once, or a shell id.  Each call builds its request with SoapEnvelope,      *)
(* sends it with the retries of send_soap_with_retry over one of the          *)
(* authentications of DirectAuth, and takes the answer with SoapParser.  The  *)
(* service, external, serves a request at once or, when the client has given  *)
(* it up, later.                                                             *)
(***************************************************************************)
EXTENDS DirectAuth, FiniteSets

LOCAL INSTANCE SequencesExt

CONSTANTS Workers,     \* futures of the caller that may be under way at a time
          Configs,     \* authentication, and the prefix the service writes its tags with
          MaxRetries,  \* WinrmConfig::max_retries
          StrictUri,   \* whether the service wants a shell's own resource URI
          ShellIds,    \* ids the service gives shells, and as many as it gives
          CommandIds,  \* ids the service gives commands, and as many as it gives
          ProposedIds, \* ids the caller proposes for its PowerShell shells
          Budgets      \* bounds: calls of each kind, lost exchanges and so on

BudgetKinds == {"opens", "starts", "receives", "sends", "signals", "ends", "reconnects",
                "losses", "refusals", "cancels"}

ASSUME ShellAssumption ==
    /\ MaxRetries \in Nat /\ StrictUri \in BOOLEAN
    /\ Configs \subseteq [method : {"basic", "certificate", "kerberos"}, prefix : {Bare, "rsp"}]
    /\ Budgets \subseteq [BudgetKinds -> Nat]

PipelineId   == Plain("pipeline")
Named(ids)   == {Plain(ids[i]) : i \in DOMAIN ids}
ShellNames   == Named(ShellIds) \cup Named(ProposedIds)
CommandNames == Named(CommandIds) \cup {PipelineId}

\* Ids are UUIDs: each is another, and no character of theirs is one that XML
\* reserves.
ASSUME IdsAssumption ==
    /\ \A ids \in {ShellIds, CommandIds, ProposedIds} :
          ids \in Seq(STRING) /\ \A i, j \in DOMAIN ids : ids[i] = ids[j] => i = j
    /\ Named(ShellIds) \cap Named(ProposedIds) = {} /\ PipelineId \notin Named(CommandIds)
    /\ \A id \in ShellNames \cup CommandNames : id.says \notin Special
    /\ \A b \in Budgets : b.opens <= Len(ProposedIds)

\* Nor is that of a command the id of a shell, or empty.
ASSUME CommandIdsAssumption == CommandNames \cap ShellNames = {} /\ Plain("") \notin CommandNames

\* None is no value that stands where it may.
ASSUME NoneAssumption ==
    /\ None \notin ShellNames \cup CommandNames \cup [id : ShellNames, uri : {CMD, PSRP}]
    /\ \A id \in ShellNames \cup CommandNames : None # <<Text("id", id)>>
    /\ None # TRUE /\ None # "bad"

\* What is configured is text that nobody has escaped yet.
ASSUME TextsAssumption ==
    /\ {CMD, PSRP} \cap Special = {}
    /\ \A x \in {Cfg.endpoint} \cup ({Cfg.workingDirectory} \ {None})
               \cup {Cfg.envNames[i] : i \in DOMAIN Cfg.envNames}
               \cup {Cfg.envValues[i] : i \in DOMAIN Cfg.envValues} : x = Plain(x.says)

VARIABLES handle,    \* the Shell: None or [id, uri]
          saved,     \* shells the caller knows by id: [id, uri]
          known,     \* commands the caller knows by id: [shell, id]
          call,      \* per worker: its call under way
          wire,      \* per worker: nothing, a request, a broken exchange or a response
          late,      \* calls given up whose request the service may still serve
          shells,    \* service: every shell created
          commands,  \* service: every command started
          budget,
          config,
          sent,      \* history: the calls of send_input
          shown,     \* history: per command, what its receivers were given
          lostIn,    \* history: commands a piece of whose output was lost
          excused    \* history: shells whose id the caller lost with a failed call

service == <<shells, commands>>
history == <<sent, shown, lostIn, excused>>
caller  == <<handle, saved, known>>
vars == <<caller, call, wire, late, service, budget, config, history>>

Idle == [op |-> "idle", api |-> "handle", shell |-> None, uri |-> CMD, command |-> None,
         data |-> 0, number |-> 0, end |-> FALSE, attempt |-> 0, lost |-> FALSE]

Phase(phase) == [phase |-> phase]

Init ==
    /\ handle = None /\ saved = {} /\ known = {} /\ late = {}
    /\ call = [w \in Workers |-> Idle] /\ wire = [w \in Workers |-> Phase("none")]
    /\ shells = <<>> /\ commands = <<>>
    /\ budget \in Budgets /\ config \in Configs
    /\ sent = <<>> /\ shown = [i \in DOMAIN CommandIds |-> <<>>] /\ lostIn = {} /\ excused = {}

-----------------------------------------------------------------------------
(* Requests.                                                                 *)

Line       == Plain("a & b")   \* a command line with reserved characters
Args       == <<Plain("<c>")>>
Everything == Plain("")        \* the command id that stands for no command

Streaming(c) == c.command \in {Everything, c.shell}

\* Shell::{start_command, start_command_with_id, send_input, receive_next,
\* signal_ctrl_c, close, disconnect} and the operations of WinrmClient.
RequestOf(c) ==
    CASE c.op \in {"open", "create"} -> CreateShellRequest
      [] c.op = "openPsrp"   -> CreatePsrpShellRequest("opening", c.uri, c.shell)
      [] c.op = "reconnect"  -> ReconnectShellRequestWithUri(c.shell, c.uri)
      [] c.op = "disconnect" -> DisconnectShellRequestWithUri(c.shell, c.uri)
      [] c.op \in {"close", "delete"} -> DeleteShellRequest(c.shell)
      [] c.op = "start" /\ c.api = "client" -> ExecuteCommandRequest(c.shell, Line, Args)
      [] c.op = "start" /\ c.api = "handle" /\ c.command = None ->
            ExecuteCommandRequestWithUri(c.shell, Line, Args, c.uri)
      [] c.op = "start" /\ c.api = "handle" /\ c.command # None ->
            ExecuteCommandWithIdRequest(c.shell, Line, Args, c.command, c.uri)
      [] c.op = "receive" /\ c.api = "client" -> ReceiveOutputRequest(c.shell, c.command)
      [] c.op = "receive" /\ c.api = "handle" /\ c.uri = PSRP ->
            ReceivePsrpRequest(c.shell, IF Streaming(c) THEN None ELSE c.command, c.uri)
      [] c.op = "receive" /\ c.api = "handle" /\ c.uri = CMD ->
            ReceiveOutputRequestWithUri(c.shell, c.command, c.uri)
      [] c.op = "send" /\ Streaming(c)  -> SendPsrpRequest(c.shell, c.data, c.uri)
      [] c.op = "send" /\ ~Streaming(c) ->
            SendInputRequestWithUri(c.shell, c.command, c.data, c.end, c.uri)
      [] c.op = "ctrlC"     -> SignalCtrlCRequest(c.shell, c.command)
      [] c.op = "terminate" -> SignalTerminateRequest(c.shell, c.command)

-----------------------------------------------------------------------------
(* The service.                                                              *)

Tagged(name, content) == Element(config.prefix, name, content)
Response(body) == <<Open("s", "Envelope"), Open("s", "Body")>> \o body
                  \o <<Close("s", "Body"), Close("s", "Envelope")>>
FaultDoc(code) ==
    Response(Element("s", "Fault", Element("s", "Code",
        Element("s", "Value", <<Text("word", "s:Receiver")>>)
        \o Element("s", "Subcode", Element("s", "Value", <<Text("word", code)>>)))))

\* What serving a request may come to: the service afterwards and its answer.
Outcome(ss, cs, doc) == [shells |-> ss, commands |-> cs, doc |-> doc]
Refusal(code)        == {Outcome(shells, commands, FaultDoc(code))}

Created(r, number) ==
    LET proposed == "shell" \in DOMAIN r.texts
        id == IF proposed THEN Read(r.texts.shell)[1] ELSE Plain(ShellIds[Len(shells) + 1])
    IN IF ~proposed /\ Len(shells) >= Len(ShellIds) THEN {}
       ELSE IF \E i \in DOMAIN shells : shells[i].id = id THEN Refusal("AlreadyExists")
       ELSE {Outcome(Append(shells, [id |-> id, uri |-> r.header.uri, life |-> "live", by |-> number]),
                     commands,
                     Response(Tagged("Shell", Tagged("ShellId", <<Text("id", XmlEscape(id))>>))))}

\* The shell a request is about, in one of these states.
Addressed(r, lives) ==
    {i \in DOMAIN shells : /\ <<shells[i].id>> = Read(r.header.selector)
                           /\ shells[i].life \in lives
                           /\ StrictUri => shells[i].uri = r.header.uri}

Moved(r, from, to) ==
    IF Addressed(r, from) = {} THEN Refusal("InvalidSelectors")
    ELSE LET i == CHOOSE i \in Addressed(r, from) : TRUE
         IN {Outcome([shells EXCEPT ![i].life = to], commands, Response(<<>>))}

\* The command shell cannot be disconnected.
Disconnected(r) ==
    IF r.header.uri = CMD THEN Refusal("Unsupported") ELSE Moved(r, {"live"}, "disconnected")

Started(r) ==
    LET proposed == r.texts.command # <<>>
        id == IF proposed THEN Read(r.texts.command)[1] ELSE Plain(CommandIds[Len(commands) + 1])
    IN IF Addressed(r, {"live"}) = {} THEN Refusal("InvalidSelectors")
       ELSE IF ~proposed /\ Len(commands) >= Len(CommandIds) THEN {}
       ELSE IF \E i \in DOMAIN commands : commands[i].id = id THEN Refusal("InvalidSelectors")
       ELSE {Outcome(shells, Append(commands,
                [id |-> id, shell |-> Read(r.header.selector)[1], cut |-> FALSE, line |-> Read(r.texts.line),
                 args |-> Read(r.texts.args), input |-> <<>>, eof |-> FALSE, given |-> 0,
                 signal |-> "none"]),
             Response(Tagged("CommandResponse",
                             Tagged("CommandId", <<Text("id", XmlEscape(id))>>))))}

\* The command a request is about, if its shell is there.
Running(r) ==
    {i \in DOMAIN commands : /\ Addressed(r, {"live"}) # {}
                             /\ <<commands[i].shell>> = Read(r.header.selector)
                             /\ <<commands[i].id>> = Read(r.texts.command)}

\* The command of the request becomes the one in changed.
OnCommand(r, changed) ==
    IF Running(r) = {} THEN Refusal("InvalidSelectors")
    ELSE LET i == CHOOSE i \in Running(r) : TRUE
         IN {Outcome(shells, [commands EXCEPT ![i] = changed[i]], Response(<<>>))}

Signalled(r) ==
    OnCommand(r, [i \in DOMAIN commands |-> [commands[i] EXCEPT !.signal = r.values.code]])

\* Input without a command is the shell's own.
Supplied(r) ==
    IF r.texts.command # <<>>
    THEN OnCommand(r, [i \in DOMAIN commands |->
             [commands[i] EXCEPT !.input = Append(@, r.values.data), !.eof = @ \/ r.values.end]])
    ELSE IF Addressed(r, {"live"}) = {} THEN Refusal("InvalidSelectors")
    ELSE {Outcome(shells, commands, Response(<<>>))}

\* A command writes "1" to stdout, then its errors to stderr in two halves.
Halves == <<<<Marker, ErrorTag, "e1">>, <<ErrorClose, ErrorTag, "e2", ErrorClose>>>>
Total  == 3

Stream(name, data) ==
    <<OpenWith(config.prefix, "Stream", <<<<"Name", name>>>>), Text("base64", data),
      Close(config.prefix, "Stream")>>

\* What the pieces after the first n, up to k, make of an answer.
OutputDoc(n, k) ==
    LET errors == (IF n < 2 /\ k >= 2 THEN Halves[1] ELSE <<>>)
                  \o (IF n < 3 /\ k >= 3 THEN Halves[2] ELSE <<>>)
    IN Response(Tagged("ReceiveResponse",
          (IF n = 0 THEN Stream("stdout", <<"1">>) ELSE <<>>)
          \o (IF errors = <<>> THEN <<>> ELSE Stream("stderr", errors))
          \o (IF k < Total THEN <<>>
              ELSE <<OpenWith(config.prefix, "CommandState", <<<<"State", Done>>>>)>>
                   \o Tagged("ExitCode", <<Text("number", 7)>>)
                   \o <<Close(config.prefix, "CommandState")>>)))

\* Any number of pieces that are left; nothing to say is a fault.
Output(r) ==
    IF r.texts.command = <<>> THEN Refusal("TimedOut")
    ELSE IF Running(r) = {} THEN Refusal("InvalidSelectors")
    ELSE LET i == CHOOSE i \in Running(r) : TRUE
             n == commands[i].given
         IN IF n = Total THEN Refusal("InvalidSelectors")
            ELSE Refusal("TimedOut")
                 \cup {Outcome(shells, [commands EXCEPT ![i].given = k, ![i].cut = @ \/ n = 2 \/ k = 2],
                                 OutputDoc(n, k)) :
                         k \in n + 1 .. Total}

Served(r, number) ==
    IF ~Readable(r) THEN Refusal("SchemaValidationError")
    ELSE CASE r.header.action = "Create"     -> Created(r, number)
           [] r.header.action = "Delete"     -> Moved(r, {"live", "disconnected"}, "deleted")
           [] r.header.action = "Disconnect" -> Disconnected(r)
           [] r.header.action = "Reconnect"  -> Moved(r, {"disconnected"}, "live")
           [] r.header.action = "Command"    -> Started(r)
           [] r.header.action = "Receive"    -> Output(r)
           [] r.header.action = "Send"       -> Supplied(r)
           [] r.header.action = "Signal"     -> Signalled(r)

-----------------------------------------------------------------------------
(* Calls begin.                                                              *)

Busy(w)   == call[w].op # "idle"
Under(ops) == \E w \in Workers : call[w].op \in ops
Creating  == {"open", "openPsrp", "create"}
Opening   == {"open", "openPsrp", "reconnect"}
Consuming == {"close", "disconnect"}
Borrowing == {"start", "send", "receive", "ctrlC"}

\* The handle is moved into close and disconnect: nobody may be using it.
Unborrowed == ~ \E w \in Workers : call[w].op \in Borrowing /\ call[w].api = "handle"

Begin(w, kind, c) ==
    /\ ~Busy(w) /\ budget[kind] > 0
    /\ budget' = [budget EXCEPT ![kind] = @ - 1]
    /\ call' = [call EXCEPT ![w] = c]
    /\ wire' = [wire EXCEPT ![w] = Phase("asked")]
    /\ UNCHANGED <<late, service, config, known, shown, lostIn, excused>>

Create(w, op) ==
    /\ op # "create" => handle = None /\ ~Under(Opening)
    /\ Begin(w, "opens",
             [Idle EXCEPT !.op = op, !.number = budget.opens,
                          !.shell = IF op = "openPsrp" THEN Plain(ProposedIds[budget.opens]) ELSE None,
                          !.uri   = IF op = "openPsrp" THEN PSRP ELSE CMD])
    /\ UNCHANGED <<handle, saved, sent>>

Reconnect(w, s) ==
    /\ s \in saved /\ handle = None /\ ~Under(Opening)
    /\ Begin(w, "reconnects", [Idle EXCEPT !.op = "reconnect", !.shell = s.id, !.uri = s.uri])
    /\ saved' = saved \ {s}
    /\ UNCHANGED <<handle, sent>>

\* What an operation may be applied to: the handle, or a shell by its id.
Targets ==
    {[Idle EXCEPT !.shell = s.id, !.uri = s.uri] : s \in {handle} \ {None}}
    \cup {[Idle EXCEPT !.api = "client", !.shell = s.id] : s \in saved}

Start(w, t, id) ==
    /\ t \in Targets /\ (t.api = "client" => id = None)
    /\ Begin(w, "starts", [t EXCEPT !.op = "start", !.command = id])
    /\ UNCHANGED <<handle, saved, sent>>

CommandsOf(t) == {k.id : k \in {k \in known : k.shell = t.shell}}

Receive(w, t, id) ==
    /\ t \in Targets /\ id \in CommandsOf(t)
    /\ Begin(w, "receives", [t EXCEPT !.op = "receive", !.command = id])
    /\ UNCHANGED <<handle, saved, sent>>

Send(w, t, id, end) ==
    /\ t \in Targets /\ t.api = "handle" /\ id \in CommandsOf(t) \cup {Everything}
    /\ Begin(w, "sends", [t EXCEPT !.op = "send", !.command = id, !.end = end,
                                   !.data = Len(sent) + 1])
    /\ sent' = Append(sent, [shell |-> t.shell, command |-> id, end |-> end, result |-> "none",
                             lost |-> FALSE, alone |-> ~Under({"send"})])
    /\ UNCHANGED <<handle, saved>>

Signal(w, t, id) ==
    /\ t \in Targets /\ id \in CommandsOf(t)
    /\ Begin(w, "signals", [t EXCEPT !.op = IF t.api = "handle" THEN "ctrlC" ELSE "terminate",
                                     !.command = id])
    /\ UNCHANGED <<handle, saved, sent>>

\* close and disconnect take the handle, whatever becomes of the request.
End(w, op) ==
    /\ handle # None /\ Unborrowed
    /\ Begin(w, "ends", [Idle EXCEPT !.op = op, !.shell = handle.id, !.uri = handle.uri])
    /\ handle' = None
    /\ UNCHANGED <<saved, sent>>

Delete(w, t) ==
    /\ t \in Targets /\ t.api = "client"
    /\ Begin(w, "ends", [t EXCEPT !.op = "delete"])
    /\ UNCHANGED <<handle, saved, sent>>

\* impl Drop for Shell: a warning, and nothing is sent.
Drop ==
    /\ handle # None /\ Unborrowed
    /\ excused' = excused \cup {handle.id} /\ handle' = None
    /\ UNCHANGED <<saved, known, call, wire, late, service, budget, config, sent, shown, lostIn>>

-----------------------------------------------------------------------------
(* Exchanges.                                                                *)

Asked(w)    == Busy(w) /\ wire[w].phase = "asked"
Broken(w)   == Busy(w) /\ wire[w].phase = "broken"
Answered(w) == Busy(w) /\ wire[w].phase = "answered"

Spend(kind) == budget[kind] > 0 /\ budget' = [budget EXCEPT ![kind] = @ - 1]

Proof == IF config.method = "kerberos" THEN "good" ELSE None

ShellsOf(c, lives) == {i \in DOMAIN shells : shells[i].id = c.shell /\ shells[i].life \in lives}

\* The lives of the shell in which the operation makes sense.
Fitting(op) == IF op \in {"close", "delete"} THEN {"live", "disconnected"}
               ELSE IF op = "reconnect" THEN {"disconnected"} ELSE {"live"}

\* Operations whose requests say cmd, whatever the shell is.
SaysCmd(c) == c.api = "client" \/ c.op \in {"close", "ctrlC"}

\* What there is to complain of in the operation itself.
Reason(c) ==
    IF c.op \in Creating THEN \E i \in DOMAIN shells : shells[i].id = c.shell
    ELSE \/ ShellsOf(c, Fitting(c.op)) = {}
         \/ StrictUri /\ SaysCmd(c) /\ \E i \in ShellsOf(c, Fitting(c.op)) : shells[i].uri = PSRP
         \/ c.op = "disconnect" /\ c.uri = CMD
         \/ c.op = "start" /\ \E i \in DOMAIN commands : commands[i].id = c.command
         \/ c.op = "receive"

\* A fault usually comes with status 500.  Whether there was a reason for one
\* is history.
Serve(w) ==
    /\ Asked(w)
    /\ \E o \in Served(RequestOf(call[w]), call[w].number) :
          /\ shells' = o.shells /\ commands' = o.commands
          /\ \E status \in IF HasFault(o.doc) THEN {200, 500} ELSE {200} :
                wire' = [wire EXCEPT ![w] = [phase |-> "answered", status |-> status, token |-> Proof,
                                             doc |-> o.doc, reason |-> Reason(call[w])]]
    /\ UNCHANGED <<caller, call, late, budget, config, history>>

\* A server that refuses the login, fails, or cannot prove to be the right one.
Refuse(w) ==
    /\ Asked(w) /\ Spend("refusals")
    /\ \E r \in [phase : {"answered"}, status : {401, 403, 503}, token : {None}, doc : {<<>>}]
                \cup (IF config.method = "kerberos"
                      THEN {[phase |-> "answered", status |-> 200, token |-> "bad", doc |-> Response(<<>>)]} ELSE {}) :
          wire' = [wire EXCEPT ![w] = r]
    /\ UNCHANGED <<caller, call, late, service, config, history>>

\* The body of an error response breaks off.  What it said is gone, its status is
\* not: it is still that error, and no request is repeated for it.
BreakOff(w) ==
    /\ Answered(w) /\ ~Successful(wire[w].status) /\ HasFault(wire[w].doc)
    /\ Spend("losses")
    /\ wire' = [wire EXCEPT ![w] = [phase |-> "answered", status |-> wire[w].status,
                                     token |-> wire[w].token, doc |-> <<>>]]
    /\ UNCHANGED <<caller, call, late, service, config, history>>

\* Pieces of output in an answer nobody will read.
Wasted(c) == IF c.op # "receive" THEN {} ELSE {[shell |-> c.shell, id |-> c.command]}

\* The exchange breaks: the request was not served, may still be, or was.
Lose(w) ==
    /\ Asked(w) \/ Answered(w)
    /\ Spend("losses")
    /\ wire' = [wire EXCEPT ![w] = Phase("broken")]
    /\ call' = [call EXCEPT ![w].lost = TRUE]
    /\ late' \in IF Asked(w) THEN {late, late \cup {call[w]}} ELSE {late}
    /\ lostIn' = IF Answered(w) THEN lostIn \cup Wasted(call[w]) ELSE lostIn
    /\ UNCHANGED <<caller, service, config, sent, shown, excused>>

ServeLate ==
    \E c \in late, created \in BOOLEAN :
        /\ \E o \in Served(RequestOf(c), c.number) :
              /\ shells' = o.shells /\ commands' = o.commands
              /\ created = (Len(o.shells) > Len(shells))
        /\ late' = late \ {c}
        /\ lostIn' = lostIn \cup Wasted(c)
        /\ excused' = excused \cup (IF created THEN {shells'[Len(shells')].id} ELSE {})
        /\ UNCHANGED <<caller, call, wire, budget, config, sent, shown>>

\* A disconnected shell is kept for its idle timeout.
Reap ==
    \E i \in DOMAIN shells :
        /\ shells[i].life = "disconnected"
        /\ shells' = [shells EXCEPT ![i].life = "deleted"]
        /\ UNCHANGED <<caller, call, wire, late, commands, budget, config, history>>

\* send_soap_with_retry
Retry(w) ==
    /\ Broken(w) /\ call[w].attempt < MaxRetries
    /\ call' = [call EXCEPT ![w].attempt = @ + 1]
    /\ wire' = [wire EXCEPT ![w] = Phase("asked")]
    /\ UNCHANGED <<caller, late, service, budget, config, history>>

-----------------------------------------------------------------------------
(* Calls end.                                                                *)

Over(w) == Answered(w) \/ (Broken(w) /\ call[w].attempt = MaxRetries)

\* What the operation takes from an answer.
Parsed(w) ==
    LET op == call[w].op
    IN IF op \in Creating THEN ParseShellId(wire[w].doc)
       ELSE IF op = "start" THEN ParseCommandId(wire[w].doc)
       ELSE IF op = "receive" THEN ParseReceiveOutput(wire[w].doc)
       ELSE TRUE

Result(w) ==
    IF Broken(w) THEN "http"
    ELSE LET r == SendSoap(config.method, wire[w])
         IN IF r = "ok" /\ Parsed(w) = None THEN "soap" ELSE r

Ended(w) == call' = [call EXCEPT ![w] = Idle] /\ wire' = [wire EXCEPT ![w] = Phase("none")]

\* Shells whose id goes with a failed or repeated call.
Unclaimed(c, result, id) ==
    IF c.op \in Creating /\ (result # "ok" \/ c.lost)
    THEN {shells[i].id : i \in {i \in DOMAIN shells : shells[i].by = c.number}} \ {id}
    ELSE IF c.op \in Consuming /\ result # "ok" THEN {c.shell} ELSE {}

Sent(c, result) ==
    IF c.op = "send" THEN [sent EXCEPT ![c.data].result = result, ![c.data].lost = c.lost] ELSE sent

\* Mutant of Kept: disconnect does not give the id back.
KeptUnlessDisconnected(c, result, id) ==
    IF result = "ok"
    THEN IF c.op = "create" THEN saved \cup {[id |-> id, uri |-> CMD]}
         ELSE IF c.op = "delete" THEN {s \in saved : s.id # c.shell} ELSE saved
    ELSE IF c.op = "reconnect" THEN saved \cup {[id |-> c.shell, uri |-> c.uri]} ELSE saved

\* The shells known by id: create_shell and disconnect return one; that given to
\* reconnect_shell is still there when the call fails.
Kept(c, result, id) ==
    IF result = "ok"
    THEN IF c.op = "create" THEN saved \cup {[id |-> id, uri |-> CMD]}
         ELSE IF c.op = "disconnect" THEN saved \cup {[id |-> c.shell, uri |-> c.uri]}
         ELSE IF c.op = "delete" THEN {s \in saved : s.id # c.shell} ELSE saved
    ELSE IF c.op = "reconnect" THEN saved \cup {[id |-> c.shell, uri |-> c.uri]} ELSE saved

Opened(c, result, id) ==
    IF result = "ok" /\ c.op \in Opening
    THEN [id |-> IF c.op = "reconnect" THEN c.shell ELSE id, uri |-> c.uri] ELSE handle

Return(w) ==
    /\ Over(w)
    /\ LET c      == call[w]
           result == Result(w)
           p      == IF result = "ok" THEN Parsed(w) ELSE None
       IN /\ handle' = Opened(c, result, p)
          /\ saved' = Kept(c, result, p)
          /\ known' = IF result = "ok" /\ c.op = "start"
                      THEN known \cup {[shell |-> c.shell, id |-> p]} ELSE known
          /\ excused' = excused \cup Unclaimed(c, result, p)
          /\ sent' = Sent(c, result)
          /\ shown' = IF result = "ok" /\ c.op = "receive"
                      THEN [i \in DOMAIN shown |->
                              IF i \in DOMAIN commands /\ commands[i].id = c.command
                                 /\ commands[i].shell = c.shell
                              THEN Append(shown[i], p) ELSE shown[i]]
                      ELSE shown
    /\ Ended(w)
    /\ UNCHANGED <<late, service, budget, config, lostIn>>

\* The caller drops the future.
Cancel(w) ==
    /\ Busy(w) /\ Spend("cancels")
    /\ late' \in IF Asked(w) THEN {late, late \cup {call[w]}} ELSE {late}
    /\ lostIn' = IF Answered(w) THEN lostIn \cup Wasted(call[w]) ELSE lostIn
    /\ saved' = Kept(call[w], "cancelled", None)
    /\ excused' = excused \cup Unclaimed(call[w], "cancelled", None)
    /\ sent' = Sent(call[w], "cancelled")
    /\ Ended(w)
    /\ UNCHANGED <<handle, known, service, config, shown>>

CallStep(w) ==
    \/ \E op \in Creating : Create(w, op)
    \/ \E s \in saved : Reconnect(w, s)
    \/ \E op \in Consuming : End(w, op)
    \/ \E t \in Targets :
          \/ \E id \in {None, PipelineId} : Start(w, t, id)
          \/ \E id \in CommandsOf(t) : Receive(w, t, id) \/ Signal(w, t, id)
          \/ \E id \in CommandsOf(t) \cup {Everything}, end \in BOOLEAN : Send(w, t, id, end)
          \/ Delete(w, t)
    \/ Retry(w) \/ Return(w) \/ Cancel(w)

Next ==
    \/ \E w \in Workers : CallStep(w) \/ Serve(w) \/ Refuse(w) \/ BreakOff(w) \/ Lose(w)
    \/ Drop \/ ServeLate \/ Reap

Spec == Init /\ [][Next]_vars

-----------------------------------------------------------------------------
(* Properties.                                                               *)

Ids(S) == {s.id : s \in S}

\* A call under way whose end will say what became of the shell.
InHand(w, shell) ==
    \/ call[w].op \in Creating /\ shell.by = call[w].number
    \/ call[w].op \in Consuming \cup {"reconnect"} /\ shell.id = call[w].shell

\* Every shell that takes room on the service is one the caller can still close:
\* its handle's, one it knows by id, or one of a call under way; otherwise its
\* id went with a dropped handle, a failed close or disconnect, or a creation
\* that failed or was repeated (Shell::{close, disconnect, drop},
\* WinrmClient::{create_shell, open_psrp_shell, reconnect_shell}).
ShellsAreHeld ==
    \A i \in DOMAIN shells :
        \/ shells[i].life = "deleted"
        \/ \E w \in Workers : InHand(w, shells[i])
        \/ shells[i].id \in Ids({handle} \ {None}) \cup Ids(saved) \cup excused

\* What the caller takes the success of a call for.
Accomplished(c) ==
    CASE c.op \in {"close", "delete"} -> ShellsOf(c, {"live", "disconnected"}) = {}
      [] c.op = "start" ->
            \E i \in DOMAIN commands : /\ commands[i].shell = c.shell
                                       /\ commands[i].line = <<Line>> /\ commands[i].args = Args
                                       /\ c.command # None => commands[i].id = c.command
      [] c.op \in {"ctrlC", "terminate"} ->
            \E i \in DOMAIN commands : /\ commands[i].shell = c.shell /\ commands[i].id = c.command
                                       /\ commands[i].signal # "none"
      [] c.op \in Creating -> \E i \in DOMAIN shells : shells[i].by = c.number
      [] OTHER -> TRUE

\* A call returns Ok only when what was asked for is so: the shell deleted, the
\* command running with the line and the arguments of the caller, the signal
\* delivered.  And the service has a fault for an operation only for a reason,
\* never because of how the request is written (Shell::*, send_soap,
\* check_soap_fault, xml_escape and the builders of envelope.rs).
ResultsAreTrue ==
    \A w \in Workers :
        Answered(w) => /\ Result(w) = "ok" => Accomplished(call[w])
                       /\ Result(w) = "soap" => wire[w].reason

Places(x, i) == {k \in DOMAIN commands[i].input : commands[i].input[k] = x}
SentTo(i) == {x \in DOMAIN sent : sent[x].shell = commands[i].shell /\ sent[x].command = commands[i].id}

\* What the input of a command is: at least one copy of every piece that was
\* sent with success, exactly one unless its exchange was lost and repeated,
\* in the order of the calls when they do not overlap, and ended if and only
\* if a call ended it (Shell::send_input, send_soap_with_retry).
InputArrives ==
    \A i \in DOMAIN commands :
        /\ \A x \in SentTo(i) : LET copies == Cardinality(Places(x, i)) IN
              /\ copies <= MaxRetries + 1
              /\ sent[x].result = "ok" => copies >= 1 /\ (sent[x].end => commands[i].eof)
              /\ sent[x].result = "ok" /\ ~sent[x].lost => copies = 1
        /\ \A x, y \in SentTo(i) : x < y /\ sent[y].alone /\ ~sent[x].lost /\ sent[x].result = "ok" =>
              \A j \in Places(x, i), k \in Places(y, i) : j < k
        /\ commands[i].eof => \E x \in SentTo(i) : sent[x].end

Flat(i, field) == FoldSeq(LAMBDA o, text : text \o o[field], <<>>, shown[i])

\* The receivers of a command are given, between them, all that it wrote, once,
\* its end and its exit code, unless an answer was lost; but its errors only
\* when the service did not cut them in two (Shell::receive_next,
\* parse_receive_output, parse_clixml).
OutputIsComplete ==
    \A i \in DOMAIN commands :
        LET c == commands[i]
            received(w) == call[w].op = "receive" /\ call[w].shell = c.shell /\ call[w].command = c.id
            ends == {k \in DOMAIN shown[i] : shown[i][k].done}
        IN [shell |-> c.shell, id |-> c.id] \notin lostIn /\ ~(\E w \in Workers : received(w)) =>
              /\ Flat(i, "stdout") = IF c.given >= 1 THEN <<"1">> ELSE <<>>
              /\ c.given = Total /\ ~c.cut => Flat(i, "stderr") = <<"e1", "e2">>
              /\ Cardinality(ends) = IF c.given = Total THEN 1 ELSE 0
              /\ \A k \in ends : shown[i][k].exitCode = 7

=============================================================================
