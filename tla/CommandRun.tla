------------------------------ MODULE CommandRun ------------------------------
(***************************************************************************)
(* One command from creation of its shell to the result handed to the       *)
(* caller: WinrmClient::run_command (api "client", src/client.rs) and        *)
(* Shell::run_command in a shell opened before (api "shell", src/shell.rs),  *)
(* with cancellation, over send_soap_with_retry, which sends a request again *)
(* when its answer is lost.  The WinRM service is external: a shell holds    *)
(* commands, a command produces output chunks, and a Receive takes the       *)
(* chunks produced so far, once.                                             *)
(***************************************************************************)
EXTENDS Naturals, Sequences, FiniteSets

CONSTANTS Apis,         \* the entry points to explore: "client", "shell"
          MaxChunks,    \* bound: output chunks a command produces
          Cap,          \* max_output_bytes, in chunks
          MaxRetries,   \* WinrmConfig::max_retries
          MaxLosses,    \* bound: exchanges that end in an Http error
          MaxFaults,    \* bound: requests the server refuses with a fault
          MayStayQuiet, \* a command may produce nothing for an operation timeout
          MayCancel     \* the caller may cancel

ASSUME CommandAssumption ==
    /\ Apis \subseteq {"client", "shell"}
    /\ MaxChunks \in Nat /\ Cap \in Nat
    /\ MaxRetries \in Nat /\ MaxLosses \in Nat /\ MaxFaults \in Nat
    /\ MayStayQuiet \in BOOLEAN /\ MayCancel \in BOOLEAN

NoExit == 256           \* no exit code seen yet
Unparseable == 257      \* an ExitCode element that is no i32
MinusOne == 258         \* exit_code.unwrap_or(-1)

VARIABLES api, pc, attempt,
          cmd,          \* the command_id the client polls, 0 before it has one
          out, exit,    \* stdout+stderr collected, last exit code seen
          result,       \* what the call returned
          shells,       \* server: per shell created by the call, "live" or "gone"
          cmds,         \* server: per command started, what it did so far
          lossBudget, faultBudget,
          unclean,      \* history: a Create or a Delete exchange failed
          holes         \* history: a Receive was executed and its answer lost

vars == <<api, pc, attempt, cmd, out, exit, result, shells, cmds,
          lossBudget, faultBudget, unclean, holes>>

client == <<api, cmd, out, exit, result>>

Init ==
    /\ api \in Apis
    /\ pc = "create" /\ attempt = 0
    /\ cmd = 0 /\ out = <<>> /\ exit = NoExit /\ result = "none"
    /\ shells = <<>> /\ cmds = <<>>
    /\ lossBudget = MaxLosses /\ faultBudget = MaxFaults
    /\ unclean = FALSE /\ holes = FALSE

-----------------------------------------------------------------------------
(* The service.  It keeps what it did even when its answer is lost.          *)

Started == [life |-> "live", produced |-> 0, taken |-> 0, exit |-> NoExit]

CreateShell == shells' = Append(shells, "live") /\ UNCHANGED cmds

StartCommand == cmds' = Append(cmds, Started) /\ UNCHANGED shells

TakeOutput == cmds' = [cmds EXCEPT ![cmd].taken = cmds[cmd].produced] /\ UNCHANGED shells

Terminate == cmds' = [cmds EXCEPT ![cmd].life = "gone"] /\ UNCHANGED shells

\* Deleting a shell ends what runs in it.  The call deletes the shell whose id
\* it got: the last one created.
DeleteShell ==
    /\ shells' = [shells EXCEPT ![Len(shells)] = "gone"]
    /\ cmds' = [i \in DOMAIN cmds |-> [cmds[i] EXCEPT !.life = "gone"]]

\* The program writes a chunk, or ends with an exit code.
Produce(i) ==
    /\ cmds[i].life = "live" /\ cmds[i].exit = NoExit /\ cmds[i].produced < MaxChunks
    /\ cmds' = [cmds EXCEPT ![i].produced = @ + 1]
    /\ UNCHANGED <<client, pc, attempt, shells, lossBudget, faultBudget, unclean, holes>>

Exit(i) ==
    /\ cmds[i].life = "live" /\ cmds[i].exit = NoExit
    /\ \E code \in {0, 1, Unparseable} : cmds' = [cmds EXCEPT ![i].exit = code]
    /\ UNCHANGED <<client, pc, attempt, shells, lossBudget, faultBudget, unclean, holes>>

-----------------------------------------------------------------------------
(* send_soap_with_retry around one request of the call.                      *)

ServerUnchanged == UNCHANGED <<shells, cmds>>

\* The answer arrives.
Answered(at, effect) ==
    /\ pc = at /\ effect /\ attempt' = 0
    /\ UNCHANGED <<lossBudget, faultBudget, unclean, holes>>

\* An Http error, before or after the server executed the request, and another
\* attempt is left.
Again(at, effect) ==
    /\ pc = at /\ lossBudget > 0 /\ attempt < MaxRetries
    /\ lossBudget' = lossBudget - 1 /\ attempt' = attempt + 1
    /\ \/ /\ effect
          /\ (IF at = "receive" THEN holes' = TRUE ELSE UNCHANGED holes)
          /\ IF at = "create" THEN unclean' = TRUE ELSE UNCHANGED unclean
       \/ ServerUnchanged /\ UNCHANGED <<holes, unclean>>
    /\ UNCHANGED <<client, pc, faultBudget>>

\* The last attempt fails, the server refuses the request, or its answer lacks
\* what the client looks for in it: an error.
Failed(at, effect) ==
    /\ pc = at /\ attempt' = 0
    /\ \/ /\ lossBudget > 0 /\ attempt = MaxRetries
          /\ lossBudget' = lossBudget - 1 /\ UNCHANGED faultBudget
       \/ /\ faultBudget > 0
          /\ faultBudget' = faultBudget - 1 /\ UNCHANGED lossBudget
    /\ \/ effect /\ (IF at = "receive" THEN holes' = TRUE ELSE UNCHANGED holes)
       \/ ServerUnchanged /\ UNCHANGED holes
    /\ IF at \in {"create", "delete"} THEN unclean' = TRUE ELSE UNCHANGED unclean

-----------------------------------------------------------------------------
(* The call.                                                                 *)

Return(r) == pc' = "returned" /\ result' = r

\* Mutant of Conclude: `?` between the command and the Delete.
ConcludeEarly(r) ==
    IF api = "client" /\ r = "ok" THEN pc' = "delete" /\ result' = r ELSE Return(r)

\* Where the end of the command leads: run_command deletes its shell whatever
\* run_in_shell returned; in an open shell the result is returned at once.
Conclude(r) ==
    IF api = "client" THEN pc' = "delete" /\ result' = r ELSE Return(r)

Create ==
    \/ Answered("create", CreateShell) /\ pc' = "execute" /\ UNCHANGED client
    \/ Again("create", CreateShell)
    \/ Failed("create", CreateShell) /\ Return("error") /\ UNCHANGED <<api, cmd, out, exit>>

Execute ==
    \/ /\ Answered("execute", StartCommand)
       /\ pc' = "receive" /\ cmd' = Len(cmds') /\ UNCHANGED <<api, out, exit, result>>
    \/ Again("execute", StartCommand)
    \/ Failed("execute", StartCommand) /\ Conclude("error") /\ UNCHANGED <<api, cmd, out, exit>>

\* exit_code after a response: the last readable one.
Seen(code) == IF code \in {NoExit, Unparseable} THEN exit ELSE code

\* Mutant of NewChunks: the streams of the response that says Done are skipped.
NewUnlessDone(c) == IF c.exit # NoExit THEN <<>> ELSE [i \in 1..(c.produced - c.taken) |-> c.taken + i]

\* parse_receive_output: the chunks produced since the last Receive.
NewChunks(c) == [i \in 1..(c.produced - c.taken) |-> c.taken + i]

\* Mutant of TooMuch: the cap itself is too much.
ReachesCap(o) == Len(o) >= Cap

TooMuch(o) == Len(o) > Cap

\* A Receive that is answered: the new chunks, then the cap, then the exit
\* code, then whether the command is done.
Receive ==
    LET c    == cmds[cmd]
        new  == NewChunks(c)
        done == c.exit # NoExit
    IN /\ Answered("receive", TakeOutput)
       /\ new # <<>> \/ done
       /\ out' = out \o new
       /\ IF TooMuch(out')
          THEN /\ UNCHANGED <<exit, cmd, api>>
               /\ IF api = "client" THEN pc' = "signalCap" /\ UNCHANGED result
                                    ELSE Return("transfer")
          ELSE /\ exit' = Seen(c.exit) /\ pc' = IF done THEN "signal" ELSE "receive"
               /\ UNCHANGED <<cmd, api, result>>

\* Nothing to report within OperationTimeout: the service answers with the
\* w:TimedOut fault, which is an error like any other here.
ReceiveTimedOut ==
    /\ MayStayQuiet
    /\ pc = "receive" /\ cmds[cmd].exit = NoExit /\ cmds[cmd].produced = cmds[cmd].taken
    /\ attempt' = 0
    /\ Conclude("timed_out_fault")
    /\ UNCHANGED <<api, cmd, out, exit, shells, cmds, lossBudget, faultBudget, unclean, holes>>

\* Mutant of ReceiveFailed: a command whose output cannot be read is run again.
RunAgain ==
    \/ Again("receive", TakeOutput)
    \/ /\ Failed("receive", TakeOutput)
       /\ pc' = "execute" /\ UNCHANGED client

ReceiveFailed ==
    \/ Again("receive", TakeOutput)
    \/ Failed("receive", TakeOutput) /\ Conclude("error")
           /\ UNCHANGED <<api, cmd, out, exit>>

\* signal_terminate(..).await.ok(): its outcome is ignored.
Signal(at, next) ==
    \/ (Answered(at, Terminate) \/ Failed(at, Terminate)) /\ next
    \/ Again(at, Terminate)

SignalDone ==
    /\ pc = "signal"
    /\ Signal("signal",
              /\ Conclude("ok") /\ exit' = IF exit = NoExit THEN MinusOne ELSE exit
              /\ UNCHANGED <<api, cmd, out>>)

SignalCap ==
    /\ pc = "signalCap"
    /\ Signal("signalCap", Conclude("transfer") /\ UNCHANGED <<api, cmd, out, exit>>)

\* delete_shell(..).await.ok(): the result of the command stands.
Delete ==
    \/ (Answered("delete", DeleteShell) \/ Failed("delete", DeleteShell))
           /\ Return(result) /\ UNCHANGED <<api, cmd, out, exit>>
    \/ Again("delete", DeleteShell)

\* Mutant of Timeout: it guards the final signal only.
TimeoutOfSignal ==
    /\ api = "shell" /\ pc = "signal"
    /\ Return("timeout") /\ attempt' = 0
    /\ UNCHANGED <<api, cmd, out, exit, shells, cmds, lossBudget, faultBudget, unclean, holes>>

\* tokio::time::timeout(2 * operation_timeout) around the polling loop and the
\* final signal of Shell::run_command.
Timeout ==
    /\ api = "shell" /\ pc \in {"receive", "signal"}
    /\ Return("timeout") /\ attempt' = 0
    /\ UNCHANGED <<api, cmd, out, exit, shells, cmds, lossBudget, faultBudget, unclean, holes>>

\* run_command_with_cancel: select! drops the call at its await; nothing is
\* sent.  An open shell's creation is not part of the cancelled call.
Cancel ==
    /\ MayCancel
    /\ pc # "returned" /\ (api = "shell" => pc # "create")
    /\ Return("cancelled") /\ attempt' = 0
    /\ UNCHANGED <<api, cmd, out, exit, shells, cmds, lossBudget, faultBudget, unclean, holes>>

CallStep == Create \/ Execute \/ Receive \/ ReceiveFailed \/ SignalDone \/ SignalCap \/ Delete

Next == CallStep \/ ReceiveTimedOut \/ Timeout \/ Cancel \/ \E i \in DOMAIN cmds : Produce(i) \/ Exit(i)

Spec == Init /\ [][Next]_vars

\* The call is polled, a request is answered when there is something to answer
\* (a Receive waits for it), and the timer of tokio::time::timeout fires.  The
\* program may run for ever, and nothing says that the service breaks a silence,
\* with TimedOut or with another error.
Progress == CallStep /\ UNCHANGED <<lossBudget, faultBudget>>

FairSpec == Spec /\ WF_vars(Progress) /\ WF_vars(Timeout)

-----------------------------------------------------------------------------
\* With retries the only output an Ok can lack is what a Receive took and whose
\* answer was lost: nothing else on the way from the service drops a chunk.
GapsOnlyFromLostAnswers ==
    result = "ok" /\ ~holes => out = [i \in 1..cmds[cmd].produced |-> i]

\* Ok carries the exit code of the command, -1 when the server's is unreadable,
\* and no more output than the cap; Transfer is only for more than that
\* (run_in_shell, Shell::run_command).
ResultIsTheCommands ==
    /\ result = "ok" /\ pc = "returned" =>
           exit = IF cmds[cmd].exit = Unparseable THEN MinusOne ELSE cmds[cmd].exit
    /\ result = "ok" => Len(out) <= Cap
    /\ result = "transfer" => Len(out) > Cap

\* Whatever happened to the command (fault, lost answer, too much output), once
\* run_command returned nothing of it is left on the server: no shell and no
\* running program.  Exceptions: the caller dropped the call, or the exchange
\* that creates or that deletes the shell failed.
NothingLeftOnServer ==
    api = "client" /\ pc = "returned" /\ result # "cancelled" /\ ~unclean =>
        /\ \A i \in DOMAIN shells : shells[i] = "gone"
        /\ \A i \in DOMAIN cmds : cmds[i].life = "gone"

\* A command is started once, and once more for each Http error at most: a
\* retry of the Command request is the only way to run it twice.
OneRunPerLoss == Len(cmds) <= 1 + (MaxLosses - lossBudget)

\* The call returns, unless it is run_command (which has no timeout) waiting for
\* a program that never ends.
RunReturns ==
    \/ <>(pc = "returned")
    \/ <>[](api = "client" /\ cmd # 0 /\ cmds[cmd].life = "live" /\ cmds[cmd].exit = NoExit)

=============================================================================
