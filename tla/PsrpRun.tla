-------------------------------- MODULE PsrpRun --------------------------------
(***************************************************************************)
(* run_powershell over PSRP (src/psrp/mod.rs): open a shell on the           *)
(* PowerShell resource, drain it until the runspace pool is Opened, create a *)
(* pipeline, collect its messages until a terminal state, close the shell.   *)
(* Every exchange goes through send_soap_with_retry, which sends a request    *)
(* again when its answer is lost.  The service is external: it queues         *)
(* messages and each Receive takes some, whether its answer arrives or not.   *)
(* What the messages say, and how it is found, is PsrpText's; reassembly of  *)
(* the messages is PsrpReassembler's.                                        *)
(***************************************************************************)
EXTENDS Naturals, Sequences, PsrpText

LOCAL INSTANCE SequencesExt

CONSTANTS Scripts,      \* scripts a caller may run
          Outputs,      \* values a pipeline may write, each with the type of its message
          PoolPolls,    \* Receives allowed for the pool to open: 64
          Polls,        \* Receives allowed for the pipeline to end: 256
          MaxOutput,    \* bound: records the pipeline writes
          MaxOther,     \* bound: messages queued while one of no interest is sent
          MaxRetries,   \* WinrmConfig::max_retries
          MaxFailures,  \* bound: exchanges that fail
          MayCancel

ASSUME PsrpRunAssumption ==
    /\ PoolPolls \in Nat \ {0} /\ Polls \in Nat \ {0}
    /\ MaxOutput \in Nat /\ MaxOther \in Nat
    /\ MaxRetries \in Nat /\ MaxFailures \in Nat
    /\ MayCancel \in BOOLEAN

\* The numbers of the states: Opened; Completed, Failed, Stopped.
Opened   == "2"
EndNames == [n \in {"4", "5", "6"} |->
                CASE n = "4" -> "completed" [] n = "5" -> "failed" [] n = "6" -> "stopped"]

\* The messages about a state; the error it came with names the state it is of.
StateDocs(name) == {StateOf(name, n, <<Char(Spelling(name))>>) : n \in {"1", "2", "3", "4", "5", "6"}}
PoolState     == [doc \in StateDocs("RunspaceState") |-> ExtractNamedI32(doc, "RunspaceState")]
PipelineState == [doc \in StateDocs("PipelineState") |-> ExtractNamedI32(doc, "PipelineState")]

SaysOpened(m) == m.type = "RUNSPACEPOOL_STATE" /\ PoolState[m.data] = Opened
IsTerminal(m) == m.type = "PIPELINE_STATE" /\ PipelineState[m.data] \in DOMAIN EndNames

VARIABLES pc, attempt, polls, exit, result,
          stdout, stderr, \* the messages whose texts they are (TextOf)
          shellLive,    \* server: the shell exists
          pool,         \* server: "opening", "opened" or "broken"
          pipeline,     \* server: "none", "running" or the terminal state
          queue,        \* server: messages not received yet
          written,      \* server: the values the pipeline wrote, each with its type
          runs,         \* server: whether it runs the script it was given: "none" (of them
                        \* yet), "given", "respelt" (one that spells a control character as
                        \* CLIXML does) or "another"
          style,        \* server: whether it writes a BOM, and <S/> for <S></S>
          failures,     \* exchanges that may still fail
          unclean,      \* history: the Delete exchange failed
          holes         \* history: messages were taken by a Receive whose answer was lost

vars == <<pc, attempt, polls, stdout, stderr, exit, result, shellLive, pool, pipeline, queue,
          written, runs, style, failures, unclean, holes>>

server  == <<shellLive, pool, pipeline, queue, written, runs, style>>
outputs == <<stdout, stderr, exit>>

Init ==
    /\ pc = "open" /\ attempt = 0 /\ polls = 0 /\ stdout = <<>> /\ stderr = <<>> /\ exit = 0
    /\ result = "none"
    /\ shellLive = FALSE /\ pool = "opening" /\ pipeline = "none"
    /\ queue = <<>> /\ written = <<>> /\ runs = "none"
    /\ style \in {[bom |-> b, short |-> b] : b \in BOOLEAN}
    /\ failures = MaxFailures /\ unclean = FALSE /\ holes = FALSE

-----------------------------------------------------------------------------
(* The service.                                                              *)

OthersUnchanged ==
    UNCHANGED <<shellLive, runs, style, pc, attempt, polls, outputs, result, failures, unclean, holes>>

Sends(type, doc) ==
    queue' = Append(queue, Message("client", type, "rpid", "pid",
                                   IF style.bom THEN <<Bom>> \o doc ELSE doc))

SendsState(type, name, n) == Sends(type, StateOf(name, n, <<Char(Spelling(name))>>))

\* Before Opened: a state that is not Opened, with others to follow or not.
PoolTalks ==
    /\ shellLive /\ pool = "opening"
    /\ \/ /\ Len(queue) < MaxOther /\ UNCHANGED pool
          /\ SendsState("RUNSPACEPOOL_STATE", "RunspaceState", "1")
       \/ pool' = "opened" /\ SendsState("RUNSPACEPOOL_STATE", "RunspaceState", Opened)
       \/ pool' = "broken" /\ SendsState("RUNSPACEPOOL_STATE", "RunspaceState", "5")
    /\ UNCHANGED <<pipeline, written>> /\ OthersUnchanged

PipelineWrites ==
    /\ shellLive /\ pipeline = "running" /\ Len(written) < MaxOutput
    /\ \E o \in Outputs :
        /\ Sends(o.type, Serialized(style.short, o.value))
        /\ written' = Append(written, o)
    /\ UNCHANGED <<pool, pipeline>> /\ OthersUnchanged

\* Progress, verbose, warning, ... records, for which the client has no use, and
\* states that are not the last.
PipelineTalks ==
    /\ shellLive /\ pipeline = "running" /\ Len(queue) < MaxOther
    /\ \E type \in {"PROGRESS_RECORD", "PIPELINE_STATE"} : SendsState(type, "PipelineState", "3")
    /\ UNCHANGED <<pool, pipeline, written>> /\ OthersUnchanged

PipelineEnds ==
    /\ shellLive /\ pipeline = "running"
    /\ \E n \in DOMAIN EndNames :
           pipeline' = EndNames[n] /\ SendsState("PIPELINE_STATE", "PipelineState", n)
    /\ UNCHANGED <<pool, written>> /\ OthersUnchanged

-----------------------------------------------------------------------------
(* What the service does for a request, whether or not its answer arrives.  It *)
(* has one shell of the proposed ShellId and one pipeline of the CommandId: a  *)
(* second Create or Command is refused.                                       *)

CreateShell == shellLive' = TRUE /\ UNCHANGED <<pool, pipeline, queue, written, runs, style>>

DeleteShell == shellLive' = FALSE /\ UNCHANGED <<pool, pipeline, queue, written, runs, style>>

\* What the service makes of a script that is sent.
RunsAs ==
    [script \in Scripts |->
        LET message == PipelineFragments("rpid", "pid", script)
        IN CASE /\ Accepts(CreationFragments("rpid"), message, "pid")
                /\ ScriptOf(message.message.body) = script -> "given"
             [] SpellsControl(script)                     -> "respelt"
             [] OTHER                                     -> "another"]

\* The script matters once it runs, and then it is the one of every attempt.
StartPipeline ==
    /\ IF pipeline # "none" THEN UNCHANGED <<pipeline, runs>>
       ELSE pipeline' = "running" /\ \E script \in Scripts : runs' = RunsAs[script]
    /\ UNCHANGED <<shellLive, pool, queue, written, style>>

\* recv_chunk: an answer with data, or (once the command is Done) without.  It
\* repeats the Receive as long as the service answers TimedOut or with nothing,
\* which changes no state.
Chunks ==
    {SubSeq(queue, 1, k) : k \in 1..Len(queue)}
        \cup (IF queue = <<>> /\ pipeline \notin {"none", "running"} THEN {<<>>} ELSE {})

Take(chunk) ==
    /\ queue' = SubSeq(queue, Len(chunk) + 1, Len(queue))
    /\ UNCHANGED <<shellLive, pool, pipeline, written, runs, style>>

TakeChunk == \E chunk \in Chunks : Take(chunk)

-----------------------------------------------------------------------------
(* send_soap_with_retry around the request the call is at.                   *)

\* The answer arrives.
Answered(at, effect) ==
    /\ pc = at /\ effect /\ attempt' = 0
    /\ UNCHANGED <<failures, holes>>

\* An Http error, before or after the service did what was asked, and another
\* attempt is left: what a Receive took is gone.
Again(at, effect) ==
    /\ pc = at /\ failures > 0 /\ attempt < MaxRetries
    /\ failures' = failures - 1 /\ attempt' = attempt + 1
    /\ effect \/ UNCHANGED server
    /\ holes' = (holes \/ queue' # queue)
    /\ UNCHANGED <<pc, polls, outputs, result, unclean>>

\* The last attempt fails, or any does with an error that is not repeated.
Failed(at, effect) ==
    /\ pc = at /\ failures > 0
    /\ failures' = failures - 1 /\ attempt' = 0
    /\ effect \/ UNCHANGED server
    /\ UNCHANGED holes

Retry ==
    \/ Again("open", CreateShell) \/ Again("create", StartPipeline) \/ Again("close", DeleteShell)
    \/ Again("pool", TakeChunk) \/ Again("poll", TakeChunk)

-----------------------------------------------------------------------------
(* The client.                                                               *)

Return(r) == pc' = "returned" /\ result' = r

\* Mutant of CountPoll: the loops have no limit.
PollUncounted == UNCHANGED polls

\* One more Receive of the pool or of the pipeline has been answered.
CountPoll == polls' = polls + 1

\* The last of the Receives the loop allows.
LastPoll(limit) == polls' = limit

\* Mutant of Finish: `return Err` before the shell is closed.
FinishOpen(r) ==
    IF r = "ok" THEN pc' = "close" /\ result' = r ELSE Return(r)

\* Leaving a loop: the shell is closed before anything is returned.
Finish(r) == pc' = "close" /\ result' = r

OpenShell ==
    /\ \/ ~shellLive /\ Answered("open", CreateShell) /\ pc' = "pool" /\ UNCHANGED result
       \/ shellLive /\ Answered("open", UNCHANGED server) /\ Return("error")
       \/ Failed("open", CreateShell) /\ Return("error")
    /\ UNCHANGED <<polls, outputs, unclean>>

DrainPool ==
    /\ \E chunk \in Chunks :
        /\ Answered("pool", Take(chunk))
        /\ IF \E i \in DOMAIN chunk : SaysOpened(DecodeMessage(chunk[i]))
           THEN pc' = "create" /\ polls' = 0 /\ UNCHANGED result
           ELSE /\ CountPoll
                /\ IF LastPoll(PoolPolls) THEN Finish("not_opened")
                                          ELSE UNCHANGED <<pc, result>>
    /\ UNCHANGED <<outputs, unclean>>

CreatePipeline ==
    /\ \/ pipeline = "none" /\ Answered("create", StartPipeline) /\ pc' = "poll" /\ UNCHANGED result
       \/ pipeline # "none" /\ Answered("create", UNCHANGED server) /\ Return("error")
       \/ Failed("create", StartPipeline) /\ Return("error")
    /\ UNCHANGED <<polls, outputs, unclean>>

\* Mutant of Handled: the end is looked for before the output of its chunk.
HandledEndFirst(chunk) ==
    IF \E i \in 1..Len(chunk) : IsTerminal(chunk[i])
    THEN SelectSeq(chunk, IsTerminal) ELSE chunk

\* The messages of a chunk the loop looks at: up to the first terminal state.
Handled(chunk) ==
    LET ends == {i \in 1..Len(chunk) : IsTerminal(chunk[i])}
    IN IF ends = {} THEN chunk
       ELSE SubSeq(chunk, 1, CHOOSE i \in ends : \A j \in ends : i <= j)

OfType(messages, type) == SelectSeq(messages, LAMBDA m : m.type = type)

Poll ==
    /\ \E chunk \in Chunks :
        LET seen == Handled([i \in DOMAIN chunk |-> DecodeMessage(chunk[i])])
            over == seen # <<>> /\ IsTerminal(seen[Len(seen)])
        IN /\ Answered("poll", Take(chunk))
           /\ stdout' = stdout \o OfType(seen, "PIPELINE_OUTPUT")
           /\ stderr' = stderr \o OfType(seen, "ERROR_RECORD")
           /\ exit' = IF over /\ PipelineState[seen[Len(seen)].data] = "5"
                      THEN 1 ELSE exit
           /\ CountPoll
           /\ CASE over -> Finish("ok")
                [] ~over /\ LastPoll(Polls) -> Finish("not_ended")
                [] OTHER -> UNCHANGED <<pc, result>>
    /\ UNCHANGED unclean

\* A Receive that fails for good: `?` leaves run_powershell with the shell open.
ReceiveFails ==
    /\ Failed("pool", TakeChunk) \/ Failed("poll", TakeChunk)
    /\ Return("error")
    /\ UNCHANGED <<polls, outputs, unclean>>

\* feed fails when a fragment went with a lost answer (PsrpReassembler!Mismatch):
\* `?` as well.
FeedFails ==
    /\ holes
    /\ Answered("pool", TakeChunk) \/ Answered("poll", TakeChunk)
    /\ Return("error")
    /\ UNCHANGED <<polls, outputs, unclean>>

\* shell.close(), whose error is only logged.
CloseShell ==
    /\ \/ Answered("close", DeleteShell) /\ UNCHANGED unclean
       \/ Failed("close", DeleteShell) /\ unclean' = TRUE
    /\ Return(result)
    /\ UNCHANGED <<polls, outputs>>

\* run_powershell_with_cancel drops the call at its await.
Cancel ==
    /\ MayCancel /\ pc # "returned"
    /\ Return("cancelled") /\ attempt' = 0
    /\ UNCHANGED <<polls, outputs, server, failures, unclean, holes>>

ClientStep == OpenShell \/ DrainPool \/ CreatePipeline \/ Poll \/ CloseShell

Next == ClientStep \/ Retry \/ ReceiveFails \/ FeedFails \/ Cancel \/ PoolTalks \/ PipelineWrites \/ PipelineTalks
            \/ PipelineEnds

Spec == Init /\ [][Next]_vars

\* The call is polled and the service answers what it has to say; no exchange has
\* to fail.
FairSpec == Spec /\ WF_vars(ClientStep /\ UNCHANGED failures)

-----------------------------------------------------------------------------
\* The text of stdout or stderr: each message's is appended, and closed by a newline
\* that it, or what was there before, may have already.
TextOf(messages) ==
    LET Extended(text, m) ==
            LET all == text \o ExtractOutputText(m.data)
            IN IF all # <<>> /\ all[Len(all)] = NL THEN all ELSE Append(all, NL)
    IN FoldLeft(Extended, <<>>, messages)

\* Ok is of the script that was given, and carries what it wrote, however the
\* service grouped and spelt the messages: output and errors apart, each in the
\* order written and once, a line or more for each value, unless one of the stream
\* is of those the search misreads.  A value may be missing only if the answer of
\* a Receive was lost, which is repeated and takes the next messages.  The end
\* itself was received, and the exit code tells a failed pipeline from the others
\* (run_powershell, send_soap_with_retry, feed).
OkIsWholeOutput ==
    result = "ok" =>
        /\ runs \in {"given", "respelt"}
        /\ \A out \in {<<"PIPELINE_OUTPUT", stdout>>, <<"ERROR_RECORD", stderr>>} :
              LET values == OfType(written, out[1])
                  kept(i, held) == IF i \in held THEN Append(Says(values[i].value), NL) ELSE <<>>
              IN (\A i \in DOMAIN values : ~Misread(values[i].value)) =>
                 \E held \in IF holes THEN SUBSET DOMAIN values ELSE {DOMAIN values} :
                    TextOf(out[2]) = FlattenSeq([i \in DOMAIN values |-> kept(i, held)])
        /\ exit = IF pipeline = "failed" THEN 1 ELSE 0
        /\ pipeline \in {"completed", "failed", "stopped"}

\* A call that came to its own end, with a result or having given up polling,
\* has closed the shell, unless the Delete exchange failed, though any of its
\* exchanges may have been repeated.
EndClosesShell ==
    pc = "returned" /\ result \in {"ok", "not_opened", "not_ended"} /\ ~unclean => ~shellLive

\* The call returns unless the service falls silent for ever: a quiet pool or
\* pipeline is waited for without limit, also one whose last message went with a
\* lost answer; a talkative one is not.
RunReturns ==
    <>(pc = "returned") \/ <>[](pc \in {"pool", "poll"} /\ queue = <<>>)

===============================================================================
