----------------------------- MODULE FileTransfer -----------------------------
(***************************************************************************)
(* upload_file and download_file (src/transfer.rs): a sequence of transfers  *)
(* of one caller to and from the same remote path.  Each opens a shell, runs *)
(* PowerShell scripts in it through Shell::run_command and closes it.  Of    *)
(* run_command the module keeps what CommandRun shows: it may start its      *)
(* command once more per lost answer, it polls the last one started, and an  *)
(* error, the timeout and a dropped call leave that one running.             *)
(***************************************************************************)
EXTENDS Naturals, Sequences, SequencesExt, BagsExt

CONSTANTS ChunkSize,     \* CHUNK_SIZE, in the units files are made of
          Sizes,         \* the sizes of local files to explore
          MaxTransfers,  \* bound: transfers the caller makes
          MaxRetries,    \* WinrmConfig::max_retries
          MaxLosses,     \* bound: exchanges whose answer is lost
          Absent,        \* no such file
          Undecodable    \* a text that is no base64

ASSUME TransferAssumption ==
    /\ ChunkSize \in Nat \ {0} /\ Sizes \subseteq Nat
    /\ MaxTransfers \in Nat /\ MaxRetries \in Nat /\ MaxLosses \in Nat

\* A file is a sequence of units, each named by the transfer that brought it.
File == Seq(Nat \X Nat)

ASSUME AbsentAssumption == Absent \notin File

VARIABLES n, op, pc, data, i, attempt, result,
          run,         \* the script whose command is polled
          local,       \* the file downloads are written to
          remote,      \* server: the file at the remote path
          others,      \* server: the bag of scripts that run and that nobody polls
          live,        \* server: shells, by the transfer that opened them
          lossBudget,
          alone,       \* history: no script of others ran beside this transfer
          before,      \* history: the remote file when the transfer was called
          whole        \* history: no output of this transfer was lost

caller == <<n, op, data, before>>
server == <<remote, others, live>>
vars == <<n, op, pc, data, i, attempt, result, run, local, server,
          lossBudget, alone, before, whole>>

NoRun == [script |-> [do |-> "none", bytes |-> <<>>], exit |-> 2, out |-> <<>>]
Running == 2            \* run.exit of a script that has not ended

Init ==
    /\ n = 0 /\ op = "upload" /\ pc = "idle" /\ data = <<>> /\ i = 0 /\ attempt = 0
    /\ result = "none" /\ run = NoRun /\ local = Absent
    /\ remote \in {Absent, <<<<0, 1>>>>} /\ others = EmptyBag /\ live = {}
    /\ lossBudget = MaxLosses /\ alone = TRUE /\ before = remote /\ whole = TRUE

-----------------------------------------------------------------------------
(* The scripts.                                                              *)

LastOf(k) == IF (k + 1) * ChunkSize < Len(data) THEN (k + 1) * ChunkSize ELSE Len(data)

\* data.chunks(CHUNK_SIZE), counted from 0.
Chunk(k) == SubSeq(data, k * ChunkSize + 1, LastOf(k))

\* WriteAllBytes for the first chunk, Open(.., 'Append') for the others.
UploadScript(k) == [do |-> IF k = 0 THEN "create" ELSE "append", bytes |-> Chunk(k)]

\* Mutant of ChunkBytes: two KB.
TwoKB == 2048

\* CHUNK_SIZE and MAX_REMOTE_PATH_LEN as they are; the transfers below take
\* ChunkSize for the former.
ChunkBytes == 2000

MaxPath == 260

\* How long `replace('\'', "''")` leaves the paths that validate_remote_path lets
\* through, which measures them before: each has some quotes among its characters.
EscapedLens == UNION {{chars + quotes : quotes \in 0..chars} : chars \in 0..MaxPath}

\* The length of the command line that appends a chunk to an escaped path of the
\* given length: base64, in a script, in UTF-16, in base64 again.
CommandLineLen(bytes, path) ==
    LET Base64Len(m) == 4 * ((m + 2) \div 3)
    IN 31 + Base64Len(2 * (124 + Base64Len(bytes) + path))

Script == IF op = "upload" THEN UploadScript(i) ELSE [do |-> "read", bytes |-> <<>>]

\* A script of this transfer is still to be run.
More == IF op = "upload" THEN i * ChunkSize < Len(data) ELSE i = 0

\* What script s may do to file f: its exit code, its output and the file it
\* leaves.  A write that fails may have written a part.
Outcomes(s, f) ==
    LET base == IF s.do = "append" /\ f # Absent THEN f ELSE <<>>
    IN IF s.do = "read"
       THEN {[file |-> f, exit |-> 1, out |-> <<>>]}
                \cup (IF f = Absent THEN {} ELSE {[file |-> f, exit |-> 0, out |-> f]})
       ELSE {[file |-> base \o s.bytes, exit |-> 0, out |-> <<>>],
             [file |-> f, exit |-> 1, out |-> <<>>]}
                \cup {[file |-> base \o SubSeq(s.bytes, 1, k), exit |-> 1, out |-> <<>>] :
                          k \in 0..(Len(s.bytes) - 1)}

RunScript ==
    /\ pc = "run" /\ run.exit = Running
    /\ \E o \in Outcomes(run.script, remote) :
           remote' = o.file /\ run' = [run EXCEPT !.exit = o.exit, !.out = o.out]
    /\ UNCHANGED <<caller, pc, i, attempt, result, local, others, live,
                   lossBudget, alone, whole>>

\* A script that nobody polls runs whenever it likes.
OtherRuns ==
    /\ \E other \in BagToSet(others) :
           /\ others' = BagRemove(others, other)
           /\ \E o \in Outcomes(other.script, remote) : remote' = o.file
    /\ UNCHANGED <<caller, pc, i, attempt, result, run, local, live,
                   lossBudget, alone, whole>>

-----------------------------------------------------------------------------
(* The transfer.                                                             *)

Return(r) == pc' = "idle" /\ result' = r

LeaveRunning(s) == others' = BagAdd(others, [script |-> s, shell |-> n])

\* A path that is too long or holds a control character, or a local file that
\* cannot be read, is refused before anything is sent.
Call ==
    /\ pc = "idle" /\ n < MaxTransfers
    /\ n' = n + 1 /\ i' = 0 /\ attempt' = 0 /\ run' = NoRun
    /\ \/ op' = "download" /\ data' = <<>>
       \/ op' = "upload" /\ \E size \in Sizes : data' = [k \in 1..size |-> <<n', k>>]
    /\ before' = remote /\ alone' = (others = EmptyBag) /\ whole' = TRUE
    /\ (pc' = "open" /\ result' = "none") \/ Return("refused")
    /\ UNCHANGED <<local, server, lossBudget>>

OpenShell ==
    /\ pc = "open"
    /\ \/ live' = live \cup {n} /\ pc' = "loop" /\ UNCHANGED result
       \/ Return("error") /\ (live' = live \cup {n} \/ UNCHANGED live)
    /\ UNCHANGED <<caller, i, attempt, run, local, remote, others, lossBudget, alone, whole>>

StartScript ==
    /\ pc = "loop" /\ More
    /\ pc' = "run" /\ run' = [script |-> Script, exit |-> Running, out |-> <<>>] /\ attempt' = 0
    /\ UNCHANGED <<caller, i, result, local, server, lossBudget, alone, whole>>

\* The answer to the Command request is lost and the request is sent again.
StartAgain ==
    /\ pc = "loop" /\ More /\ lossBudget > 0 /\ attempt < MaxRetries
    /\ lossBudget' = lossBudget - 1 /\ attempt' = attempt + 1
    /\ (LeaveRunning(Script) /\ alone' = FALSE) \/ UNCHANGED <<others, alone>>
    /\ UNCHANGED <<caller, pc, i, result, run, local, remote, live, whole>>

\* The answer to a Receive is lost and the request is sent again: what is left
\* of the base64 text is none, or that of another file.
LoseOutput ==
    /\ pc = "run" /\ run.exit = 0 /\ run.out # <<>> /\ lossBudget > 0 /\ attempt < MaxRetries
    /\ lossBudget' = lossBudget - 1 /\ attempt' = attempt + 1 /\ whole' = FALSE
    /\ \E o \in {Undecodable, IF run.out = Undecodable THEN <<>> ELSE Tail(run.out)} :
           run' = [run EXCEPT !.out = o]
    /\ UNCHANGED <<caller, pc, i, result, local, server, alone>>

\* Mutant of Accepted: the exit code is not looked at.
AcceptedAnyway == TRUE

Accepted == run.exit = 0

\* Mutant of ScriptFailed: `return Err` before the shell is closed.
FailedOpen(r) == Return(r)

\* Mutant of ScriptFailed: a script that fails is run again.
FailedAgain(r) == pc' = "loop" /\ UNCHANGED result

ScriptFailed(r) == pc' = "close" /\ result' = r

\* output.exit_code decides whether the next chunk is sent.
ScriptEnds ==
    /\ pc = "run" /\ run.exit # Running
    /\ IF Accepted THEN i' = i + 1 /\ pc' = "loop" /\ UNCHANGED result
                   ELSE ScriptFailed("script_failed") /\ UNCHANGED i
    /\ UNCHANGED <<caller, attempt, run, local, server, lossBudget, alone, whole>>

\* run_powershell fails: a fault, a last lost answer, too much output, the
\* timeout, or the caller drops the transfer.  `?` leaves the shell as it is.
RunFails ==
    /\ (pc = "loop" /\ More) \/ pc = "run"
    /\ Return("error")
    /\ \/ pc = "run" /\ run.exit # Running /\ UNCHANGED others
       \/ pc = "run" /\ run.exit = Running /\ LeaveRunning(run.script)
       \/ pc = "loop" /\ (LeaveRunning(Script) \/ UNCHANGED others)
    /\ UNCHANGED <<caller, i, attempt, run, local, remote, live, lossBudget, alone, whole>>

LoopEnds ==
    /\ pc = "loop" /\ ~More
    /\ pc' = "close" /\ result' = "ok"
    /\ UNCHANGED <<caller, i, attempt, run, local, server, lossBudget, alone, whole>>

\* shell.close().await.ok(): deleting the shell ends what runs in it.
Close ==
    /\ pc = "close"
    /\ \/ live' = live \ {n}
          /\ others' = [o \in {other \in BagToSet(others) : other.shell # n} |-> others[o]]
          /\ UNCHANGED <<lossBudget, alone>>
       \/ lossBudget > 0 /\ lossBudget' = lossBudget - 1 /\ alone' = FALSE
          /\ UNCHANGED <<live, others>>
    /\ pc' = IF op = "download" /\ result = "ok" THEN "save" ELSE "idle"
    /\ UNCHANGED <<caller, i, attempt, result, run, local, remote, whole>>

\* Mutant of Saved: the decoded text is appended to the local file.
SavedAfter(bytes) == IF local = Absent THEN bytes ELSE local \o bytes

Saved(bytes) == bytes

\* The output is decoded, then std::fs::write replaces the local file.
Save ==
    /\ pc = "save"
    /\ IF run.out = Undecodable
       THEN Return("bad_base64") /\ UNCHANGED local
       ELSE \/ Return("ok") /\ local' = Saved(run.out)
            \/ /\ Return("local_write")
               /\ local' \in {local} \cup {SubSeq(run.out, 1, k) : k \in 0..Len(run.out)}
    /\ UNCHANGED <<caller, i, attempt, run, server, lossBudget, alone, whole>>

Progress == OpenShell \/ StartScript \/ ScriptEnds \/ LoopEnds \/ Close \/ Save

Next == Call \/ Progress \/ StartAgain \/ LoseOutput \/ RunFails \/ RunScript \/ OtherRuns

Spec == Init /\ [][Next]_vars

\* The transfer is polled and its requests are answered; run_command has a
\* timeout, so that a script that never ends ends in RunFails.
FairSpec == Spec /\ WF_vars(Progress) /\ WF_vars(pc = "run" /\ RunFails)

-----------------------------------------------------------------------------
Returned(o, r) == pc = "idle" /\ op = o /\ result = r

\* However an upload ends, what is at the remote path is what was there before
\* or the beginning of the local file, never a mixture of both; and one that
\* returns Ok leaves the local file, exactly: no chunk missing, doubled or out
\* of place.  The exceptions are a script of this or of an earlier transfer that
\* was still running beside it, and an empty local file (upload_file).
UploadIsFaithful ==
    /\ op = "upload" /\ alone /\ others = EmptyBag =>
           remote = before \/ (remote # Absent /\ IsPrefix(remote, data))
    /\ Returned("upload", "ok") /\ alone /\ data # <<>> => remote = data

\* A download that returns Ok has written the remote file to the local path,
\* whatever was there before, unless a lost answer took a part of it.
DownloadIsFaithful == Returned("download", "ok") /\ alone /\ whole => local = remote

\* Unless run_powershell itself failed or an answer was lost, nothing of a
\* transfer is left on the server: no shell, and no script that could still
\* write to the file.
NothingLeftUnlessError ==
    (pc = "idle" /\ result \in {"ok", "script_failed", "bad_base64", "local_write"}
        /\ lossBudget = MaxLosses) =>
            n \notin live /\ \A other \in BagToSet(others) : other.shell # n

\* The command line that appends a full chunk to a path upload_file accepts stays
\* within what WinRS takes, as long as the path has grown by eight characters at
\* most beyond the longest accepted when its quotes were doubled: beyond that,
\* which takes nine quotes, upload_file sends a line that is too long
\* (validate_remote_path, upload_file).
CommandLineFits ==
    Len(run.script.bytes) = ChunkSize =>
        \A path \in EscapedLens :
            CommandLineLen(ChunkBytes, path) <= 8191 <=> path <= MaxPath + 8

\* Every transfer returns, whatever its scripts do.
TransferReturns == pc # "idle" ~> pc = "idle"

=============================================================================
