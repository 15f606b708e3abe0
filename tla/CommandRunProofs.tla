--------------------------- MODULE CommandRunProofs ---------------------------
(***************************************************************************)
(* The invariants of CommandRun, for every cap, number of retries, length of  *)
(* output and number of failures.                                            *)
(***************************************************************************)
EXTENDS CommandRun, Integers, TLAPS

Lives   == {"live", "gone"}
Codes   == {NoExit, 0, 1, Unparseable}
Command == [life : Lives, produced : Nat, taken : Nat, exit : Codes]

\* Types of the state, of commands that all have their fields.
TypeOK ==
    /\ api \in {"client", "shell"}
    /\ pc \in {"create", "execute", "receive", "signal", "signalCap", "delete", "returned"}
    /\ cmd \in Nat /\ out \in Seq(Nat) /\ exit \in Nat
    /\ shells \in Seq(Lives) /\ cmds \in Seq(Command)
    /\ lossBudget \in 0 .. MaxLosses

\* The first n chunks of an output.
UpTo(n) == [i \in 1 .. n |-> i]

\* A command is started in state "execute", which ends with the command the
\* client polls, or without one.
RunsCounted ==
    /\ Len(cmds) <= (IF pc \in {"create", "execute"} THEN 0 ELSE 1) + (MaxLosses - lossBudget)
    /\ pc \in {"receive", "signal", "signalCap"} \/ result = "ok" => cmd \in DOMAIN cmds
    /\ pc \in {"create", "execute", "receive", "signal", "signalCap"} => result = "none"

\* While the call runs, there is the one shell it created, unless a Create failed.
OneShell ==
    /\ pc \notin {"create", "returned"} => Len(shells) >= 1
    /\ ~unclean => /\ pc = "create" => Len(shells) = 0
                   /\ pc \notin {"create", "returned"} => Len(shells) = 1

\* The output is within the cap until "signalCap", and beyond it from there.
CapHeld ==
    /\ pc \in {"create", "execute", "receive", "signal"} \/ result = "ok" => Len(out) <= Cap
    /\ pc = "signalCap" \/ result = "transfer" => Len(out) > Cap

\* The client has the command's exit code when it is done, and none before.
ExitKnown ==
    /\ pc \in {"create", "execute", "receive"} => exit = NoExit
    /\ pc = "signal" =>
           /\ cmds[cmd].exit # NoExit
           /\ exit = IF cmds[cmd].exit = Unparseable THEN NoExit ELSE cmds[cmd].exit
    /\ result = "ok" =>
           /\ cmds[cmd].exit # NoExit
           /\ exit = IF cmds[cmd].exit = Unparseable THEN MinusOne ELSE cmds[cmd].exit

\* What the client has of the output is what Receives took, and all of it when
\* the command is done, unless the answer of one was lost.
OutputKnown ==
    /\ \A i \in DOMAIN cmds : cmds[i].taken <= cmds[i].produced
    /\ ~holes => /\ pc \in {"create", "execute"} => out = <<>>
                 /\ pc = "receive" => out = UpTo(cmds[cmd].taken)
                 /\ pc = "signal" \/ result = "ok" => out = UpTo(cmds[cmd].produced)

IInv == TypeOK /\ RunsCounted /\ OneShell /\ CapHeld /\ ExitKnown /\ OutputKnown /\ NothingLeftOnServer

-----------------------------------------------------------------------------
\* A call starts without a shell, a command or output.
LEMMA InitIInv == Init => IInv
<1>. SUFFICES ASSUME Init PROVE IInv
  OBVIOUS
<1>. USE CommandAssumption DEF Init, NoExit
<1>1. TypeOK
  BY SMT DEF TypeOK
<1>2. RunsCounted /\ OneShell /\ CapHeld /\ ExitKnown
  BY SMT DEF RunsCounted, OneShell, CapHeld, ExitKnown
<1>3. OutputKnown /\ NothingLeftOnServer
  BY SMT DEF OutputKnown, NothingLeftOnServer
<1>. QED  BY <1>1, <1>2, <1>3 DEF IInv

\* The chunks of one Receive follow those of the Receives before it.
LEMMA NextChunks ==
    ASSUME NEW t \in Nat, NEW p \in Nat, t <= p
    PROVE  UpTo(t) \o [i \in 1 .. (p - t) |-> t + i] = UpTo(p)
<1>. DEFINE new == [i \in 1 .. (p - t) |-> t + i]
<1>1. UpTo(t) \in Seq(Nat) /\ new \in Seq(Nat) /\ Len(UpTo(t)) = t /\ Len(new) = p - t
  BY SMT DEF UpTo
<1>2. Len(UpTo(t) \o new) = p
  BY <1>1, SMT
<1>3. \A i \in 1 .. p : (UpTo(t) \o new)[i] = i
  BY <1>1, SMT DEF UpTo
<1>. QED  BY <1>1, <1>2, <1>3, SMT DEF UpTo

\* The Command request adds one command, which has written nothing.
LEMMA StartKeeps ==
    ASSUME TypeOK, StartCommand
    PROVE  /\ cmds' \in Seq(Command) /\ Len(cmds') = Len(cmds) + 1
           /\ \A i \in DOMAIN cmds : cmds'[i] = cmds[i]
           /\ cmds'[Len(cmds')].taken = 0 /\ cmds'[Len(cmds')].produced = 0
           /\ UNCHANGED shells
<1>1. cmds \in Seq(Command)
  BY DEF TypeOK
<1>2. Started \in Command /\ Started.taken = 0 /\ Started.produced = 0
  BY SMT DEF Started, Command, Codes, Lives, NoExit
<1>3. cmds' = Append(cmds, Started) /\ UNCHANGED shells
  BY DEF StartCommand
<1>. HIDE DEF Command, Started
<1>. QED  BY <1>1, <1>2, <1>3, SMT

\* Everything of the commands but whether they run is as it was.
SameRuns ==
    /\ cmds' \in Seq(Command) /\ Len(cmds') = Len(cmds)
    /\ \A i \in DOMAIN cmds : /\ cmds'[i].produced = cmds[i].produced
                              /\ cmds'[i].taken = cmds[i].taken
                              /\ cmds'[i].exit = cmds[i].exit

\* A request that was not served changes no run.
LEMMA UnchangedKeeps == TypeOK /\ UNCHANGED cmds => SameRuns
  BY SMT DEF TypeOK, SameRuns

\* Signal ends the program of the call's command and nothing else.
LEMMA TerminateKeeps ==
    ASSUME TypeOK, Terminate, cmd \in DOMAIN cmds
    PROVE  SameRuns /\ UNCHANGED shells
<1>1. cmds \in Seq(Command) /\ cmds' = [cmds EXCEPT ![cmd].life = "gone"] /\ UNCHANGED shells
  BY DEF TypeOK, Terminate
<1>2. PICK ended \in Command : /\ ended = [cmds[cmd] EXCEPT !.life = "gone"]
                               /\ ended.produced = cmds[cmd].produced
                               /\ ended.taken = cmds[cmd].taken
                               /\ ended.exit = cmds[cmd].exit
  <2>1. cmds[cmd] \in Command
    BY <1>1, SMT
  <2>2. \A c \in Command : /\ [c EXCEPT !.life = "gone"] \in Command
                           /\ [c EXCEPT !.life = "gone"].produced = c.produced
                           /\ [c EXCEPT !.life = "gone"].taken = c.taken
                           /\ [c EXCEPT !.life = "gone"].exit = c.exit
    BY SMT DEF Command, Lives, Codes
  <2>. QED  BY <2>1, <2>2, Zenon
<1>3. cmd \in 1 .. Len(cmds) /\ cmds' = [cmds EXCEPT ![cmd] = ended]
  BY <1>1, <1>2, SMT
<1>4. /\ cmds' \in Seq(Command) /\ Len(cmds') = Len(cmds)
      /\ \A j \in 1 .. Len(cmds) : cmds'[j] = IF j = cmd THEN ended ELSE cmds[j]
  BY <1>1, <1>3, SMT
<1>. QED  BY <1>1, <1>2, <1>3, <1>4, SMT DEF SameRuns

\* Receive takes all that the call's command has written and nothing else.
LEMMA TakeKeeps ==
    ASSUME TypeOK, TakeOutput, cmd \in DOMAIN cmds
    PROVE  /\ cmds' \in Seq(Command) /\ Len(cmds') = Len(cmds)
           /\ \A i \in DOMAIN cmds : i # cmd => cmds'[i] = cmds[i]
           /\ cmds'[cmd].exit = cmds[cmd].exit /\ cmds'[cmd].life = cmds[cmd].life
           /\ cmds'[cmd].produced = cmds[cmd].produced /\ cmds'[cmd].taken = cmds[cmd].produced
           /\ UNCHANGED shells
<1>1. /\ cmds \in Seq(Command) /\ UNCHANGED shells
      /\ cmds' = [cmds EXCEPT ![cmd].taken = cmds[cmd].produced]
  BY DEF TypeOK, TakeOutput
<1>2. PICK read \in Command : /\ read = [cmds[cmd] EXCEPT !.taken = cmds[cmd].produced]
                              /\ read.produced = cmds[cmd].produced
                              /\ read.taken = cmds[cmd].produced
                              /\ read.exit = cmds[cmd].exit
                              /\ read.life = cmds[cmd].life
  <2>1. cmds[cmd] \in Command
    BY <1>1, SMT
  <2>2. \A c \in Command : c.produced \in Nat
    BY SMT DEF Command
  <2>3. \A c \in Command : \A n \in Nat : /\ [c EXCEPT !.taken = n] \in Command
                                        /\ [c EXCEPT !.taken = n].produced = c.produced
                                        /\ [c EXCEPT !.taken = n].taken = n
                                        /\ [c EXCEPT !.taken = n].exit = c.exit
                                        /\ [c EXCEPT !.taken = n].life = c.life
    BY SMT DEF Command
  <2>4. cmds[cmd].produced \in Nat
    BY <2>1, <2>2, Zenon
  <2>. QED  BY <2>1, <2>3, <2>4, Zenon
<1>3. cmd \in 1 .. Len(cmds) /\ cmds' = [cmds EXCEPT ![cmd] = read]
  BY <1>1, <1>2, SMT
<1>4. /\ cmds' \in Seq(Command) /\ Len(cmds') = Len(cmds)
      /\ \A j \in 1 .. Len(cmds) : cmds'[j] = IF j = cmd THEN read ELSE cmds[j]
  BY <1>1, <1>3, SMT
<1>5. cmds'[cmd] = read /\ DOMAIN cmds = 1 .. Len(cmds)
  BY <1>1, <1>3, <1>4, SMT
<1>. QED  BY <1>1, <1>2, <1>4, <1>5, Zenon

\* Delete ends every command, and the last shell.
LEMMA DeleteKeeps ==
    ASSUME TypeOK, DeleteShell, Len(shells) >= 1
    PROVE  /\ SameRuns /\ \A i \in DOMAIN cmds' : cmds'[i].life = "gone"
           /\ shells' \in Seq(Lives) /\ Len(shells') = Len(shells)
           /\ Len(shells) = 1 => shells'[1] = "gone"
<1>1. /\ cmds \in Seq(Command) /\ shells \in Seq(Lives)
      /\ shells' = [shells EXCEPT ![Len(shells)] = "gone"]
      /\ cmds' = [i \in DOMAIN cmds |-> [cmds[i] EXCEPT !.life = "gone"]]
  BY DEF TypeOK, DeleteShell
<1>2. \A c \in Command : /\ [c EXCEPT !.life = "gone"] \in Command
                         /\ [c EXCEPT !.life = "gone"].produced = c.produced
                         /\ [c EXCEPT !.life = "gone"].taken = c.taken
                         /\ [c EXCEPT !.life = "gone"].exit = c.exit
                         /\ [c EXCEPT !.life = "gone"].life = "gone"
  BY SMT DEF Command, Lives, Codes
<1>3. cmds' \in Seq(Command) /\ Len(cmds') = Len(cmds)
  BY <1>1, <1>2, SMT
<1>4. /\ DOMAIN cmds = 1 .. Len(cmds) /\ DOMAIN cmds' = 1 .. Len(cmds)
      /\ \A i \in 1 .. Len(cmds) : cmds[i] \in Command
  BY <1>1, <1>3, SMT
<1>5. \A i \in 1 .. Len(cmds) : /\ cmds'[i].produced = cmds[i].produced
                                /\ cmds'[i].taken = cmds[i].taken
                                /\ cmds'[i].exit = cmds[i].exit
                                /\ cmds'[i].life = "gone"
  <2>1. \A i \in 1 .. Len(cmds) : cmds'[i] = [cmds[i] EXCEPT !.life = "gone"]
    BY <1>1, <1>4, Zenon
  <2>2. SUFFICES ASSUME NEW i \in 1 .. Len(cmds)
                 PROVE  /\ cmds'[i].produced = cmds[i].produced
                        /\ cmds'[i].taken = cmds[i].taken
                        /\ cmds'[i].exit = cmds[i].exit
                        /\ cmds'[i].life = "gone"
    OBVIOUS
  <2>3. cmds[i] \in Command /\ cmds'[i] = [cmds[i] EXCEPT !.life = "gone"]
    BY <1>4, <2>1
  <2>. QED  BY <1>2, <2>3, Zenon
<1>6. SameRuns /\ \A i \in DOMAIN cmds' : cmds'[i].life = "gone"
  BY <1>3, <1>4, <1>5, Zenon DEF SameRuns
<1>7. Len(shells) \in 1 .. Len(shells) /\ "gone" \in Lives
  BY <1>1, SMT DEF Lives
<1>8. /\ shells' \in Seq(Lives) /\ Len(shells') = Len(shells)
      /\ \A j \in 1 .. Len(shells) : shells'[j] = IF j = Len(shells) THEN "gone" ELSE shells[j]
  BY <1>1, <1>7, SMT
<1>. QED  BY <1>6, <1>7, <1>8, SMT

\* Create adds a shell.
LEMMA CreateKeeps ==
    ASSUME TypeOK, CreateShell
    PROVE  shells' \in Seq(Lives) /\ Len(shells') = Len(shells) + 1 /\ UNCHANGED cmds
<1>1. shells \in Seq(Lives) /\ shells' = Append(shells, "live") /\ UNCHANGED cmds /\ "live" \in Lives
  BY SMT DEF TypeOK, CreateShell, Lives
<1>. QED  BY <1>1, SMT

\* The fields of a command that are counted.
LEMMA CommandTypes == \A c \in Command : c.taken \in Nat /\ c.produced \in Nat /\ c.exit \in Nat
  BY SMT DEF Command, Codes, NoExit, Unparseable

\* The chunks that a Receive adds.
LEMMA NewOutput ==
    ASSUME TypeOK, OutputKnown, Receive, cmd \in DOMAIN cmds
    PROVE  /\ out' \in Seq(Nat)
           /\ out = UpTo(cmds[cmd].taken) => out' = UpTo(cmds[cmd].produced)
<1>1. /\ cmds[cmd].taken \in Nat /\ cmds[cmd].produced \in Nat
      /\ cmds[cmd].taken <= cmds[cmd].produced
  BY CommandTypes, SMT DEF TypeOK, OutputKnown
<1>2. out \in Seq(Nat) /\ out' = out \o NewChunks(cmds[cmd])
  BY Zenon DEF TypeOK, Receive
<1>3. NewChunks(cmds[cmd]) \in Seq(Nat)
  BY <1>1, SMT DEF NewChunks
<1>4. UpTo(cmds[cmd].taken) \o NewChunks(cmds[cmd]) = UpTo(cmds[cmd].produced)
  BY <1>1, NextChunks, Zenon DEF NewChunks
<1>. QED  BY <1>2, <1>3, <1>4, SMT

\* The program writes a chunk or ends; other commands stay as they are.
LEMMA ProgramKeeps ==
    ASSUME TypeOK, NEW i \in DOMAIN cmds, Produce(i) \/ Exit(i)
    PROVE  /\ cmds' \in Seq(Command) /\ Len(cmds') = Len(cmds)
           /\ \A j \in DOMAIN cmds : j # i => cmds'[j] = cmds[j]
           /\ cmds'[i].taken = cmds[i].taken /\ cmds'[i].produced >= cmds[i].produced
           /\ cmds[i].life = "live" /\ cmds[i].exit = NoExit
<1>1. cmds \in Seq(Command) /\ i \in 1 .. Len(cmds) /\ cmds[i].life = "live" /\ cmds[i].exit = NoExit
  BY SMT DEF TypeOK, Produce, Exit
<1>2. PICK next \in Command : /\ cmds' = [cmds EXCEPT ![i] = next]
                              /\ next.taken = cmds[i].taken
                              /\ next.produced >= cmds[i].produced
  <2>1. cmds[i] \in Command
    BY <1>1, SMT
  <2>2. \A c \in Command : \A n \in Nat, code \in Codes :
            /\ [c EXCEPT !.produced = n] \in Command
            /\ [c EXCEPT !.produced = n].taken = c.taken
            /\ [c EXCEPT !.produced = n].produced = n
            /\ [c EXCEPT !.exit = code] \in Command
            /\ [c EXCEPT !.exit = code].taken = c.taken
            /\ [c EXCEPT !.exit = code].produced = c.produced
    BY SMT DEF Command
  <2>3. cmds[i].produced \in Nat
    <3>1. \A c \in Command : c.produced \in Nat
      BY SMT DEF Command
    <3>. QED  BY <2>1, <3>1, Zenon
  <2>4. CASE Produce(i)
    <3>1. cmds' = [cmds EXCEPT ![i] = [cmds[i] EXCEPT !.produced = cmds[i].produced + 1]]
      BY <1>1, <2>4, SMT DEF Produce
    <3>2. cmds[i].produced + 1 \in Nat /\ cmds[i].produced + 1 >= cmds[i].produced
      BY <2>3, SMT
    <3>3. NoExit \in Codes
      BY Zenon DEF Codes
    <3>. QED  BY <2>1, <2>2, <3>1, <3>2, <3>3, Zenon
  <2>5. CASE Exit(i)
    <3>1. PICK code \in Codes : cmds' = [cmds EXCEPT ![i].exit = code]
      <4>1. {0, 1, Unparseable} \subseteq Codes
        BY Zenon DEF Codes
      <4>. QED  BY <2>5, <4>1, Zenon DEF Exit
    <3>2. cmds' = [cmds EXCEPT ![i] = [cmds[i] EXCEPT !.exit = code]]
      BY <1>1, <3>1, SMT
    <3>3. cmds[i].produced >= cmds[i].produced
      BY <2>3, SMT
    <3>. QED  BY <2>1, <2>2, <2>3, <3>2, <3>3, Zenon
  <2>. QED  BY <2>4, <2>5
<1>3. /\ cmds' \in Seq(Command) /\ Len(cmds') = Len(cmds)
      /\ \A j \in 1 .. Len(cmds) : cmds'[j] = IF j = i THEN next ELSE cmds[j]
  BY <1>1, <1>2, SMT
<1>4. cmds'[i] = next /\ DOMAIN cmds = 1 .. Len(cmds)
  BY <1>1, <1>3, SMT
<1>. QED  BY <1>1, <1>2, <1>3, <1>4, Zenon

-----------------------------------------------------------------------------
\* Every step of the call, of the program and of time keeps the invariant.
LEMMA NextIInv == IInv /\ [Next]_vars => IInv'
<1>. SUFFICES ASSUME IInv, [Next]_vars PROVE IInv'
  OBVIOUS
<1>. USE CommandAssumption DEF IInv
<1>1. CASE Create
  <2>0. /\ shells' \in Seq(Lives) /\ UNCHANGED cmds
        /\ CreateShell => Len(shells') = Len(shells) + 1
    <3>1. CreateShell \/ ServerUnchanged
      BY <1>1, Zenon DEF Create, Answered, Again, Failed
    <3>. QED  BY <3>1, CreateKeeps, SMT DEF IInv, ServerUnchanged, TypeOK
  <2>1. TypeOK'
    BY <1>1, <2>0, SMT DEF TypeOK, Create, Answered, Again, Failed, Return, client
  <2>2. RunsCounted'
    BY <1>1, <2>0, SMTT(20) DEF TypeOK, RunsCounted, Create, Answered, Again,
       Failed, Return, client
  <2>3. OneShell'
    <3>1. pc = "create" /\ Len(shells) \in Nat
      BY <1>1, SMT DEF TypeOK, Create, Answered, Again, Failed
    <3>2. CASE Answered("create", CreateShell) /\ pc' = "execute" /\ UNCHANGED client
      BY <2>0, <3>1, <3>2, SMT DEF OneShell, Answered
    <3>3. CASE Again("create", CreateShell)
      BY <2>0, <3>1, <3>3, SMT DEF OneShell, Again, ServerUnchanged
    <3>4. CASE Failed("create", CreateShell) /\ Return("error")
      BY <3>4, SMT DEF OneShell, Return
    <3>. QED  BY <1>1, <3>2, <3>3, <3>4 DEF Create
  <2>4. CapHeld'
    BY <1>1, <2>0, SMT DEF CapHeld, Create, Answered, Again, Return, client,
       ServerUnchanged
  <2>5. ExitKnown'
    BY <1>1, <2>0, SMT DEF ExitKnown, Create, Answered, Again, Return, client
  <2>6. OutputKnown'
    BY <1>1, <2>0, SMT DEF OutputKnown, Create, Answered, Again, Return, client
  <2>7. NothingLeftOnServer'
    BY <1>1, <2>0, SMT DEF NothingLeftOnServer, Create, Answered, Again, Failed,
       Return, client
  <2>. QED  BY <2>1, <2>2, <2>3, <2>4, <2>5, <2>6, <2>7
<1>2. CASE Execute
  <2>0. /\ cmds' \in Seq(Command) /\ UNCHANGED shells
        /\ Len(cmds') \in {Len(cmds), Len(cmds) + 1}
        /\ \A i \in DOMAIN cmds : cmds'[i] = cmds[i]
        /\ Len(cmds') # Len(cmds) => /\ cmds'[Len(cmds')].taken = 0
                                    /\ cmds'[Len(cmds')].produced = 0
        /\ StartCommand => Len(cmds') = Len(cmds) + 1
    <3>1. StartCommand \/ ServerUnchanged
      BY <1>2, Zenon DEF Execute, Answered, Again, Failed
    <3>. QED  BY <3>1, StartKeeps, SMT DEF IInv, ServerUnchanged, TypeOK
  <2>1. TypeOK'
    BY <1>2, <2>0, SMT DEF TypeOK, Execute, Answered, Again, Failed, Conclude,
       Return, client
  <2>2. RunsCounted'
    BY <1>2, <2>0, SMT DEF TypeOK, RunsCounted, Execute, Answered, Again, Failed,
       Conclude, Return, client
  <2>3. OneShell'
    BY <1>2, <2>0, SMT DEF TypeOK, OneShell, Execute, Answered, Again, Failed,
       Conclude, Return, client
  <2>4. CapHeld'
    BY <1>2, <2>0, SMT DEF TypeOK, RunsCounted, CapHeld, Execute, Answered, Again,
       Failed, Conclude, Return, client
  <2>5. ExitKnown'
    BY <1>2, <2>0, SMT DEF TypeOK, RunsCounted, ExitKnown, Execute, Answered,
       Again, Failed, Conclude, Return, client
  <2>6. OutputKnown'
    <3>1. \A i \in DOMAIN cmds' : cmds'[i].taken <= cmds'[i].produced
      BY <2>0, SMT DEF OutputKnown
    <3>2. /\ pc = "execute" /\ UNCHANGED <<out, holes>>
          /\ pc' \in {"execute", "receive", "delete", "returned"} /\ result' # "ok"
      BY <1>2, SMT DEF RunsCounted, Execute, Answered, Again, Failed, Conclude,
         Return, client
    <3>3. pc' = "receive" => cmds'[cmd'].taken = 0
      BY <1>2, <2>0, SMT DEF Execute, Answered, Again, Failed, Conclude, Return, client
    <3>4. UpTo(0) = <<>>
      BY SMT DEF UpTo
    <3>5. pc' # "signal"
      BY <3>2, SMT
    <3>. QED  BY <3>1, <3>2, <3>3, <3>4, <3>5, Zenon DEF OutputKnown
  <2>7. NothingLeftOnServer'
    BY <1>2, <2>0, SMT DEF NothingLeftOnServer, Execute, Again, Conclude
  <2>. QED  BY <2>1, <2>2, <2>3, <2>4, <2>5, <2>6, <2>7
<1>3. CASE Receive
  <2>0. /\ cmd \in DOMAIN cmds /\ cmds' \in Seq(Command) /\ Len(cmds') = Len(cmds)
        /\ \A i \in DOMAIN cmds : i # cmd => cmds'[i] = cmds[i]
        /\ cmds'[cmd].exit = cmds[cmd].exit /\ cmds'[cmd].life = cmds[cmd].life
        /\ cmds'[cmd].produced = cmds[cmd].produced /\ cmds'[cmd].taken = cmds[cmd].produced
        /\ UNCHANGED shells
    <3>1. TakeOutput /\ cmd \in DOMAIN cmds
      BY <1>3 DEF Receive, Answered, RunsCounted
    <3>. QED  BY <3>1, TakeKeeps, Zenon DEF IInv
  <2>1. TypeOK'
    <3>1. out' \in Seq(Nat)
      BY <1>3, <2>0, NewOutput
    <3>2. exit' \in Nat
      BY <1>3, <2>0, CommandTypes, SMT DEF TypeOK, Receive, Seen
    <3>. QED  BY <1>3, <2>0, <3>1, <3>2, SMT DEF TypeOK, Receive, Answered, Return
  <2>2. RunsCounted'
    BY <1>3, <2>0, SMT DEF TypeOK, RunsCounted, Receive, Answered, Seen, Return
  <2>3. OneShell'
    BY <1>3, <2>0, SMT DEF TypeOK, OneShell, Receive, Answered, Seen, Return
  <2>4. CapHeld'
    <3>1. Len(out') \in Nat
      BY <1>3, <2>0, NewOutput, SMT
    <3>2. result = "none" /\ result' \in {"none", "transfer"}
      BY <1>3, SMT DEF RunsCounted, Receive, Answered, Return
    <3>. QED  BY <1>3, <3>1, <3>2, SMT DEF CapHeld, Receive, TooMuch, Return
  <2>5. ExitKnown'
    BY <1>3, <2>0, SMT DEF RunsCounted, ExitKnown, Receive, Answered, Seen, Return
  <2>6. OutputKnown'
    <3>1. \A i \in DOMAIN cmds' : cmds'[i].taken <= cmds'[i].produced
      <4>1. DOMAIN cmds' = DOMAIN cmds /\ cmds[cmd] \in Command
        BY <2>0, SMT DEF TypeOK
      <4>2. cmds[cmd].produced <= cmds[cmd].produced
        BY <4>1, CommandTypes, SMT
      <4>3. cmds[cmd].taken <= cmds[cmd].produced
        BY <2>0, Zenon DEF OutputKnown
      <4>4. cmds'[cmd].taken <= cmds'[cmd].produced
        BY <2>0, <4>2, <4>3, Zenon
      <4>. QED  BY <2>0, <4>1, <4>4, Zenon DEF OutputKnown
    <3>2. /\ pc = "receive" /\ pc' \in {"receive", "signal", "signalCap", "returned"} /\ result' # "ok"
          /\ UNCHANGED <<cmd, holes>>
      BY <1>3, SMT DEF RunsCounted, Receive, Answered, Return
    <3>3. ~holes => out' = UpTo(cmds[cmd].produced)
      BY <1>3, <2>0, <3>2, NewOutput, Zenon DEF OutputKnown
    <3>4. pc' \notin {"create", "execute"}
      BY <3>2, SMT
    <3>. QED  BY <2>0, <3>1, <3>2, <3>3, <3>4, Zenon DEF OutputKnown
  <2>7. NothingLeftOnServer'
    BY <1>3, <2>0, SMT DEF NothingLeftOnServer, Receive
  <2>. QED  BY <2>1, <2>2, <2>3, <2>4, <2>5, <2>6, <2>7
<1>4. CASE ReceiveFailed
  <2>0. /\ cmd \in DOMAIN cmds /\ cmds' \in Seq(Command) /\ Len(cmds') = Len(cmds)
        /\ \A i \in DOMAIN cmds : i # cmd => cmds'[i] = cmds[i]
        /\ cmds'[cmd].exit = cmds[cmd].exit /\ cmds'[cmd].life = cmds[cmd].life
        /\ cmds'[cmd].produced = cmds[cmd].produced
        /\ cmds'[cmd].taken \in {cmds[cmd].taken, cmds[cmd].produced}
        /\ UNCHANGED shells
    <3>1. (TakeOutput \/ ServerUnchanged) /\ cmd \in DOMAIN cmds
      BY <1>4, Zenon DEF ReceiveFailed, Again, Failed, RunsCounted
    <3>. QED  BY <3>1, TakeKeeps, SMT DEF IInv, ServerUnchanged, TypeOK
  <2>1. TypeOK'
    BY <1>4, <2>0, SMT DEF TypeOK, ReceiveFailed, Again, Failed, Conclude, Return,
       client
  <2>2. RunsCounted'
    BY <1>4, <2>0, SMTT(20) DEF TypeOK, RunsCounted, ReceiveFailed, Again, Failed,
       Conclude, Return, client
  <2>3. OneShell'
    BY <1>4, <2>0, SMT DEF TypeOK, OneShell, ReceiveFailed, Again, Failed,
       Conclude, Return, client
  <2>4. CapHeld'
    BY <1>4, <2>0, SMT DEF TypeOK, RunsCounted, CapHeld, ReceiveFailed, Again,
       Failed, Conclude, Return, client
  <2>5. ExitKnown'
    BY <1>4, <2>0, SMT DEF TypeOK, RunsCounted, ExitKnown, ReceiveFailed, Again,
       Failed, Conclude, Return, client
  <2>6. OutputKnown'
    <3>1. \A i \in DOMAIN cmds' : cmds'[i].taken <= cmds'[i].produced
      <4>1. DOMAIN cmds' = DOMAIN cmds /\ cmds[cmd] \in Command
        BY <2>0, SMT DEF TypeOK
      <4>2. cmds[cmd].produced <= cmds[cmd].produced
        BY <4>1, CommandTypes, SMT
      <4>3. cmds[cmd].taken <= cmds[cmd].produced
        BY <2>0, Zenon DEF OutputKnown
      <4>4. cmds'[cmd].taken <= cmds'[cmd].produced
        BY <2>0, <4>2, <4>3, Zenon
      <4>. QED  BY <2>0, <4>1, <4>4, Zenon DEF OutputKnown
    <3>2. pc = "receive" /\ pc' \in {"receive", "delete", "returned"} /\ result' # "ok" /\ UNCHANGED <<cmd, out>>
      BY <1>4, SMT DEF RunsCounted, ReceiveFailed, Again, Failed, Conclude,
         Return, client
    <3>3. ~holes' => ~holes /\ UNCHANGED cmds
      BY <1>4, Zenon DEF ReceiveFailed, Again, Failed, ServerUnchanged
    <3>4. pc' \notin {"create", "execute", "signal"}
      BY <3>2, SMT
    <3>. QED  BY <3>1, <3>2, <3>3, <3>4, Zenon DEF OutputKnown
  <2>7. NothingLeftOnServer'
    BY <1>4, <2>0, SMT DEF NothingLeftOnServer, ReceiveFailed, Again, Failed,
       Conclude, ServerUnchanged
  <2>. QED  BY <2>1, <2>2, <2>3, <2>4, <2>5, <2>6, <2>7
<1>5. CASE SignalDone
  <2>0. SameRuns /\ UNCHANGED shells
    <3>1. (Terminate \/ ServerUnchanged) /\ cmd \in DOMAIN cmds
      BY <1>5, Zenon DEF SignalDone, Signal, Answered, Again, Failed, RunsCounted
    <3>. QED  BY <3>1, TerminateKeeps, UnchangedKeeps, Zenon DEF IInv, ServerUnchanged
  <2>1. TypeOK'
    BY <1>5, <2>0, SMT DEF TypeOK, SameRuns, SignalDone, Signal, Answered, Again,
       Failed, Conclude, Return, client, MinusOne
  <2>2. RunsCounted'
    BY <1>5, <2>0, SMT DEF TypeOK, RunsCounted, SameRuns, SignalDone, Signal,
       Answered, Again, Failed, Conclude, Return, client
  <2>3. OneShell'
    BY <1>5, <2>0, SMT DEF TypeOK, OneShell, SameRuns, SignalDone, Signal,
       Answered, Again, Failed, Conclude, Return, client
  <2>4. CapHeld'
    BY <1>5, <2>0, SMT DEF TypeOK, RunsCounted, CapHeld, SameRuns, SignalDone,
       Signal, Answered, Again, Failed, Conclude, Return, client
  <2>5. ExitKnown'
    <3>1. pc = "signal" /\ UNCHANGED cmd /\ result # "ok"
      BY <1>5, SMT DEF RunsCounted, SignalDone, Signal, Answered, Again, Failed,
         Conclude, Return, client
    <3>2. \/ UNCHANGED <<exit, pc, result>>
          \/ /\ exit' = IF exit = NoExit THEN MinusOne ELSE exit
             /\ pc' \in {"delete", "returned"} /\ result' = "ok"
      BY <1>5, Zenon DEF SignalDone, Signal, Again, Conclude, Return, client
    <3>3. cmds'[cmd].exit = cmds[cmd].exit
      BY <2>0, <3>1, Zenon DEF SameRuns, RunsCounted
    <3>. QED  BY <3>1, <3>2, <3>3, SMT DEF ExitKnown
  <2>6. OutputKnown'
    <3>1. pc = "signal" /\ pc' \in {"signal", "delete", "returned"}
      BY <1>5, SMT DEF RunsCounted, SignalDone, Signal, Again, Conclude, Return, client
    <3>2. UNCHANGED <<cmd, out, holes>>
      BY <1>5, SMT DEF SignalDone, Signal, Answered, Again, Failed, Conclude,
         Return, client
    <3>3. pc' \notin {"create", "execute", "receive"} /\ DOMAIN cmds' = DOMAIN cmds
      BY <2>0, <3>1, SMT DEF SameRuns
    <3>4. \A i \in DOMAIN cmds' : cmds'[i].taken <= cmds'[i].produced
      BY <2>0, <3>3, Zenon DEF OutputKnown, SameRuns
    <3>5. pc = "signal" => cmds'[cmd].produced = cmds[cmd].produced
      BY <2>0, Zenon DEF SameRuns, RunsCounted
    <3>. QED  BY <3>1, <3>2, <3>3, <3>4, <3>5, Zenon DEF OutputKnown
  <2>7. NothingLeftOnServer'
    BY <1>5, <2>0, SMT DEF NothingLeftOnServer, SameRuns, SignalDone, Signal,
       Again, Conclude
  <2>. QED  BY <2>1, <2>2, <2>3, <2>4, <2>5, <2>6, <2>7
<1>6. CASE SignalCap
  <2>0. SameRuns /\ UNCHANGED shells
    <3>1. (Terminate \/ ServerUnchanged) /\ cmd \in DOMAIN cmds
      BY <1>6, Zenon DEF SignalCap, Signal, Answered, Again, Failed, RunsCounted
    <3>. QED  BY <3>1, TerminateKeeps, UnchangedKeeps, Zenon DEF IInv, ServerUnchanged
  <2>1. TypeOK'
    BY <1>6, <2>0, SMT DEF TypeOK, SameRuns, SignalCap, Signal, Answered, Again,
       Failed, Conclude, Return, client
  <2>2. RunsCounted'
    BY <1>6, <2>0, SMT DEF TypeOK, RunsCounted, SameRuns, SignalCap, Signal,
       Answered, Again, Failed, Conclude, Return, client
  <2>3. OneShell'
    BY <1>6, <2>0, SMT DEF TypeOK, OneShell, SameRuns, SignalCap, Signal,
       Answered, Again, Failed, Conclude, Return, client
  <2>4. CapHeld'
    BY <1>6, <2>0, SMT DEF TypeOK, RunsCounted, CapHeld, SameRuns, SignalCap,
       Signal, Answered, Again, Failed, Conclude, Return, client
  <2>5. ExitKnown'
    BY <1>6, <2>0, SMT DEF TypeOK, RunsCounted, ExitKnown, SameRuns, SignalCap,
       Signal, Answered, Again, Failed, Conclude, Return, client
  <2>6. OutputKnown'
    <3>1. pc' \in {"signalCap", "delete", "returned"} /\ result' # "ok"
      BY <1>6, SMT DEF RunsCounted, SignalCap, Signal, Again, Conclude, Return, client
    <3>2. UNCHANGED <<cmd, out, holes>>
      BY <1>6, SMT DEF SignalCap, Signal, Answered, Again, Failed, Conclude,
         Return, client
    <3>3. pc' \notin {"create", "execute", "receive"} /\ DOMAIN cmds' = DOMAIN cmds
          /\ pc' # "signal"
      BY <2>0, <3>1, SMT DEF SameRuns
    <3>4. \A i \in DOMAIN cmds' : cmds'[i].taken <= cmds'[i].produced
      BY <2>0, <3>3, Zenon DEF OutputKnown, SameRuns
    <3>5. result = "ok" => cmds'[cmd].produced = cmds[cmd].produced
      BY <2>0, Zenon DEF SameRuns, RunsCounted
    <3>. QED  BY <3>1, <3>2, <3>3, <3>4, <3>5, Zenon DEF OutputKnown
  <2>7. NothingLeftOnServer'
    BY <1>6, <2>0, SMT DEF NothingLeftOnServer, SameRuns, SignalCap, Signal,
       Again, Conclude
  <2>. QED  BY <2>1, <2>2, <2>3, <2>4, <2>5, <2>6, <2>7
<1>7. CASE Delete
  <2>0. /\ SameRuns /\ shells' \in Seq(Lives) /\ Len(shells') = Len(shells)
        /\ DeleteShell => /\ \A i \in DOMAIN cmds' : cmds'[i].life = "gone"
                          /\ Len(shells) = 1 => shells'[1] = "gone"
    <3>1. (DeleteShell \/ ServerUnchanged) /\ Len(shells) >= 1
      BY <1>7, Zenon DEF Delete, Answered, Again, Failed, OneShell
    <3>. QED  BY <3>1, DeleteKeeps, UnchangedKeeps, Zenon DEF IInv, ServerUnchanged, TypeOK
  <2>1. TypeOK'
    BY <1>7, <2>0, SMT DEF TypeOK, SameRuns, Delete, Answered, Again, Failed,
       Return, client
  <2>2. RunsCounted'
    BY <1>7, <2>0, SMT DEF TypeOK, RunsCounted, SameRuns, Delete, Answered, Again,
       Failed, Return, client
  <2>3. OneShell'
    BY <1>7, <2>0, SMT DEF TypeOK, OneShell, SameRuns, Delete, Answered, Again,
       Failed, Return, client
  <2>4. CapHeld'
    BY <1>7, <2>0, SMT DEF TypeOK, RunsCounted, CapHeld, SameRuns, Delete,
       Answered, Again, Failed, Return, client
  <2>5. ExitKnown'
    <3>1. pc' \in {"delete", "returned"} /\ UNCHANGED <<cmd, exit, result>>
      BY <1>7, SMT DEF Delete, Again, Return, client
    <3>2. result = "ok" => cmds'[cmd].exit = cmds[cmd].exit
      BY <2>0, Zenon DEF SameRuns, RunsCounted
    <3>3. pc' \notin {"create", "execute", "receive", "signal"}
      BY <3>1, SMT
    <3>. QED  BY <3>1, <3>2, <3>3, Zenon DEF ExitKnown
  <2>6. OutputKnown'
    <3>1. pc' \in {"delete", "returned"} /\ UNCHANGED result
      BY <1>7, SMT DEF RunsCounted, Delete, Again, Return, client
    <3>2. UNCHANGED <<cmd, out, holes>>
      BY <1>7, SMT DEF Delete, Answered, Again, Failed, Return, client
    <3>3. pc' \notin {"create", "execute", "receive"} /\ DOMAIN cmds' = DOMAIN cmds
          /\ pc' # "signal"
      BY <2>0, <3>1, SMT DEF SameRuns
    <3>4. \A i \in DOMAIN cmds' : cmds'[i].taken <= cmds'[i].produced
      BY <2>0, <3>3, Zenon DEF OutputKnown, SameRuns
    <3>5. result = "ok" => cmds'[cmd].produced = cmds[cmd].produced
      BY <2>0, Zenon DEF SameRuns, RunsCounted
    <3>. QED  BY <3>1, <3>2, <3>3, <3>4, <3>5, Zenon DEF OutputKnown
  <2>7. NothingLeftOnServer'
    BY <1>7, <2>0, SMT DEF OneShell, NothingLeftOnServer, SameRuns, Delete,
       Answered, Again, Failed, ServerUnchanged
  <2>. QED  BY <2>1, <2>2, <2>3, <2>4, <2>5, <2>6, <2>7
<1>8. CASE ReceiveTimedOut
  <2>1. TypeOK'
    BY <1>8, SMT DEF TypeOK, ReceiveTimedOut, Conclude, Return
  <2>2. RunsCounted'
    BY <1>8, SMT DEF TypeOK, RunsCounted, ReceiveTimedOut, Conclude, Return
  <2>3. OneShell'
    BY <1>8, SMT DEF TypeOK, OneShell, ReceiveTimedOut, Conclude, Return
  <2>4. CapHeld'
    BY <1>8, SMT DEF TypeOK, RunsCounted, CapHeld, ReceiveTimedOut, Conclude, Return
  <2>5. ExitKnown'
    BY <1>8, SMT DEF RunsCounted, ExitKnown, ReceiveTimedOut, Conclude, Return
  <2>6. OutputKnown'
    BY <1>8, SMT DEF OutputKnown, ReceiveTimedOut, Conclude, Return
  <2>7. NothingLeftOnServer'
    BY <1>8, SMT DEF NothingLeftOnServer, ReceiveTimedOut, Conclude, Return
  <2>. QED  BY <2>1, <2>2, <2>3, <2>4, <2>5, <2>6, <2>7
<1>9. CASE Timeout
  <2>1. TypeOK'
    BY <1>9, SMT DEF TypeOK, Timeout, Return
  <2>2. RunsCounted'
    BY <1>9, SMT DEF TypeOK, RunsCounted, Timeout, Return
  <2>3. OneShell'
    BY <1>9, SMT DEF TypeOK, OneShell, Timeout, Return
  <2>4. CapHeld'
    BY <1>9, SMT DEF TypeOK, RunsCounted, CapHeld, Timeout, Return
  <2>5. ExitKnown'
    BY <1>9, SMT DEF RunsCounted, ExitKnown, Timeout, Return
  <2>6. OutputKnown'
    BY <1>9, SMT DEF OutputKnown, Timeout, Return
  <2>7. NothingLeftOnServer'
    BY <1>9, SMT DEF NothingLeftOnServer, Timeout, Return
  <2>. QED  BY <2>1, <2>2, <2>3, <2>4, <2>5, <2>6, <2>7
<1>10. CASE Cancel
  <2>1. TypeOK'
    BY <1>10, SMT DEF TypeOK, Cancel, Return
  <2>2. RunsCounted'
    BY <1>10, SMT DEF TypeOK, RunsCounted, Cancel, Return
  <2>3. OneShell'
    BY <1>10, SMT DEF TypeOK, OneShell, Cancel, Return
  <2>4. CapHeld'
    BY <1>10, SMT DEF TypeOK, RunsCounted, CapHeld, Cancel, Return
  <2>5. ExitKnown'
    BY <1>10, SMT DEF TypeOK, RunsCounted, ExitKnown, Cancel, Return
  <2>6. OutputKnown'
    BY <1>10, SMT DEF OutputKnown, Cancel, Return
  <2>7. NothingLeftOnServer'
    BY <1>10, SMT DEF NothingLeftOnServer, Cancel, Return
  <2>. QED  BY <2>1, <2>2, <2>3, <2>4, <2>5, <2>6, <2>7
<1>11. ASSUME NEW i \in DOMAIN cmds, Produce(i) \/ Exit(i) PROVE IInv'
  <2>0. /\ cmds' \in Seq(Command) /\ Len(cmds') = Len(cmds)
        /\ \A j \in DOMAIN cmds : j # i => cmds'[j] = cmds[j]
        /\ cmds'[i].taken = cmds[i].taken /\ cmds'[i].produced >= cmds[i].produced
        /\ cmds[i].life = "live" /\ cmds[i].exit = NoExit
        /\ UNCHANGED <<client, pc, attempt, shells, lossBudget, faultBudget, unclean, holes>>
    BY <1>11, ProgramKeeps, Zenon DEF Produce, Exit
  <2>1. TypeOK'
    BY <2>0, SMT DEF TypeOK, client
  <2>2. RunsCounted'
    BY <2>0, SMT DEF TypeOK, RunsCounted, client
  <2>3. OneShell'
    BY <2>0, SMT DEF TypeOK, OneShell, client
  <2>4. CapHeld'
    BY <2>0, SMT DEF TypeOK, RunsCounted, CapHeld, client
  <2>5. ExitKnown'
    <3>1. pc = "signal" \/ result = "ok" => cmds'[cmd] = cmds[cmd]
      BY <2>0, Zenon DEF ExitKnown, RunsCounted
    <3>. QED  BY <2>0, <3>1, Zenon DEF ExitKnown, client
  <2>6. OutputKnown'
    <3>1. \A j \in DOMAIN cmds' : cmds'[j].taken <= cmds'[j].produced
      <4>1. /\ DOMAIN cmds' = DOMAIN cmds /\ i \in DOMAIN cmds /\ cmds'[i] \in Command
            /\ cmds[i].taken \in Nat /\ cmds[i].produced \in Nat /\ cmds[i].taken <= cmds[i].produced
        BY <2>0, CommandTypes, SMT DEF TypeOK, OutputKnown
      <4>2. cmds'[i].produced \in Nat
        BY <4>1, CommandTypes, Zenon
      <4>3. cmds'[i].taken <= cmds'[i].produced
        BY <2>0, <4>1, <4>2, SMT
      <4>. QED  BY <2>0, <4>1, <4>3, Zenon DEF OutputKnown
    <3>2. pc = "signal" \/ result = "ok" => cmds'[cmd] = cmds[cmd]
      BY <2>0, Zenon DEF ExitKnown, RunsCounted
    <3>3. pc = "receive" => cmds'[cmd].taken = cmds[cmd].taken
      BY <2>0, Zenon DEF RunsCounted
    <3>. QED  BY <2>0, <3>1, <3>2, <3>3, Zenon DEF OutputKnown, client
  <2>7. NothingLeftOnServer'
    BY <2>0, SMT DEF NothingLeftOnServer, client
  <2>. QED  BY <2>1, <2>2, <2>3, <2>4, <2>5, <2>6, <2>7
<1>12. CASE UNCHANGED vars
  <2>1. TypeOK'
    BY <1>12, SMT DEF TypeOK, vars
  <2>2. RunsCounted'
    BY <1>12, SMT DEF TypeOK, RunsCounted, vars
  <2>3. OneShell'
    BY <1>12, SMT DEF TypeOK, OneShell, vars
  <2>4. CapHeld'
    BY <1>12, SMT DEF TypeOK, RunsCounted, CapHeld, vars
  <2>5. ExitKnown'
    BY <1>12, SMT DEF RunsCounted, ExitKnown, vars
  <2>6. OutputKnown'
    BY <1>12, SMT DEF OutputKnown, vars
  <2>7. NothingLeftOnServer'
    BY <1>12, SMT DEF NothingLeftOnServer, vars
  <2>. QED  BY <2>1, <2>2, <2>3, <2>4, <2>5, <2>6, <2>7
<1>. QED  BY <1>1, <1>2, <1>3, <1>4, <1>5, <1>6, <1>7, <1>8, <1>9, <1>10, <1>11, <1>12 DEF Next, CallStep

\* The invariant holds in every state of every run.
LEMMA InvariantHolds == Spec => []IInv
<1>1. Init => IInv
  BY InitIInv
<1>2. IInv /\ [Next]_vars => IInv'
  BY NextIInv
<1>. QED  BY <1>1, <1>2, PTL DEF Spec

-----------------------------------------------------------------------------
\* A command runs once, and once more for each Http error at most, however often
\* a request may be repeated (WinrmClient::run_command, Shell::run_command).
THEOREM RunsOncePerLoss == Spec => []OneRunPerLoss
<1>1. IInv => OneRunPerLoss
  BY CommandAssumption, SMT DEF IInv, TypeOK, RunsCounted, OneRunPerLoss
<1>. QED  BY <1>1, InvariantHolds, PTL

\* An Ok whose Receives were all answered holds the whole output, each chunk once
\* and in order, for any output and any number of Receives.
THEOREM OutputIsWhole == Spec => []GapsOnlyFromLostAnswers
<1>1. IInv => GapsOnlyFromLostAnswers
  BY Zenon DEF IInv, OutputKnown, GapsOnlyFromLostAnswers, UpTo
<1>. QED  BY <1>1, InvariantHolds, PTL

\* An Ok carries the exit code of the command and is within the cap; Transfer is
\* for more than the cap.
THEOREM ResultIsTrue == Spec => []ResultIsTheCommands
<1>1. IInv => ResultIsTheCommands
  BY Zenon DEF IInv, CapHeld, ExitKnown, ResultIsTheCommands
<1>. QED  BY <1>1, InvariantHolds, PTL

\* run_command leaves neither its shell nor a program on the server, unless it
\* was dropped or the exchange that creates or deletes the shell failed.
THEOREM NothingLeft == Spec => []NothingLeftOnServer
<1>1. IInv => NothingLeftOnServer
  BY DEF IInv
<1>. QED  BY <1>1, InvariantHolds, PTL

=============================================================================
