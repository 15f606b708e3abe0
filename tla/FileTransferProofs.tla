-------------------------- MODULE FileTransferProofs --------------------------
(***************************************************************************)
(* upload_file and download_file keep a file whole and leave nothing behind,   *)
(* for every size of files and of chunks, every number of transfers, of        *)
(* retries and of lost answers.                                               *)
(***************************************************************************)
EXTENDS FileTransfer, TLAPS

Scripts == [do : {"none", "create", "append", "read"}, bytes : File]

TypeOK ==
    /\ n \in Nat /\ op \in {"upload", "download"} /\ data \in File /\ i \in Nat
    /\ pc \in {"idle", "open", "loop", "run", "close", "save"}
    /\ pc = "save" => op = "download" /\ result = "ok"
    /\ result = "error" => pc = "idle"
    /\ run \in [script : Scripts, exit : 0 .. 2, out : File \cup {Undecodable}]
    /\ remote \in File \cup {Absent} /\ before \in File \cup {Absent}
    /\ BagToSet(others) \subseteq [script : Scripts, shell : 0 .. n]
    /\ live \subseteq 0 .. n
    /\ lossBudget \in Nat /\ lossBudget <= MaxLosses

\* Nothing of this transfer is on the server.
NoScriptLeft == \A other \in BagToSet(others) : other.shell # n

Tidy ==
    /\ pc = "open" => n \notin live /\ NoScriptLeft
    /\ lossBudget = MaxLosses =>
           /\ pc \in {"loop", "run", "close"} => NoScriptLeft
           /\ pc = "save" => n \notin live /\ NoScriptLeft
           /\ pc = "idle" /\ result \in {"ok", "script_failed", "bad_base64", "local_write"} =>
                  n \notin live /\ NoScriptLeft

\* Until a script fails for good, a transfer that began alone stays alone.
Solitude == alone /\ result # "error" => others = EmptyBag

Downloading ==
    op = "download" /\ alone /\ whole =>
        /\ pc = "open" => i = 0
        /\ pc = "loop" /\ i # 0 => run.out = remote
        /\ pc = "run" => run.script.do = "read" /\ (run.exit = 0 => run.out = remote)
        /\ pc \in {"close", "save"} /\ result = "ok" => run.out = remote
        /\ pc = "idle" /\ result = "ok" => local = remote

\* The units of the first k chunks, and the remote file once they are written.
Upto(k)   == IF k * ChunkSize < Len(data) THEN k * ChunkSize ELSE Len(data)
AsSent(k) == IF k = 0 THEN before ELSE SubSeq(data, 1, Upto(k))

Faithful == remote = before \/ (remote # Absent /\ IsPrefix(remote, data))

\* The one script that a failed upload leaves running still has its chunk to write.
LastScriptRuns ==
    /\ others = BagAdd(EmptyBag, [script |-> UploadScript(i), shell |-> n])
    /\ i * ChunkSize < Len(data) /\ remote = AsSent(i)

Uploading ==
    op = "upload" /\ alone =>
        /\ pc = "open" => i = 0 /\ remote = before
        /\ pc = "loop" => remote = AsSent(i)
        /\ pc = "run" =>
               /\ run.script = UploadScript(i) /\ i * ChunkSize < Len(data)
               /\ run.exit = Running => remote = AsSent(i)
               /\ run.exit = 0 => remote = AsSent(i + 1)
        /\ pc \in {"run", "close"} => Faithful
        /\ pc = "idle" => (others = EmptyBag /\ Faithful) \/ (result = "error" /\ LastScriptRuns)
        /\ pc \in {"close", "idle"} /\ result = "ok" =>
               remote = AsSent(i) /\ i * ChunkSize >= Len(data)

IInv == TypeOK /\ Tidy /\ Solitude /\ Downloading /\ Uploading

-----------------------------------------------------------------------------
(* Bags.                                                                     *)

LEMMA EmptyBagIsEmpty == BagToSet(EmptyBag) = {}
BY Zenon DEF EmptyBag, SetToBag, BagToSet

LEMMA AddedToBag ==
    ASSUME NEW B, NEW x
    PROVE  /\ BagToSet(BagAdd(B, x)) = BagToSet(B) \cup {x}
           /\ BagAdd(EmptyBag, x) = [e \in {x} |-> 1]
BY SMT DEF BagAdd, BagToSet, EmptyBag, SetToBag

LEMMA RemovedFromBag ==
    ASSUME NEW B, NEW x
    PROVE  BagToSet(BagRemove(B, x)) \subseteq BagToSet(B)
BY SMT DEF BagRemove, BagToSet

LEMMA LastOfBag ==
    ASSUME NEW x
    PROVE  BagRemove(BagAdd(EmptyBag, x), x) = EmptyBag
<1>1. PICK B : B = BagAdd(EmptyBag, x)
  OBVIOUS
<1>2. B = [e \in {x} |-> 1]
  BY <1>1, AddedToBag, Zenon
<1>3. x \in DOMAIN B /\ B[x] = 1 /\ DOMAIN B \ {x} = {}
  BY <1>2, SMT
<1>4. BagRemove(B, x) = [e \in DOMAIN B \ {x} |-> B[e]]
  BY <1>3, Zenon DEF BagRemove
<1>5. [e \in DOMAIN B \ {x} |-> B[e]] = [e \in {} |-> 1]
  BY <1>3, SMT
<1>. QED  BY <1>1, <1>4, <1>5, Zenon DEF EmptyBag, SetToBag

-----------------------------------------------------------------------------
(* Chunks.                                                                   *)

LEMMA SlicesJoin ==
    ASSUME NEW S, NEW s \in Seq(S), NEW a \in Nat, NEW b \in Nat, a <= b, b <= Len(s)
    PROVE  SubSeq(s, 1, a) \o SubSeq(s, a + 1, b) = SubSeq(s, 1, b)
BY SMT

LEMMA NextChunk ==
    ASSUME NEW k \in Nat
    PROVE  /\ k * ChunkSize \in Nat /\ (k + 1) * ChunkSize = k * ChunkSize + ChunkSize
           /\ ChunkSize \in Nat /\ ChunkSize > 0
BY TransferAssumption, SMT

LEMMA PrefixOfData ==
    ASSUME data \in File, NEW j \in 0 .. Len(data)
    PROVE  /\ SubSeq(data, 1, j) \in File /\ SubSeq(data, 1, j) # Absent
           /\ IsPrefix(SubSeq(data, 1, j), data)
<1>1. SubSeq(data, 1, j) \in File
  BY SMT DEF File
<1>2. IsPrefix(SubSeq(data, 1, j), data)
  BY SMT DEF File, IsPrefix
<1>. QED  BY <1>1, <1>2, AbsentAssumption, Zenon

\* The units of k chunks, and the first units of the next one, are the first of the file.
LEMMA ChunkFollows ==
    ASSUME data \in File, NEW k \in Nat, k * ChunkSize < Len(data)
    PROVE  /\ Chunk(k) \in File
           /\ k * ChunkSize + Len(Chunk(k)) = Upto(k + 1)
           /\ \A j \in 0 .. Len(Chunk(k)) :
                  SubSeq(data, 1, k * ChunkSize) \o SubSeq(Chunk(k), 1, j)
                      = SubSeq(data, 1, k * ChunkSize + j)
<1>1. PICK a : a = k * ChunkSize
  OBVIOUS
<1>2. PICK b : b = LastOf(k)
  OBVIOUS
<1>a. PICK c : c = (k + 1) * ChunkSize
  OBVIOUS
<1>b. b = IF c < Len(data) THEN c ELSE Len(data)
  BY <1>2, <1>a, Zenon DEF LastOf
<1>c. b = Upto(k + 1)
  BY <1>b, <1>a, Zenon DEF Upto
<1>d. a \in Nat /\ c = a + ChunkSize /\ ChunkSize \in Nat /\ a < Len(data)
  BY <1>1, <1>a, NextChunk
<1>3. a \in Nat /\ b \in Nat /\ a <= b /\ b <= Len(data) /\ b = Upto(k + 1)
  <2>1. a \in Nat /\ b \in Nat /\ a <= b /\ b <= Len(data)
    BY <1>b, <1>d, SMT DEF File
  <2>. QED  BY <2>1, <1>c
<1>4. Chunk(k) = SubSeq(data, a + 1, b)
  BY <1>1, <1>2 DEF Chunk
<1>5. SubSeq(data, a + 1, b) \in File /\ Len(SubSeq(data, a + 1, b)) = b - a
  BY <1>3, SMT DEF File
<1>6. ASSUME NEW j \in 0 .. (b - a)
      PROVE  SubSeq(data, 1, a) \o SubSeq(SubSeq(data, a + 1, b), 1, j) = SubSeq(data, 1, a + j)
  <2>1. SubSeq(SubSeq(data, a + 1, b), 1, j) = SubSeq(data, a + 1, a + j)
    BY <1>3, SMT DEF File
  <2>2. a + j \in Nat /\ a <= a + j /\ a + j <= Len(data)
    BY <1>3, SMT DEF File
  <2>3. SubSeq(data, 1, a) \o SubSeq(data, a + 1, a + j) = SubSeq(data, 1, a + j)
    BY <1>3, <2>2, SlicesJoin, Zenon DEF File
  <2>. QED  BY <2>1, <2>3, Zenon
<1>7. \A j \in 0 .. (b - a) :
          SubSeq(data, 1, a) \o SubSeq(SubSeq(data, a + 1, b), 1, j) = SubSeq(data, 1, a + j)
  BY <1>6
<1>8. a + Len(SubSeq(data, a + 1, b)) = Upto(k + 1)
  BY <1>3, <1>5, SMT DEF File
<1>. QED  BY <1>1, <1>4, <1>5, <1>7, <1>8, Zenon

\* What is at the remote path once k chunks are written is what an upload may leave.
LEMMA WrittenSoFar ==
    ASSUME TypeOK, NEW k \in Nat
    PROVE  /\ Upto(k) \in 0 .. Len(data)
           /\ k # 0 => AsSent(k) \in File /\ AsSent(k) # Absent /\ IsPrefix(AsSent(k), data)
           /\ AsSent(k) = before \/ (AsSent(k) # Absent /\ IsPrefix(AsSent(k), data))
<1>1. PICK a : a = k * ChunkSize
  OBVIOUS
<1>2. a \in Nat /\ Upto(k) = IF a < Len(data) THEN a ELSE Len(data)
  BY <1>1, NextChunk DEF Upto
<1>3. Upto(k) \in 0 .. Len(data)
  BY <1>2, SMT DEF TypeOK, File
<1>. QED  BY <1>3, PrefixOfData, Zenon DEF AsSent, TypeOK

\* Files stay files, whatever script runs and whatever it does.
LEMMA OutcomesTyped ==
    ASSUME NEW s \in Scripts, NEW f \in File \cup {Absent}, NEW o \in Outcomes(s, f)
    PROVE  o.file \in File \cup {Absent} /\ o.exit \in {0, 1} /\ o.out \in File
<1>. DEFINE base == IF s.do = "append" /\ f # Absent THEN f ELSE <<>>
<1>1. base \in File /\ s.bytes \in File
  BY SMT DEF File, Scripts
<1>. HIDE DEF base
<1>2. base \o s.bytes \in File
  BY <1>1, SMT DEF File
<1>3. \A k \in 0 .. (Len(s.bytes) - 1) : base \o SubSeq(s.bytes, 1, k) \in File
  BY <1>1, SMT DEF File
<1>4. <<>> \in File
  BY SMT DEF File
<1>5. CASE s.do = "read"
  <2>1. \/ o = [file |-> f, exit |-> 1, out |-> <<>>]
        \/ f # Absent /\ o = [file |-> f, exit |-> 0, out |-> f]
    BY <1>5, SMT DEF Outcomes
  <2>. QED  BY <1>4, <2>1, SMT
<1>6. CASE s.do # "read"
  <2>1. o \in {[file |-> base \o s.bytes, exit |-> 0, out |-> <<>>],
               [file |-> f, exit |-> 1, out |-> <<>>]}
            \cup {[file |-> base \o SubSeq(s.bytes, 1, k), exit |-> 1, out |-> <<>>] :
                      k \in 0 .. (Len(s.bytes) - 1)}
    BY <1>6, Zenon DEF Outcomes, base
  <2>2. CASE o = [file |-> base \o s.bytes, exit |-> 0, out |-> <<>>]
    BY <1>2, <1>4, <2>2, SMT
  <2>3. CASE o = [file |-> f, exit |-> 1, out |-> <<>>]
    BY <1>4, <2>3, SMT
  <2>4. ASSUME NEW k \in 0 .. (Len(s.bytes) - 1),
               o = [file |-> base \o SubSeq(s.bytes, 1, k), exit |-> 1, out |-> <<>>]
        PROVE  o.file \in File \cup {Absent} /\ o.exit \in {0, 1} /\ o.out \in File
    BY <1>3, <1>4, <2>4, SMT
  <2>. QED  BY <2>1, <2>2, <2>3, <2>4, Zenon
<1>. QED  BY <1>5, <1>6

\* What the script of chunk k may do to the file that holds the chunks before it.
LEMMA UploadOutcomes ==
    ASSUME TypeOK, NEW k \in Nat, k * ChunkSize < Len(data),
           NEW o \in Outcomes(UploadScript(k), AsSent(k))
    PROVE  /\ o.exit = 0 => o.file = AsSent(k + 1)
           /\ o.file = before \/ (o.file # Absent /\ IsPrefix(o.file, data))
<1>. DEFINE s == UploadScript(k)
            base == IF s.do = "append" /\ AsSent(k) # Absent THEN AsSent(k) ELSE <<>>
<1>0. PICK a : a = k * ChunkSize
  OBVIOUS
<1>1. a \in Nat /\ a < Len(data) /\ data \in File
  BY <1>0, NextChunk, Zenon DEF TypeOK
<1>2. s.do # "read" /\ s.bytes = Chunk(k) /\ s.do = IF k = 0 THEN "create" ELSE "append"
  BY SMT DEF UploadScript
<1>3. base = SubSeq(data, 1, a)
  <2>1. CASE k = 0
    <3>1. a = 0
      BY <1>0, <2>1, NextChunk, SMT
    <3>3. s.do # "append"
      BY <1>2, <2>1
    <3>4. base = <<>>
      BY <3>3, Zenon
    <3>2. SubSeq(data, 1, 0) = <<>>
      BY <1>1, SMT DEF File
    <3>. QED  BY <3>1, <3>2, <3>4, Zenon
  <2>2. CASE k # 0
    <3>1. AsSent(k) = SubSeq(data, 1, a)
      BY <1>0, <1>1, <2>2, Zenon DEF AsSent, Upto
    <3>2. base = AsSent(k)
      BY <1>2, <2>2, WrittenSoFar, Zenon
    <3>. QED  BY <3>1, <3>2, Zenon
  <2>. QED  BY <2>1, <2>2
<1>4. PICK c : c = Chunk(k)
  OBVIOUS
<1>5. /\ c \in File /\ a + Len(c) = Upto(k + 1)
      /\ \A j \in 0 .. Len(c) : base \o SubSeq(c, 1, j) = SubSeq(data, 1, a + j)
  BY <1>0, <1>1, <1>3, <1>4, ChunkFollows, Zenon
<1>6. Upto(k + 1) \in 0 .. Len(data) /\ AsSent(k + 1) = SubSeq(data, 1, Upto(k + 1))
  <2>1. k + 1 \in Nat /\ k + 1 # 0
    BY SMT
  <2>. QED  BY <2>1, WrittenSoFar, Zenon DEF AsSent
<1>7. base \o c = AsSent(k + 1)
  <2>1. SubSeq(c, 1, Len(c)) = c /\ Len(c) \in 0 .. Len(c)
    BY <1>5, SMT DEF File
  <2>. QED  BY <1>5, <1>6, <2>1, Zenon
<1>8. \A j \in 0 .. (Len(c) - 1) : j \in 0 .. Len(c) /\ a + j \in 0 .. Len(data)
  <2>1. Len(c) \in Nat /\ Len(data) \in Nat
    BY <1>1, <1>5, SMT DEF File
  <2>2. a + Len(c) <= Len(data)
    BY <1>5, <1>6, <2>1, SMT
  <2>. QED  BY <1>1, <2>1, <2>2, SMT
<1>. HIDE DEF base, s
<1>9. o \in {[file |-> base \o c, exit |-> 0, out |-> <<>>],
             [file |-> AsSent(k), exit |-> 1, out |-> <<>>]}
          \cup {[file |-> base \o SubSeq(c, 1, j), exit |-> 1, out |-> <<>>] :
                    j \in 0 .. (Len(c) - 1)}
  BY <1>2, <1>4, Zenon DEF Outcomes, base, s
<1>10. CASE o = [file |-> base \o c, exit |-> 0, out |-> <<>>]
  BY <1>6, <1>7, <1>10, PrefixOfData, <1>1, Zenon
<1>11. CASE o = [file |-> AsSent(k), exit |-> 1, out |-> <<>>]
  <2>1. o.exit # 0 /\ o.file = AsSent(k)
    BY <1>11, SMT
  <2>. QED  BY <2>1, WrittenSoFar, Zenon
<1>12. ASSUME NEW j \in 0 .. (Len(c) - 1),
              o = [file |-> base \o SubSeq(c, 1, j), exit |-> 1, out |-> <<>>]
       PROVE  o.exit # 0 /\ o.file # Absent /\ IsPrefix(o.file, data)
  <2>1. o.exit # 0 /\ o.file = base \o SubSeq(c, 1, j)
    BY <1>12, SMT
  <2>. QED  BY <1>1, <1>5, <1>8, <2>1, PrefixOfData, Zenon
<1>. QED  BY <1>9, <1>10, <1>11, <1>12, Zenon

-----------------------------------------------------------------------------
(* The inductive invariant.                                                  *)

LEMMA RunChanged ==
    ASSUME NEW S, NEW T, NEW U, NEW r \in [script : S, exit : T, out : U],
           NEW e \in T, NEW x \in U
    PROVE  LET q == [r EXCEPT !.exit = e, !.out = x]
           IN q \in [script : S, exit : T, out : U]
                  /\ q.script = r.script /\ q.exit = e /\ q.out = x
<1>1. PICK p : p = [r EXCEPT !.exit = e]
  OBVIOUS
<1>2. p \in [script : S, exit : T, out : U] /\ p.script = r.script /\ p.exit = e
  BY <1>1, SMT
<1>3. PICK q : q = [p EXCEPT !.out = x]
  OBVIOUS
<1>4. q \in [script : S, exit : T, out : U] /\ q.script = p.script /\ q.exit = p.exit /\ q.out = x
  BY <1>2, <1>3, SMT
<1>5. q = [r EXCEPT !.exit = e, !.out = x]
  BY <1>1, <1>3, Zenon
<1>. QED  BY <1>2, <1>4, <1>5

LEMMA InitInv == Init => IInv
<1>. SUFFICES ASSUME Init PROVE IInv
  OBVIOUS
<1>1. <<>> \in File /\ <<<<0, 1>>>> \in File
  BY SMT DEF File
<1>2. BagToSet(others) = {}
  BY EmptyBagIsEmpty DEF Init
<1>3. TypeOK
  <2>1. run \in [script : Scripts, exit : 0 .. 2, out : File \cup {Undecodable}]
    BY <1>1, SMT DEF Init, NoRun, Scripts
  <2>2. lossBudget \in Nat /\ lossBudget <= MaxLosses
    BY TransferAssumption, SMT DEF Init
  <2>. QED  BY <1>1, <1>2, <2>1, <2>2, SMT DEF Init, TypeOK
<1>4. Tidy
  BY SMT DEF Init, Tidy
<1>5. Solitude
  BY DEF Init, Solitude
<1>6. Downloading
  BY SMT DEF Init, Downloading
<1>7. Uploading
  BY SMT DEF Init, Uploading, Faithful
<1>. QED  BY <1>3, <1>4, <1>5, <1>6, <1>7 DEF IInv

\* The scripts that upload_file and download_file run are scripts.
LEMMA ScriptTyped == TypeOK /\ More => Script \in Scripts
<1>. SUFFICES ASSUME TypeOK, More PROVE Script \in Scripts
  OBVIOUS
<1>1. CASE op = "upload"
  <2>1. Chunk(i) \in File
    BY <1>1, ChunkFollows, Zenon DEF More, TypeOK
  <2>. QED  BY <1>1, <2>1, SMT DEF Script, UploadScript, Scripts
<1>2. CASE op # "upload"
  <2>1. <<>> \in File
    BY SMT DEF File
  <2>. QED  BY <1>2, <2>1, SMT DEF Script, Scripts
<1>. QED  BY <1>1, <1>2

LEMMA TypeKept == TypeOK /\ [Next]_vars => TypeOK'
<1>. SUFFICES ASSUME TypeOK, [Next]_vars PROVE TypeOK'
  OBVIOUS
<1>0. /\ n \in Nat /\ i \in Nat /\ lossBudget \in Nat
      /\ run.script \in Scripts /\ run.exit \in 0 .. 2
      /\ <<>> \in File
  BY SMT DEF TypeOK, File
<1>1. CASE Call
  <2>1. n' = n + 1 /\ n' \in Nat /\ i' = 0 /\ op' \in {"upload", "download"} /\ before' = remote
        /\ UNCHANGED <<local, server, lossBudget>>
    BY <1>0, <1>1, SMT DEF Call
  <2>2. data' \in File
    <3>1. CASE data' = <<>>
      BY <1>0, <3>1
    <3>2. ASSUME NEW size \in Sizes, data' = [k \in 1 .. size |-> <<n', k>>]
          PROVE  data' \in File
      <4>1. size \in Nat
        BY TransferAssumption
      <4>2. \A k \in 1 .. size : <<n', k>> \in Nat \X Nat
        BY <2>1, SMT
      <4>. QED  BY <3>2, <4>1, <4>2, SMT DEF File
    <3>. QED  BY <1>1, <3>1, <3>2, Zenon DEF Call
  <2>3. pc' \in {"open", "idle"} /\ (pc' = "open" => result' = "none")
    <3>1. (pc' = "open" /\ result' = "none") \/ pc' = "idle"
      BY <1>1, Zenon DEF Call, Return
    <3>. QED  BY <3>1, SMT
  <2>4. run' \in [script : Scripts, exit : 0 .. 2, out : File \cup {Undecodable}]
    BY <1>0, <1>1, SMT DEF Call, NoRun, Scripts
  <2>5. BagToSet(others') \subseteq [script : Scripts, shell : 0 .. n'] /\ live' \subseteq 0 .. n'
    BY <2>1, <1>0, SMT DEF TypeOK, server
  <2>. QED  BY <2>1, <2>2, <2>3, <2>4, <2>5, <1>0, SMT DEF TypeOK, server
<1>2. CASE OpenShell
  <2>1. live' \subseteq 0 .. n
    <3>1. live' = live \cup {n} \/ live' = live
      BY <1>2, Zenon DEF OpenShell
    <3>2. n \in 0 .. n
      BY <1>0, SMT
    <3>. QED  BY <3>1, <3>2, Zenon DEF TypeOK
  <2>2. /\ pc = "open" /\ ((pc' = "loop" /\ result' = result) \/ pc' = "idle")
        /\ UNCHANGED <<caller, i, run, remote, others, lossBudget>>
    BY <1>2, Zenon DEF OpenShell, Return
  <2>. QED  BY <2>1, <2>2, SMT DEF TypeOK, caller
<1>3. CASE StartScript
  <2>1. Script \in Scripts
    BY <1>3, ScriptTyped DEF StartScript
  <2>2. run' \in [script : Scripts, exit : 0 .. 2, out : File \cup {Undecodable}]
    BY <1>0, <1>3, <2>1, SMT DEF StartScript, Running
  <2>. QED  BY <1>3, <2>2, SMT DEF StartScript, TypeOK, caller, server
<1>4. ASSUME NEW s \in Scripts, LeaveRunning(s), n' = n
      PROVE  BagToSet(others') \subseteq [script : Scripts, shell : 0 .. n']
  <2>1. BagToSet(others') = BagToSet(others) \cup {[script |-> s, shell |-> n]}
    BY <1>4, AddedToBag, Zenon DEF LeaveRunning
  <2>2. [script |-> s, shell |-> n] \in [script : Scripts, shell : 0 .. n]
    BY <1>0, SMT
  <2>. QED  BY <1>4, <2>1, <2>2, Zenon DEF TypeOK
<1>5. CASE StartAgain
  <2>1. BagToSet(others') \subseteq [script : Scripts, shell : 0 .. n']
    BY <1>4, <1>5, ScriptTyped, Zenon DEF StartAgain, TypeOK, caller
  <2>2. lossBudget' \in Nat /\ lossBudget' <= MaxLosses
    BY <1>0, <1>5, TransferAssumption, SMT DEF StartAgain, TypeOK
  <2>3. UNCHANGED <<n, op, data, before, pc, i, result, run, remote, live>>
    BY <1>5, Zenon DEF StartAgain, caller
  <2>. QED  BY <2>1, <2>2, <2>3, SMT DEF TypeOK
<1>6. CASE LoseOutput
  <2>1. PICK o \in {Undecodable, IF run.out = Undecodable THEN <<>> ELSE Tail(run.out)} :
            run' = [run EXCEPT !.out = o]
    BY <1>6, Zenon DEF LoseOutput
  <2>2. o \in File \cup {Undecodable}
    <3>1. CASE run.out = Undecodable
      BY <1>0, <2>1, <3>1, Zenon
    <3>2. CASE run.out # Undecodable
      <4>1. run.out \in File
        BY <3>2, SMT DEF TypeOK
      <4>2. run.out # <<>> /\ o \in {Undecodable, Tail(run.out)}
        BY <1>6, <2>1, <3>2, Zenon DEF LoseOutput
      <4>3. Tail(run.out) \in File
        BY <4>1, <4>2, SMT DEF File
      <4>. QED  BY <4>2, <4>3, Zenon
    <3>. QED  BY <3>1, <3>2
  <2>3. run' \in [script : Scripts, exit : 0 .. 2, out : File \cup {Undecodable}]
    BY <2>1, <2>2, SMT DEF TypeOK
  <2>4. lossBudget' \in Nat /\ lossBudget' <= MaxLosses
    BY <1>0, <1>6, TransferAssumption, SMT DEF LoseOutput, TypeOK
  <2>5. UNCHANGED <<n, op, data, before, pc, i, result, remote, others, live>>
    BY <1>6, Zenon DEF LoseOutput, caller, server
  <2>. QED  BY <2>3, <2>4, <2>5, SMT DEF TypeOK
<1>7. CASE ScriptEnds
  BY <1>0, <1>7, SMT DEF ScriptEnds, ScriptFailed, TypeOK, caller, server
<1>8. CASE RunFails
  <2>1. BagToSet(others') \subseteq [script : Scripts, shell : 0 .. n']
    BY <1>0, <1>4, <1>8, ScriptTyped, Zenon DEF RunFails, TypeOK, caller
  <2>. QED  BY <1>8, <2>1, SMT DEF RunFails, Return, TypeOK, caller
<1>9. CASE LoopEnds
  BY <1>9, SMT DEF LoopEnds, TypeOK, caller, server
<1>10. CASE Close
  <2>1. BagToSet(others') \subseteq BagToSet(others)
    BY <1>10, SMT DEF Close, BagToSet
  <2>2. lossBudget' \in Nat /\ lossBudget' <= MaxLosses /\ live' \subseteq live
    BY <1>0, <1>10, TransferAssumption, SMT DEF Close, TypeOK
  <2>3. pc' \in {"save", "idle"} /\ (pc' = "save" => op = "download" /\ result = "ok")
    BY <1>10, Zenon DEF Close
  <2>. QED  BY <1>10, <2>1, <2>2, <2>3, SMT DEF Close, TypeOK, caller
<1>11. CASE Save
  BY <1>11, SMT DEF Save, Return, TypeOK, caller, server
<1>12. CASE RunScript
  <2>1. PICK o \in Outcomes(run.script, remote) :
            remote' = o.file /\ run' = [run EXCEPT !.exit = o.exit, !.out = o.out]
    BY <1>12, Zenon DEF RunScript
  <2>2. o.file \in File \cup {Absent} /\ o.exit \in {0, 1} /\ o.out \in File
    BY <1>0, <2>1, OutcomesTyped DEF TypeOK
  <2>3. run' \in [script : Scripts, exit : 0 .. 2, out : File \cup {Undecodable}]
    <3>1. PICK e, x : e = o.exit /\ x = o.out
      OBVIOUS
    <3>2. run' = [run EXCEPT !.exit = e, !.out = x] /\ e \in 0 .. 2 /\ x \in File
      BY <2>1, <2>2, <3>1, SMT
    <3>3. run \in [script : Scripts, exit : 0 .. 2, out : File \cup {Undecodable}]
      BY DEF TypeOK
    <3>. QED  BY <3>2, <3>3, RunChanged, Zenon
  <2>. QED  BY <1>12, <2>1, <2>2, <2>3, SMT DEF RunScript, TypeOK, caller
<1>13. CASE OtherRuns
  <2>1. PICK other \in BagToSet(others) :
            /\ others' = BagRemove(others, other)
            /\ \E o \in Outcomes(other.script, remote) : remote' = o.file
    BY <1>13, Zenon DEF OtherRuns
  <2>2. other.script \in Scripts
    BY <2>1, SMT DEF TypeOK
  <2>3. remote' \in File \cup {Absent}
    BY <2>1, <2>2, OutcomesTyped, Zenon DEF TypeOK
  <2>4. BagToSet(others') \subseteq BagToSet(others)
    BY <2>1, RemovedFromBag
  <2>. QED  BY <1>13, <2>3, <2>4, SMT DEF OtherRuns, TypeOK, caller
<1>14. CASE UNCHANGED vars
  BY <1>14, SMT DEF vars, TypeOK, caller, server
<1>. QED  BY <1>1, <1>2, <1>3, <1>5, <1>6, <1>7, <1>8, <1>9, <1>10, <1>11, <1>12, <1>13, <1>14
          DEF Next, Progress

LEMMA SolitudeKept == TypeOK /\ Solitude /\ [Next]_vars => Solitude'
<1>. SUFFICES ASSUME TypeOK, Solitude, [Next]_vars PROVE Solitude'
  OBVIOUS
<1>1. CASE Call
  BY <1>1, Zenon DEF Call, Solitude, server
<1>2. CASE StartAgain \/ RunFails
  BY <1>2, Zenon DEF StartAgain, RunFails, Return, Solitude
<1>3. CASE Close
  <2>1. CASE alone' /\ result' # "error"
    <3>1. others = EmptyBag /\ others' = [o \in {other \in BagToSet(others) : other.shell # n} |-> others[o]]
      BY <1>3, <2>1, Zenon DEF Close, Solitude
    <3>2. {other \in BagToSet(others) : other.shell # n} = {}
      BY <3>1, EmptyBagIsEmpty, Zenon
    <3>3. others' = [o \in {} |-> others[o]]
      BY <3>1, <3>2, Zenon
    <3>. QED  BY <3>3, SMT DEF EmptyBag, SetToBag, Solitude
  <2>. QED  BY <2>1 DEF Solitude
<1>4. CASE OtherRuns
  BY <1>4, EmptyBagIsEmpty, Zenon DEF OtherRuns, Solitude
<1>5. CASE OpenShell \/ StartScript \/ ScriptEnds \/ LoopEnds \/ Save
  <2>1. pc \in {"open", "loop", "run", "save"}
    BY <1>5, SMT DEF OpenShell, StartScript, ScriptEnds, LoopEnds, Save
  <2>2. result # "error"
    BY <2>1, SMT DEF TypeOK
  <2>3. UNCHANGED <<others, alone>>
    BY <1>5, Zenon DEF OpenShell, StartScript, ScriptEnds, LoopEnds, Save, server
  <2>. QED  BY <2>2, <2>3, Zenon DEF Solitude
<1>6. CASE LoseOutput \/ RunScript \/ UNCHANGED vars
  BY <1>6, Zenon DEF LoseOutput, RunScript, vars, Solitude, server
<1>. QED  BY <1>1, <1>2, <1>3, <1>4, <1>5, <1>6 DEF Next, Progress

LEMMA TidyKept == TypeOK /\ Tidy /\ [Next]_vars => Tidy'
<1>. SUFFICES ASSUME TypeOK, Tidy, [Next]_vars PROVE Tidy'
  OBVIOUS
<1>0. n \in Nat /\ lossBudget \in Nat /\ lossBudget <= MaxLosses /\ MaxLosses \in Nat
  BY TransferAssumption DEF TypeOK
<1>1. CASE Call
  <2>1. n' = n + 1 /\ pc' \in {"open", "idle"} /\ (pc' = "idle" => result' = "refused")
        /\ UNCHANGED <<live, others, lossBudget>>
    BY <1>1, Zenon DEF Call, Return, server
  <2>2. n' \notin 0 .. n
    BY <1>0, <2>1, SMT
  <2>3. n' \notin live' /\ NoScriptLeft'
    BY <2>1, <2>2, SMT DEF TypeOK, NoScriptLeft
  <2>. QED  BY <2>1, <2>3, SMT DEF Tidy
<1>2. CASE OpenShell
  <2>1. /\ pc = "open" /\ (pc' = "loop" \/ (pc' = "idle" /\ result' = "error"))
        /\ UNCHANGED <<n, others>>
    BY <1>2, Zenon DEF OpenShell, Return, caller
  <2>2. NoScriptLeft'
    BY <2>1, Zenon DEF Tidy, NoScriptLeft
  <2>. QED  BY <2>1, <2>2, SMT DEF Tidy
<1>3. CASE StartAgain \/ LoseOutput
  <2>1. lossBudget' < MaxLosses
    BY <1>0, <1>3, SMT DEF StartAgain, LoseOutput
  <2>2. pc' # "open"
    BY <1>3, Zenon DEF StartAgain, LoseOutput
  <2>. QED  BY <1>0, <2>1, <2>2, SMT DEF Tidy
<1>4. CASE RunFails
  <2>1. pc' = "idle" /\ result' = "error"
    BY <1>4, Zenon DEF RunFails, Return
  <2>. QED  BY <2>1, SMT DEF Tidy
<1>5. CASE Close
  <2>1. CASE lossBudget > 0 /\ lossBudget' = lossBudget - 1
    <3>1. lossBudget' < MaxLosses /\ pc' # "open"
      BY <1>0, <1>5, <2>1, SMT DEF Close
    <3>. QED  BY <1>0, <3>1, SMT DEF Tidy
  <2>2. CASE live' = live \ {n}
             /\ others' = [o \in {other \in BagToSet(others) : other.shell # n} |-> others[o]]
    <3>1. n' = n /\ pc' # "open"
      BY <1>5, Zenon DEF Close, caller
    <3>2. n' \notin live' /\ NoScriptLeft'
      BY <2>2, <3>1, SMT DEF NoScriptLeft, BagToSet
    <3>. QED  BY <3>1, <3>2, Zenon DEF Tidy
  <2>. QED  BY <1>5, <2>1, <2>2, Zenon DEF Close
<1>6. CASE OtherRuns
  <2>1. PICK other \in BagToSet(others) : others' = BagRemove(others, other)
    BY <1>6, Zenon DEF OtherRuns
  <2>2. BagToSet(others') \subseteq BagToSet(others)
    BY <2>1, RemovedFromBag
  <2>3. UNCHANGED <<n, pc, result, live, lossBudget>>
    BY <1>6, Zenon DEF OtherRuns, caller
  <2>4. NoScriptLeft => NoScriptLeft'
    BY <2>2, <2>3, Zenon DEF NoScriptLeft
  <2>. QED  BY <2>3, <2>4, SMT DEF Tidy
<1>7. CASE ScriptEnds \/ LoopEnds \/ StartScript \/ Save \/ RunScript \/ UNCHANGED vars
  <2>1. UNCHANGED <<n, live, others, lossBudget>>
    BY <1>7, Zenon DEF ScriptEnds, LoopEnds, StartScript, Save, RunScript, vars, caller, server
  <2>2. NoScriptLeft' = NoScriptLeft
    BY <2>1, Zenon DEF NoScriptLeft
  <2>3. \/ pc \in {"loop", "run"} /\ pc' \in {"loop", "run", "close"}
        \/ pc = "save" /\ pc' = "idle"
        \/ UNCHANGED <<pc, result>>
    <3>1. CASE Save
      BY <3>1, Zenon DEF Save, Return
    <3>2. CASE ScriptEnds \/ LoopEnds \/ StartScript
      BY <3>2, SMT DEF ScriptEnds, ScriptFailed, LoopEnds, StartScript
    <3>3. CASE RunScript \/ UNCHANGED vars
      BY <3>3, Zenon DEF RunScript, vars
    <3>. QED  BY <1>7, <3>1, <3>2, <3>3, Zenon
  <2>. QED  BY <2>1, <2>2, <2>3, SMT DEF Tidy
<1>. QED  BY <1>1, <1>2, <1>3, <1>4, <1>5, <1>6, <1>7 DEF Next, Progress

\* A script that reads leaves the file as it is and prints all of it or fails.
LEMMA ReadOutcomes ==
    ASSUME NEW s, s.do = "read", NEW f, NEW o \in Outcomes(s, f)
    PROVE  o.file = f /\ (o.exit = 0 => o.out = f)
BY SMT DEF Outcomes

LEMMA DownloadingKept == TypeOK /\ Solitude /\ Downloading /\ [Next]_vars => Downloading'
<1>. SUFFICES ASSUME TypeOK, Solitude, Downloading, [Next]_vars,
                     op' = "download", alone', whole'
              PROVE  Downloading'
  BY DEF Downloading
<1>1. CASE Call
  <2>1. /\ i' = 0 /\ ((pc' = "open" /\ result' = "none") \/ (pc' = "idle" /\ result' = "refused"))
    BY <1>1, Zenon DEF Call, Return
  <2>. QED  BY <2>1, SMT DEF Downloading
<1>2. CASE OpenShell
  <2>1. /\ pc = "open" /\ (pc' = "loop" \/ (pc' = "idle" /\ result' = "error"))
        /\ UNCHANGED <<op, alone, whole, i>>
    BY <1>2, Zenon DEF OpenShell, Return, caller
  <2>. QED  BY <2>1, SMT DEF Downloading
<1>a. CASE RunFails
  <2>1. pc' = "idle" /\ result' = "error"
    BY <1>a, Zenon DEF RunFails, Return
  <2>. QED  BY <2>1, SMT DEF Downloading
<1>3. CASE StartScript
  <2>1. op = "download" /\ pc' = "run" /\ run' = [script |-> Script, exit |-> Running, out |-> <<>>]
    BY <1>3, Zenon DEF StartScript, caller
  <2>2. Script.do = "read"
    BY <2>1, SMT DEF Script
  <2>. QED  BY <2>1, <2>2, SMT DEF Downloading, Running
<1>4. CASE StartAgain
  <2>1. pc = "loop" /\ UNCHANGED <<op, pc, i, alone, whole, run, remote>>
    BY <1>4, Zenon DEF StartAgain, caller
  <2>. QED  BY <2>1, SMT DEF Downloading
<1>5. CASE LoseOutput
  BY <1>5, SMT DEF LoseOutput
<1>6. CASE ScriptEnds
  BY <1>6, SMT DEF ScriptEnds, Accepted, ScriptFailed, Downloading, caller, server
<1>7. CASE LoopEnds
  BY <1>7, SMT DEF LoopEnds, More, Downloading, caller, server
<1>8. CASE Close
  <2>1. op = "download" /\ alone /\ whole /\ UNCHANGED <<result, run, remote>>
    BY <1>8, Zenon DEF Close, caller
  <2>2. pc = "close" /\ pc' = IF result = "ok" THEN "save" ELSE "idle"
    BY <1>8, <2>1, Zenon DEF Close
  <2>3. result = "ok" => run.out = remote
    BY <2>1, <2>2, SMT DEF Downloading
  <2>. QED  BY <2>1, <2>2, <2>3, SMT DEF Downloading
<1>9. CASE Save
  BY <1>9, SMT DEF Save, Saved, Return, Downloading, caller, server, TypeOK
<1>10. CASE RunScript
  <2>1. PICK o \in Outcomes(run.script, remote) :
            remote' = o.file /\ run' = [run EXCEPT !.exit = o.exit, !.out = o.out]
    BY <1>10, Zenon DEF RunScript
  <2>2. op = "download" /\ alone /\ whole /\ pc = "run" /\ pc' = "run"
    BY <1>10, Zenon DEF RunScript, caller
  <2>3. run.script.do = "read"
    BY <2>2, Zenon DEF Downloading
  <2>4. o.file = remote /\ (o.exit = 0 => o.out = remote)
    BY <2>3, ReadOutcomes
  <2>5. run.script \in Scripts /\ o.exit \in 0 .. 2 /\ o.out \in File \cup {Undecodable}
    <3>1. run.script \in Scripts /\ remote \in File \cup {Absent}
      BY SMT DEF TypeOK
    <3>2. o.exit \in {0, 1} /\ o.out \in File
      BY <2>1, <3>1, OutcomesTyped
    <3>. QED  BY <3>1, <3>2, SMT
  <2>6. run'.script = run.script /\ run'.exit = o.exit /\ run'.out = o.out
    BY <2>1, <2>5, RunChanged, Zenon DEF TypeOK
  <2>. QED  BY <2>1, <2>2, <2>3, <2>4, <2>6, SMT DEF Downloading
<1>11. CASE OtherRuns
  <2>1. others # EmptyBag /\ UNCHANGED <<op, pc, i, run, result, alone, whole, local>>
    BY <1>11, EmptyBagIsEmpty, Zenon DEF OtherRuns, caller
  <2>2. result = "error"
    BY <2>1, Zenon DEF Solitude
  <2>3. pc = "idle"
    BY <2>2, SMT DEF TypeOK
  <2>. QED  BY <2>1, <2>2, <2>3, SMT DEF Downloading
<1>12. CASE UNCHANGED vars
  BY <1>12, Zenon DEF vars, caller, server, Downloading
<1>. QED  BY <1>1, <1>2, <1>a, <1>3, <1>4, <1>5, <1>6, <1>7, <1>8, <1>9, <1>10, <1>11, <1>12
          DEF Next, Progress

\* What an upload speaks of, where the caller's variables and the file stay.
LEMMA UploadUnmoved ==
    ASSUME UNCHANGED <<caller, i>>
    PROVE  /\ \A k : AsSent(k)' = AsSent(k) /\ UploadScript(k)' = UploadScript(k)
           /\ (i * ChunkSize < Len(data))' <=> i * ChunkSize < Len(data)
           /\ (i * ChunkSize >= Len(data))' <=> i * ChunkSize >= Len(data)
           /\ remote' = remote => (Faithful' <=> Faithful)
BY Zenon DEF caller, AsSent, Upto, UploadScript, Chunk, LastOf, Faithful

LEMMA UploadingKept == TypeOK /\ Solitude /\ Uploading /\ [Next]_vars => Uploading'
<1>. SUFFICES ASSUME TypeOK, Solitude, Uploading, [Next]_vars, op' = "upload", alone'
              PROVE  Uploading'
  BY DEF Uploading
<1>0. i \in Nat /\ data \in File
  BY DEF TypeOK
<1>1. CASE Call
  <2>1. /\ i' = 0 /\ others' = others /\ remote' = remote /\ before' = remote
        /\ (pc' = "open" \/ (pc' = "idle" /\ result' = "refused"))
        /\ others = EmptyBag
    BY <1>1, Zenon DEF Call, Return, server
  <2>. QED  BY <2>1, SMT DEF Uploading, Faithful
<1>2. CASE OpenShell
  <2>1. /\ pc = "open" /\ UNCHANGED <<caller, i, remote, others, alone>>
        /\ ((pc' = "loop" /\ result' = result) \/ (pc' = "idle" /\ result' = "error"))
    BY <1>2, Zenon DEF OpenShell, Return
  <2>2. i' = 0 /\ remote' = before' /\ Faithful'
    BY <2>1, Zenon DEF Uploading, Faithful, caller
  <2>3. AsSent(i)' = before'
    BY <2>2, Zenon DEF AsSent
  <2>4. others' = EmptyBag
    <3>1. result # "error"
      BY <2>1, SMT DEF TypeOK
    <3>. QED  BY <2>1, <3>1, Zenon DEF Solitude
  <2>. QED  BY <2>1, <2>2, <2>3, <2>4, SMT DEF Uploading
<1>3. CASE StartScript
  <2>1. /\ pc = "loop" /\ More /\ pc' = "run" /\ UNCHANGED <<caller, i, remote, alone>>
        /\ run' = [script |-> Script, exit |-> Running, out |-> <<>>]
    BY <1>3, Zenon DEF StartScript, server
  <2>2. op = "upload" /\ i * ChunkSize < Len(data) /\ Script = UploadScript(i) /\ remote = AsSent(i)
    BY <2>1, SMT DEF More, Script, caller, Uploading
  <2>3. run'.script = UploadScript(i) /\ run'.exit = Running
    BY <2>1, <2>2, SMT
  <2>4. Faithful
    BY <1>0, <2>2, WrittenSoFar, Zenon DEF Faithful
  <2>. QED  BY <2>1, <2>2, <2>3, <2>4, UploadUnmoved, SMT DEF Uploading, Running
<1>4. CASE StartAgain
  <2>1. pc = "loop" /\ UNCHANGED <<caller, i, pc, remote, others, alone, run, result>>
    BY <1>4, Zenon DEF StartAgain
  <2>2. op = "upload" /\ remote = AsSent(i)
    BY <2>1, SMT DEF Uploading, caller
  <2>. QED  BY <2>1, <2>2, UploadUnmoved, SMT DEF Uploading
<1>5. CASE LoseOutput
  <2>1. PICK o : pc = "run" /\ run' = [run EXCEPT !.out = o] /\ UNCHANGED <<caller, i, pc, remote, alone>>
    BY <1>5, Zenon DEF LoseOutput, server
  <2>2. run'.script = run.script /\ run'.exit = run.exit
    BY <2>1, SMT DEF TypeOK
  <2>3. op = "upload"
    BY <2>1, Zenon DEF caller
  <2>. QED  BY <2>1, <2>2, <2>3, UploadUnmoved, SMT DEF Uploading
<1>6. CASE ScriptEnds
  <2>1. op = "upload" /\ pc = "run" /\ alone /\ UNCHANGED <<caller, remote, run>>
    BY <1>6, Zenon DEF ScriptEnds, caller, server
  <2>2. CASE run.exit = 0
    <3>1. i' = i + 1 /\ pc' = "loop" /\ remote = AsSent(i + 1)
      BY <1>6, <2>1, <2>2, SMT DEF ScriptEnds, Accepted, Uploading
    <3>2. AsSent(i)' = AsSent(i + 1)
      BY <2>1, <3>1, Zenon DEF AsSent, Upto, caller
    <3>. QED  BY <2>1, <3>1, <3>2, SMT DEF Uploading
  <2>3. CASE run.exit # 0
    <3>1. i' = i /\ pc' = "close" /\ result' = "script_failed"
      BY <1>6, <2>3, Zenon DEF ScriptEnds, Accepted, ScriptFailed
    <3>2. Faithful
      BY <2>1, SMT DEF Uploading
    <3>. QED  BY <2>1, <3>1, <3>2, UploadUnmoved, SMT DEF Uploading
  <2>. QED  BY <2>2, <2>3
<1>7. CASE RunFails
  <2>1. /\ op = "upload" /\ alone /\ pc' = "idle" /\ result' = "error" /\ result # "error"
        /\ UNCHANGED <<caller, i, remote>>
    BY <1>7, SMT DEF RunFails, Return, caller, TypeOK
  <2>2. others = EmptyBag
    BY <2>1, Zenon DEF Solitude
  <2>3. Faithful
    <3>1. CASE pc = "run"
      BY <2>1, <3>1, SMT DEF Uploading
    <3>2. CASE pc = "loop"
      <4>1. remote = AsSent(i)
        BY <2>1, <3>2, SMT DEF Uploading
      <4>. QED  BY <1>0, <4>1, WrittenSoFar, Zenon DEF Faithful
    <3>. QED  BY <1>7, <3>1, <3>2, Zenon DEF RunFails
  <2>4. Faithful'
    BY <2>1, <2>3, UploadUnmoved
  <2>5. CASE others' = others
    BY <2>1, <2>2, <2>4, <2>5, SMT DEF Uploading
  <2>6. CASE others' # others
    <3>1. LeaveRunning(UploadScript(i)) /\ i * ChunkSize < Len(data) /\ remote = AsSent(i)
      <4>1. CASE pc = "run" /\ run.exit = Running /\ LeaveRunning(run.script)
        BY <2>1, <4>1, SMT DEF Uploading
      <4>2. CASE pc = "loop" /\ More /\ LeaveRunning(Script)
        BY <2>1, <4>2, SMT DEF Uploading, More, Script
      <4>. QED  BY <1>7, <2>6, <4>1, <4>2, SMT DEF RunFails
    <3>2. others' = BagAdd(EmptyBag, [script |-> UploadScript(i), shell |-> n])
      BY <2>2, <3>1, Zenon DEF LeaveRunning
    <3>3. LastScriptRuns'
      BY <2>1, <3>1, <3>2, UploadUnmoved, Zenon DEF LastScriptRuns, caller
    <3>. QED  BY <2>1, <3>3, SMT DEF Uploading
  <2>. QED  BY <2>5, <2>6
<1>8. CASE LoopEnds
  <2>1. /\ pc = "loop" /\ ~More /\ pc' = "close" /\ result' = "ok" /\ op = "upload" /\ alone
        /\ UNCHANGED <<caller, i, remote>>
    BY <1>8, Zenon DEF LoopEnds, caller, server
  <2>2. PICK a : a = i * ChunkSize
    OBVIOUS
  <2>3. a \in Nat /\ ~(a < Len(data))
    BY <1>0, <2>1, <2>2, NextChunk, Zenon DEF More
  <2>4. i * ChunkSize >= Len(data)
    BY <1>0, <2>2, <2>3, SMT DEF File
  <2>5. remote = AsSent(i)
    BY <2>1, SMT DEF Uploading
  <2>6. Faithful
    BY <1>0, <2>5, WrittenSoFar, Zenon DEF Faithful
  <2>. QED  BY <2>1, <2>4, <2>5, <2>6, UploadUnmoved, SMT DEF Uploading
<1>9. CASE Close
  <2>0. /\ pc = "close" /\ op = "upload" /\ alone
        /\ pc' = (IF op = "download" /\ result = "ok" THEN "save" ELSE "idle")
        /\ UNCHANGED <<caller, i, remote, result>>
    BY <1>9, Zenon DEF Close, caller
  <2>1. /\ pc = "close" /\ op = "upload" /\ alone /\ pc' = "idle"
        /\ UNCHANGED <<caller, i, remote, result>>
    BY <2>0
  <2>2. alone /\ result # "error"
    BY <2>1, SMT DEF TypeOK
  <2>3. others' = EmptyBag
    BY <1>9, <2>1, <2>2, SolitudeKept, Zenon DEF Solitude
  <2>. QED  BY <2>1, <2>2, <2>3, UploadUnmoved, SMT DEF Uploading
<1>10. CASE Save
  BY <1>10, SMT DEF Save, TypeOK, caller
<1>11. CASE RunScript
  <2>1. PICK o \in Outcomes(run.script, remote) :
            remote' = o.file /\ run' = [run EXCEPT !.exit = o.exit, !.out = o.out]
    BY <1>11, Zenon DEF RunScript
  <2>2. /\ op = "upload" /\ alone /\ pc = "run" /\ pc' = "run" /\ run.exit = Running
        /\ UNCHANGED <<caller, i>>
    BY <1>11, Zenon DEF RunScript, caller
  <2>3. run.script = UploadScript(i) /\ i * ChunkSize < Len(data) /\ remote = AsSent(i)
    BY <2>2, SMT DEF Uploading
  <2>4. /\ o.exit = 0 => o.file = AsSent(i + 1)
        /\ o.file = before \/ (o.file # Absent /\ IsPrefix(o.file, data))
    BY <1>0, <2>1, <2>3, UploadOutcomes, Zenon
  <2>5. o.exit \in {0, 1} /\ o.out \in File
    <3>1. run.script \in Scripts /\ remote \in File \cup {Absent}
      BY SMT DEF TypeOK
    <3>. QED  BY <2>1, <3>1, OutcomesTyped
  <2>6. o.exit \in 0 .. 2 /\ o.out \in File \cup {Undecodable}
    BY <2>5, SMT
  <2>7. run'.script = run.script /\ run'.exit = o.exit
    BY <2>1, <2>6, RunChanged, Zenon DEF TypeOK
  <2>8. Faithful'
    BY <2>1, <2>2, <2>4, Zenon DEF Faithful, caller
  <2>9. AsSent(i + 1)' = AsSent(i + 1)
    BY <2>2, Zenon DEF AsSent, Upto, caller
  <2>. QED  BY <2>1, <2>2, <2>3, <2>4, <2>5, <2>7, <2>8, <2>9, UploadUnmoved, SMT DEF Uploading, Running
<1>12. CASE OtherRuns
  <2>1. PICK other \in BagToSet(others) :
            /\ others' = BagRemove(others, other)
            /\ \E o \in Outcomes(other.script, remote) : remote' = o.file
    BY <1>12, Zenon DEF OtherRuns
  <2>2. op = "upload" /\ alone /\ others # EmptyBag /\ UNCHANGED <<caller, i, pc, result>>
    BY <1>12, EmptyBagIsEmpty, Zenon DEF OtherRuns, caller
  <2>3. result = "error" /\ pc = "idle"
    BY <2>2, Zenon DEF Solitude, TypeOK
  <2>4. LastScriptRuns
    BY <2>2, <2>3, SMT DEF Uploading
  <2>5. PICK x : x = [script |-> UploadScript(i), shell |-> n]
    OBVIOUS
  <2>6. others = BagAdd(EmptyBag, x)
    BY <2>4, <2>5, Zenon DEF LastScriptRuns
  <2>7. other = x /\ others' = EmptyBag
    <3>1. BagToSet(others) = {x}
      <4>1. BagToSet(others) = BagToSet(EmptyBag) \cup {x}
        BY <2>6, AddedToBag, Zenon
      <4>. QED  BY <4>1, EmptyBagIsEmpty, SMT
    <3>2. other = x
      BY <2>1, <3>1
    <3>. QED  BY <2>1, <2>6, <3>2, LastOfBag, Zenon
  <2>8. other.script = UploadScript(i)
    BY <2>5, <2>7, SMT
  <2>9. remote' = before \/ (remote' # Absent /\ IsPrefix(remote', data))
    BY <1>0, <2>1, <2>4, <2>8, UploadOutcomes, Zenon DEF LastScriptRuns
  <2>10. Faithful'
    BY <2>2, <2>9, Zenon DEF Faithful, caller
  <2>. QED  BY <2>2, <2>3, <2>7, <2>10, SMT DEF Uploading
<1>13. CASE UNCHANGED vars
  BY <1>13, Zenon DEF vars, server, caller, Uploading, Faithful, LastScriptRuns,
                      AsSent, Upto, UploadScript, Chunk, LastOf
<1>. QED  BY <1>1, <1>2, <1>3, <1>4, <1>5, <1>6, <1>7, <1>8, <1>9, <1>10, <1>11, <1>12, <1>13
          DEF Next, Progress

-----------------------------------------------------------------------------
(* What the transfers promise.                                               *)

\* The invariant behind the theorems below: what each step of a transfer knows
\* of the remote file, of the scripts that still run and of its own output.
THEOREM Invariant == Spec => []IInv
<1>1. IInv /\ [Next]_vars => IInv'
  BY TypeKept, TidyKept, SolitudeKept, DownloadingKept, UploadingKept, Zenon DEF IInv
<1>. QED  BY InitInv, <1>1, PTL DEF Spec

\* However an upload ends, the remote file is what it was or the beginning of
\* the local file, and all of it when upload_file returns Ok.
THEOREM UploadsAreFaithful == Spec => []UploadIsFaithful
<1>1. IInv => UploadIsFaithful
  <2>. SUFFICES ASSUME IInv PROVE UploadIsFaithful
    OBVIOUS
  <2>0. TypeOK /\ Solitude /\ Uploading /\ i \in Nat /\ data \in File
    BY DEF IInv, TypeOK
  <2>1. ASSUME op = "upload", alone, others = EmptyBag
        PROVE  Faithful
    <3>1. CASE pc = "idle"
      <4>1. CASE LastScriptRuns
        BY <2>0, <4>1, WrittenSoFar, Zenon DEF LastScriptRuns, Faithful
      <4>. QED  BY <2>0, <2>1, <3>1, <4>1, SMT DEF Uploading
    <3>2. CASE pc = "open"
      BY <2>0, <2>1, <3>2, SMT DEF Uploading, Faithful
    <3>3. CASE pc = "loop"
      <4>1. remote = AsSent(i)
        BY <2>0, <2>1, <3>3, SMT DEF Uploading
      <4>. QED  BY <2>0, <4>1, WrittenSoFar, Zenon DEF Faithful
    <3>4. CASE pc \in {"run", "close"}
      BY <2>0, <2>1, <3>4, SMT DEF Uploading
    <3>. QED  BY <2>0, <2>1, <3>1, <3>2, <3>3, <3>4, SMT DEF TypeOK
  <2>2. ASSUME Returned("upload", "ok"), alone, data # <<>>
        PROVE  remote = data
    <3>1. remote = AsSent(i) /\ i * ChunkSize >= Len(data)
      BY <2>0, <2>2, SMT DEF Uploading, Returned
    <3>2. PICK a : a = i * ChunkSize
      OBVIOUS
    <3>3. Len(data) \in Nat /\ Len(data) > 0 /\ a >= Len(data) /\ a \in Nat
      <4>1. a \in Nat
        BY <2>0, <3>2, NextChunk
      <4>2. Len(data) \in Nat /\ Len(data) > 0
        BY <2>0, <2>2, SMT DEF File
      <4>. QED  BY <3>1, <3>2, <4>1, <4>2, Zenon
    <3>4. i # 0
      <4>1. 0 * ChunkSize = 0
        BY NextChunk, SMT
      <4>. QED  BY <3>2, <3>3, <4>1, SMT
    <3>5. Upto(i) = Len(data)
      BY <3>2, <3>3, SMT DEF Upto
    <3>6. SubSeq(data, 1, Len(data)) = data
      BY <2>0, SMT DEF File
    <3>. QED  BY <3>1, <3>4, <3>5, <3>6, Zenon DEF AsSent
  <2>. QED  BY <2>1, <2>2, Zenon DEF UploadIsFaithful, Faithful
<1>. QED  BY <1>1, Invariant, PTL

\* A download that returns Ok, with no script of others beside it and no lost
\* answer, has written the remote file to the local path.
THEOREM DownloadsAreFaithful == Spec => []DownloadIsFaithful
<1>1. IInv => DownloadIsFaithful
  BY SMT DEF IInv, Downloading, DownloadIsFaithful, Returned
<1>. QED  BY <1>1, Invariant, PTL

\* A transfer that returns, unless with the error of a failed command or after a
\* lost answer, has deleted its shell and left no script that could still write.
THEOREM NothingIsLeft == Spec => []NothingLeftUnlessError
<1>1. IInv => NothingLeftUnlessError
  BY SMT DEF IInv, Tidy, NoScriptLeft, NothingLeftUnlessError
<1>. QED  BY <1>1, Invariant, PTL

===============================================================================
