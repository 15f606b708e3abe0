---------------------------- MODULE MCShellHandle ----------------------------
(* Instances of ShellHandle: scenarios are budgets of calls and of faults.     *)
EXTENDS ShellHandle, TLC

CONSTANTS w1, w2

TwoWorkers == {w1, w2}

\* Texts with reserved characters: of a command line, an argument, a password.
Reserved == {"a & b", "<c>"}

Configuration ==
    [endpoint |-> Plain("http://host:5985/wsman"), session |-> "session", timeout |-> 60,
     maxEnvelope |-> 153600, codepage |-> 65001, workingDirectory |-> Plain("a & b"),
     envNames |-> <<Plain("name")>>, envValues |-> <<Plain("<c>")>>, idle |-> None]

\* Each authentication, and each way the service may write its tags.
Servers == {[method |-> "basic", prefix |-> "rsp"], [method |-> "certificate", prefix |-> ""],
            [method |-> "kerberos", prefix |-> "rsp"]}

FourShells   == <<"S1", "S2", "S3", "S4">>
FourCommands == <<"C1", "C2", "C3", "C4">>
TwoProposals == <<"P1", "P2">>

Nothing == [opens |-> 0, starts |-> 0, receives |-> 0, sends |-> 0, signals |-> 0, ends |-> 0,
          reconnects |-> 0, losses |-> 0, refusals |-> 0, cancels |-> 0]

\* Shells that come and go, with a fault of each kind.
Lives == {[Nothing EXCEPT !.opens = 2, !.ends = 2, !.reconnects = 1, ![fault] = 1] :
             fault \in {"losses", "refusals", "cancels"}}

\* A command fed by two workers.
Feeds == {[Nothing EXCEPT !.opens = 1, !.starts = 1, !.sends = 2, ![fault] = 1] :
             fault \in {"losses", "cancels"}}

\* A command read by two workers.
Reads == {[Nothing EXCEPT !.opens = 1, !.starts = 1, !.receives = 3, ![fault] = 1] :
             fault \in {"losses", "cancels"}}

\* Two commands, interrupted and read while their shell goes away.
Signals == {[Nothing EXCEPT !.opens = 1, !.starts = 2, !.signals = 1, !.ends = 1, !.receives = 1,
                            ![fault] = 1] : fault \in {"losses", "refusals"}}

Scenarios == Lives \cup Feeds \cup Reads \cup Signals

Symmetric == Permutations(Workers)

=============================================================================
