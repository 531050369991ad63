--------------------------- MODULE ServerListening ---------------------------
(***************************************************************************)
(* The start and the close of servers that look for a port to listen on.   *)
(* A start first binds the port with a probe, closes the probe, and then   *)
(* binds the port again for the server; between the two the port is        *)
(* anyone's, and the probe itself holds it from another start.             *)
(***************************************************************************)
EXTENDS Naturals, Sequences, FiniteSetsExt

CONSTANTS
  Servers,      \* the processes that start a server of the project
  Settings,     \* what a start may be given: a record of mode, option, env,
                \* devPort, startPort, appPort, runtimePort and fallback
  MaxPort,      \* the last port there is
  MaxAttempts,  \* how many ports a start tries; 25 in the code
  MaxMoves,     \* how often other programs take or leave a port
  None          \* no value, or one that is not a port

VARIABLES
  setting,  \* what each start was given
  phase,    \* how far each start has come
  port,     \* the port each start is at
  tries,    \* the ports a start has gone past
  held,     \* the ports of other programs
  quiet,    \* nobody else took or left a port since the start
  moves

vars == <<setting, phase, port, tries, held, quiet, moves>>

Ports == 0..MaxPort

\* resolvePreferredPort: the first candidate that is a port, those of the config after the
\* option and the environment.
DefaultPort == 1
Candidates(c) ==
  <<c.option, c.env, IF c.mode = "development" THEN c.devPort ELSE c.startPort, c.appPort,
    c.runtimePort, DefaultPort>>
FirstGiven(s) == s[Min({i \in DOMAIN s : s[i] # None})]
Preferred(c) == FirstGiven(Candidates(c))

Init ==
  /\ setting \in [Servers -> Settings]
  /\ phase = [s \in Servers |-> "idle"] /\ port = [s \in Servers |-> None]
  /\ tries = [s \in Servers |-> 0]
  /\ held \in SUBSET (1..MaxPort)
  /\ quiet = [s \in Servers |-> TRUE] /\ moves = 0

Binds(s) == phase[s] \in {"probed", "listening"}
Free(p) == p \notin held /\ \A s \in Servers : Binds(s) => port[s] # p
Others(s) == [t \in Servers |-> quiet[t] /\ t = s]

Start(s) ==
  /\ phase[s] = "idle"
  /\ phase' = [phase EXCEPT ![s] = "looking"]
  /\ port' = [port EXCEPT ![s] = Preferred(setting[s])]
  /\ tries' = [tries EXCEPT ![s] = 0]
  /\ quiet' = [quiet EXCEPT ![s] = \A t \in Servers \ {s} : phase[t] \in {"idle", "listening", "failed"}]
  /\ UNCHANGED <<setting, held, moves>>

\* Mutant: the port that was taken is tried again.
SamePort(s) == port' = port
NextPort(s) == port' = [port EXCEPT ![s] = @ + 1]

\* isPortAvailable finds the port taken: the next one, or the end.
ProbeFails(s) ==
  /\ phase[s] = "looking" /\ port[s] \in 1..MaxPort /\ ~Free(port[s]) /\ tries[s] < MaxAttempts
  /\ IF setting[s].fallback
       THEN NextPort(s) /\ tries' = [tries EXCEPT ![s] = @ + 1] /\ UNCHANGED phase
       ELSE phase' = [phase EXCEPT ![s] = "failed"] /\ UNCHANGED <<port, tries>>
  /\ quiet' = [t \in Servers |-> quiet[t] /\ t = s]
  /\ UNCHANGED <<setting, held, moves>>

ProbeBinds(s) ==
  /\ phase[s] = "looking" /\ port[s] \in 1..MaxPort /\ Free(port[s]) /\ tries[s] < MaxAttempts
  /\ phase' = [phase EXCEPT ![s] = "probed"]
  /\ quiet' = Others(s)
  /\ UNCHANGED <<setting, port, tries, held, moves>>

\* Mutant: the probe is taken for closed while it still holds the port.
ClosedTooLate(s) == "failed"
ClosedFirst(s) == "binding"

\* probe.close calls back once the port is free again.
ProbeCloses(s) ==
  /\ phase[s] = "probed"
  /\ phase' = [phase EXCEPT ![s] = ClosedFirst(s)]
  /\ quiet' = Others(s)
  /\ UNCHANGED <<setting, port, tries, held, moves>>

\* No probe for port 0, for which the system picks a port that is free.
AnyPort(s) ==
  /\ phase[s] = "looking" /\ port[s] = 0 /\ tries[s] < MaxAttempts
  /\ \E p \in {q \in 1..MaxPort : Free(q)} :
       port' = [port EXCEPT ![s] = p] /\ phase' = [phase EXCEPT ![s] = "listening"]
  /\ quiet' = Others(s)
  /\ UNCHANGED <<setting, tries, held, moves>>

\* No attempt is left, or the number is none a port can have.
GivesUp(s) ==
  /\ phase[s] = "looking" /\ (tries[s] = MaxAttempts \/ port[s] \notin Ports)
  /\ phase' = [phase EXCEPT ![s] = "failed"]
  /\ UNCHANGED <<setting, port, tries, held, quiet, moves>>

\* listenOnce: an error is the end of the start, with or without a fallback.
Listen(s) ==
  /\ phase[s] = "binding"
  /\ phase' = [phase EXCEPT ![s] = IF Free(port[s]) THEN "listening" ELSE "failed"]
  /\ quiet' = Others(s)
  /\ UNCHANGED <<setting, port, tries, held, moves>>

Close(s) ==
  /\ phase[s] = "listening" /\ moves < MaxMoves /\ moves' = moves + 1
  /\ phase' = [phase EXCEPT ![s] = "idle"] /\ quiet' = Others(s)
  /\ UNCHANGED <<setting, port, tries, held>>

\* Another program takes or leaves a port.
Elsewhere ==
  /\ moves < MaxMoves /\ moves' = moves + 1
  /\ \E p \in 1..MaxPort :
       \/ Free(p) /\ held' = held \cup {p}
       \/ p \in held /\ held' = held \ {p}
  /\ quiet' = [s \in Servers |-> FALSE]
  /\ UNCHANGED <<setting, phase, port, tries>>

Next ==
  \/ \E s \in Servers :
       \/ Start(s) \/ ProbeFails(s) \/ ProbeBinds(s) \/ ProbeCloses(s)
       \/ AnyPort(s) \/ GivesUp(s) \/ Listen(s) \/ Close(s)
  \/ Elsewhere

Spec == Init /\ [][Next]_vars

-----------------------------------------------------------------------------
(* A start nobody disturbs listens on the first free port at or after the  *)
(* one it prefers, and fails only if it may not look further than that     *)
(* port, or if none of those it may try is free.                           *)
From(s) == Preferred(setting[s])
Tried(s) ==
  {p \in 1..MaxPort : p >= From(s) /\ p < From(s) + MaxAttempts /\ (setting[s].fallback \/ p = From(s))}
Taken(s, p) == p \in held \/ \E t \in Servers \ {s} : Binds(t) /\ port[t] = p
LoneStartListens ==
  \A s \in Servers :
    quiet[s] /\ From(s) # 0 =>
      /\ phase[s] = "listening" =>
           port[s] \in Tried(s) /\ \A p \in Tried(s) : p < port[s] => Taken(s, p)
      /\ phase[s] = "failed" => \A p \in Tried(s) : Taken(s, p)

(* Starts that race for a port cost each other a port or the start, but    *)
(* they do not all fail: where no other program took a port, the free port *)
(* all of them prefer is listened on when they have ended.                 *)
SomeStartListens ==
  (/\ \A s \in Servers : phase[s] \in {"listening", "failed"} /\ From(s) = DefaultPort
   /\ moves = 0 /\ DefaultPort \notin held) =>
    \E s \in Servers : phase[s] = "listening"

-----------------------------------------------------------------------------
(* Why a start does: the inductive invariant.                              *)
Phases == {"idle", "looking", "probed", "binding", "listening", "failed"}
TypeOK ==
  /\ setting \in [Servers -> Settings] /\ phase \in [Servers -> Phases]
  /\ port \in [Servers -> Nat \cup {None}] /\ tries \in [Servers -> 0..MaxAttempts]
  /\ held \subseteq 1..MaxPort /\ quiet \in [Servers -> BOOLEAN] /\ moves \in 0..MaxMoves
  /\ \A s \in Servers : phase[s] # "idle" => port[s] \in Nat
  /\ \A s \in Servers : phase[s] \in {"probed", "binding", "listening"} => port[s] \in 1..MaxPort

\* The ports a lone start has gone past are taken, and the one it found free still is.
PastIsTaken(s) ==
  /\ port[s] = From(s) + tries[s]
  /\ tries[s] > 0 => setting[s].fallback
  /\ \A p \in 1..MaxPort : p >= From(s) /\ p < port[s] => Taken(s, p)
  /\ phase[s] \in {"probed", "binding", "listening"} => tries[s] < MaxAttempts
  /\ phase[s] \in {"probed", "binding"} => ~Taken(s, port[s])
  /\ phase[s] = "failed" => \A p \in Tried(s) : Taken(s, p)
PastPortsAreTaken ==
  \A s \in Servers : quiet[s] /\ From(s) # 0 /\ phase[s] # "idle" => PastIsTaken(s)

\* Of those that race for one port, one has not lost it.
StillInTheRace(s) ==
  \/ phase[s] = "idle"
  \/ phase[s] = "looking" /\ port[s] = DefaultPort /\ tries[s] = 0
  \/ phase[s] \in {"probed", "binding", "listening"} /\ port[s] = DefaultPort
OneIsInTheRace ==
  (/\ \A s \in Servers : From(s) = DefaultPort
   /\ moves = 0 /\ DefaultPort \notin held) => \E s \in Servers : StillInTheRace(s)

Inv == TypeOK /\ PastPortsAreTaken /\ OneIsInTheRace
=============================================================================
