------------------------------ MODULE DevReload ------------------------------
(***************************************************************************)
(* The development server's reaction to changed files: the watcher calls a *)
(* handler for every change without waiting for the one before; each       *)
(* handler reads the project again and assigns the server's variables one  *)
(* after another, then tells the connected browsers.                       *)
(*                                                                         *)
(* disk is the version of the project's files, server what each variable   *)
(* was read from, settled whether the last handler to end overlapped       *)
(* neither another handler nor a change.                                   *)
(***************************************************************************)
EXTENDS Naturals, Sequences

CONSTANTS Reloads, MaxDisk, Clients, None

\* The variables in the order of the assignments: the config, then what is scanned with
\* it (the manifest), then what is loaded from the output directory.
Vars == <<"config", "manifest", "manifests">>

VARIABLES disk, server, reload, issues, heard, settled

vars == <<disk, server, reload, issues, heard, settled>>

Idle == [next |-> 0, seen |-> None, plan |-> None, alone |-> FALSE]

Init ==
  /\ disk = 0 /\ server = [i \in 1..3 |-> 0]
  /\ reload = [r \in Reloads |-> Idle]
  /\ issues = 0 /\ heard = [c \in Clients |-> <<>>] /\ settled = TRUE

Running == {r \in Reloads : reload[r].next # 0}

\* A file changes and the watcher's handler for it starts.
Change(r) ==
  /\ disk < MaxDisk /\ reload[r] = Idle
  /\ disk' = disk + 1
  /\ reload' = [q \in Reloads |->
        IF q = r THEN [Idle EXCEPT !.next = 1, !.alone = Running = {}]
        ELSE [reload[q] EXCEPT !.alone = FALSE]]
  /\ settled' = FALSE
  /\ UNCHANGED <<server, issues, heard>>

\* An await begins: the files are read as they are.
Read(r) ==
  /\ reload[r].next \in DOMAIN Vars /\ reload[r].seen = None
  /\ reload' = [reload EXCEPT ![r].seen = disk]
  /\ UNCHANGED <<disk, server, issues, heard, settled>>

\* Mutant: the configuration is read when the server starts, and then kept.
ConfigKept(r) == [server EXCEPT ![reload[r].next] = IF reload[r].next = 1 THEN @ ELSE reload[r].seen]
\* It ends: the variable is assigned, whatever another handler assigned meanwhile.
Assigned(r) == [server EXCEPT ![reload[r].next] = reload[r].seen]

\* Mutant: the diagnostics are those the bus has.
OldIssues(manifest) == issues
createDevDiagnostics(manifest) == manifest

\* With the last of them the diagnostics and the plan are made, of the manifest of the
\* moment, and the two development files are written.
Assign(r) ==
  /\ reload[r].seen # None
  /\ server' = Assigned(r)
  /\ reload' = [reload EXCEPT ![r].next = @ + 1, ![r].seen = None,
        ![r].plan = IF reload[r].next = Len(Vars) THEN createDevDiagnostics(server[2]) ELSE None]
  /\ UNCHANGED <<disk, issues, heard, settled>>

\* The diagnostics go to the bus, which sends them, and then the synchronisation does
\* with what the bus has.
Tell(r) ==
  /\ reload[r].next = Len(Vars) + 1
  /\ issues' = reload[r].plan
  /\ heard' = [c \in Clients |-> <<[type |-> "diagnostics", of |-> reload[r].plan],
                                   [type |-> "sync", of |-> issues']>>]
  /\ reload' = [reload EXCEPT ![r] = Idle]
  /\ settled' = reload[r].alone
  /\ UNCHANGED <<disk, server>>

Next == \E r \in Reloads : Change(r) \/ Read(r) \/ Assign(r) \/ Tell(r)

Spec == Init /\ [][Next]_vars

-----------------------------------------------------------------------------
\* A change whose handler ran alone is served from then on: every variable is of the
\* files as they are.  (Handlers that overlap may leave an older read behind.)
LoneReloadIsServed == settled => \A i \in DOMAIN Vars : server[i] = disk

\* After a handler that ran alone the browsers have been told of the files that are
\* served, by both messages.
LoneReloadIsTold ==
  settled /\ disk > 0 => \A c \in Clients : \A i \in 1..2 : heard[c][i].of = server[2]

\* What the proofs carry along: a handler that is alone has read the files as they are.
Versions == Nat \cup {None}
Inv ==
  /\ disk \in Nat /\ server \in [1..3 -> Nat] /\ settled \in BOOLEAN
  /\ reload \in [Reloads -> [next : 0..4, seen : Versions, plan : Versions, alone : BOOLEAN]]
  /\ \A r \in Reloads : reload[r].seen # None => reload[r].next \in 1..3
  /\ \A r \in Reloads : reload[r].alone =>
       /\ Running = {r} /\ reload[r].seen \in {None, disk}
       /\ \A i \in 1..3 : i < reload[r].next => server[i] = disk
       /\ reload[r].next = 4 => reload[r].plan = disk
  /\ settled => Running = {} /\ LoneReloadIsServed /\ LoneReloadIsTold
=============================================================================
