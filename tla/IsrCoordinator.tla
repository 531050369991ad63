--------------------------- MODULE IsrCoordinator ---------------------------
(***************************************************************************)
(* The ISR coordinator of the runtime (sourceog-runtime/src/               *)
(* isr-coordinator.ts): a lock per route key, polled until a deadline, and *)
(* the swap of a page's file through a .tmp and a .prev file.              *)
(*                                                                         *)
(* Callers follow the protocol of the coordinator's tests: acquire, swap,  *)
(* release in a finally.  atomicSwap itself looks at no lock.  A step ends *)
(* where the code awaits; writing the .tmp file is two steps, since the    *)
(* file is truncated first.  The process may crash at any time: the locks  *)
(* are gone then, and the files stay.  (A write under way follows its file *)
(* when that is renamed; the model leaves it at .tmp, and only where two   *)
(* swaps share a file does it make a difference.)                          *)
(***************************************************************************)
EXTENDS Integers, FiniteSets, TLC

CONSTANTS Route, File,
          FileOf,      \* resolveOutputPath: which replaces odd characters by _
          Caller,
          NONE,
          MaxVersion   \* bound: calls of atomicSwap

ASSUME IsrAssumption ==
  /\ FileOf \in [Route -> File]
  /\ NONE \notin Caller
  /\ MaxVersion \in Nat

VARIABLES locks,        \* the holder of each route key's lock, or NONE
          proc,         \* what each caller is doing
          final, prev, tmp,   \* the content of the three files
          next,         \* the version the next swap writes
          published,    \* history: the newest version final has shown
          interrupted   \* history: swaps cut short since the last complete one

vars == <<locks, proc, final, prev, tmp, next, published, interrupted>>
files == <<final, prev, tmp>>
history == <<next, published, interrupted>>

(* A file is missing, holds a part of a page, or the page of a version.    *)
Version == 1 .. MaxVersion
Missing == 0
Partial == -1
Content == {Missing, Partial} \cup Version

Idle == [pc |-> "idle"]
Swapping == {"write", "written", "moved", "shelved"}
Procs == {Idle}
  \cup [pc : {"waiting", "held", "done"}, route : Route]
  \cup [pc : Swapping, route : Route, ver : Version]

TypeOK ==
  /\ locks \in [Route -> Caller \cup {NONE}]
  /\ proc \in [Caller -> Procs]
  /\ final \in [File -> Content]
  /\ prev \in [File -> Content]
  /\ tmp \in [File -> Content]
  /\ next \in 1 .. MaxVersion + 1
  /\ published \in [File -> {Missing} \cup Version]
  /\ interrupted \in [File -> Nat]

Init ==
  /\ locks = [r \in Route |-> NONE]
  /\ proc = [c \in Caller |-> Idle]
  /\ final = [f \in File |-> Missing]
  /\ prev = [f \in File |-> Missing]
  /\ tmp = [f \in File |-> Missing]
  /\ next = 1
  /\ published = [f \in File |-> Missing]
  /\ interrupted = [f \in File |-> 0]

----------------------------------------------------------------------------
(* acquireLock: has and set in one go; a caller that finds the lock taken  *)
(* looks again every 10 ms until its deadline.                             *)
LockedByMany(r) == TRUE     \* mutated: the map is not looked at
Unlocked(r) == locks[r] = NONE

Acquire(c, r) ==
  /\ proc[c] = Idle \/ proc[c] = [pc |-> "waiting", route |-> r]
  /\ Unlocked(r)
  /\ locks' = [locks EXCEPT ![r] = c]
  /\ proc' = [proc EXCEPT ![c] = [pc |-> "held", route |-> r]]
  /\ UNCHANGED <<files, history>>

Wait(c, r) ==
  /\ proc[c] = Idle
  /\ ~Unlocked(r)
  /\ proc' = [proc EXCEPT ![c] = [pc |-> "waiting", route |-> r]]
  /\ UNCHANGED <<locks, files, history>>

LocksReleased(r) == [locks EXCEPT ![r] = NONE]   \* mutated: releases what it has not
LocksKept(r) == locks

TimeOut(c) ==
  /\ proc[c].pc = "waiting"
  /\ locks' = LocksKept(proc[c].route)
  /\ proc' = [proc EXCEPT ![c] = Idle]
  /\ UNCHANGED <<files, history>>

(* releaseLock deletes the key, whoever holds it. *)
FreedNotDeleted(c) == [locks EXCEPT ![proc[c].route] = "undefined"]   \* mutated: set, not delete
Freed(c) == [locks EXCEPT ![proc[c].route] = NONE]

Release(c) ==
  /\ proc[c].pc \in {"held", "done"}
  /\ locks' = Freed(c)
  /\ proc' = [proc EXCEPT ![c] = Idle]
  /\ UNCHANGED <<files, history>>

----------------------------------------------------------------------------
(* atomicSwap, one step per file operation. *)
FileAt(c) == FileOf[proc[c].route]
Goto(c, pc) == proc' = [proc EXCEPT ![c].pc = pc]

WriteBegin(c) ==
  /\ proc[c].pc = "held" /\ next <= MaxVersion
  /\ tmp' = [tmp EXCEPT ![FileAt(c)] = Partial]
  /\ proc' = [proc EXCEPT ![c] = [pc |-> "write", route |-> @.route, ver |-> next]]
  /\ next' = next + 1
  /\ UNCHANGED <<locks, final, prev, published, interrupted>>

WriteEnd(c) ==
  /\ proc[c].pc = "write"
  /\ tmp' = [tmp EXCEPT ![FileAt(c)] = proc[c].ver]
  /\ Goto(c, "written")
  /\ UNCHANGED <<locks, final, prev, history>>

RemovePrev(c) ==
  /\ proc[c].pc = "written"
  /\ prev' = [prev EXCEPT ![FileAt(c)] = Missing]
  /\ Goto(c, "moved")
  /\ UNCHANGED <<locks, final, tmp, history>>

(* The page moves to .prev; a missing page is no error. *)
Discarded(f) == Missing     \* mutated: the old page is deleted
Shelved(f) == final[f]

Shelve(c) ==
  /\ proc[c].pc = "moved"
  /\ LET f == FileAt(c) IN
     IF final[f] = Missing
     THEN UNCHANGED <<final, prev>>
     ELSE /\ prev' = [prev EXCEPT ![f] = Shelved(f)]
          /\ final' = [final EXCEPT ![f] = Missing]
  /\ Goto(c, "shelved")
  /\ UNCHANGED <<locks, tmp, history>>

Publish(c) ==
  /\ proc[c].pc = "shelved"
  /\ LET f == FileAt(c) IN
     /\ tmp[f] # Missing
     /\ final' = [final EXCEPT ![f] = tmp[f]]
     /\ tmp' = [tmp EXCEPT ![f] = Missing]
     /\ published' = [published EXCEPT ![f] = IF @ < tmp[f] THEN tmp[f] ELSE @]
     /\ interrupted' = [interrupted EXCEPT ![f] = 0]
  /\ proc' = [proc EXCEPT ![c] = [pc |-> "done", route |-> @.route]]
  /\ UNCHANGED <<locks, prev, next>>

(* A file operation fails: atomicSwap throws, the finally releases. *)
SwapThrows(c) ==
  /\ proc[c].pc \in Swapping
  /\ proc' = [proc EXCEPT ![c] = [pc |-> "done", route |-> @.route]]
  /\ interrupted' = [interrupted EXCEPT ![FileAt(c)] = @ + 1]
  /\ UNCHANGED <<locks, files, next, published>>

Crash ==
  /\ locks' = [r \in Route |-> NONE]
  /\ proc' = [c \in Caller |-> Idle]
  /\ interrupted' = [f \in File |->
       IF \E c \in Caller : proc[c].pc \in Swapping /\ FileAt(c) = f
       THEN interrupted[f] + 1 ELSE interrupted[f]]
  /\ UNCHANGED <<files, next, published>>

SwapStep(c) == \/ WriteBegin(c) \/ WriteEnd(c) \/ RemovePrev(c) \/ Shelve(c)
               \/ Publish(c) \/ SwapThrows(c)

Next ==
  \/ \E c \in Caller, r \in Route : Acquire(c, r) \/ Wait(c, r)
  \/ \E c \in Caller : TimeOut(c) \/ Release(c) \/ SwapStep(c)
  \/ Crash

Spec == Init /\ [][Next]_vars

----------------------------------------------------------------------------
(* What the coordinator takes for granted of route keys. *)
FilesDiffer == \A r, s \in Route : FileOf[r] = FileOf[s] => r = s

(* Two callers never hold the lock of one route key, whoever waits, gives  *)
(* up or releases, and in whatever order the polls come.                   *)
Holds(c, r) == proc[c].pc \in Swapping \cup {"held", "done"} /\ proc[c].route = r
MutualExclusion ==
  \A r \in Route, c, d \in Caller : Holds(c, r) /\ Holds(d, r) => c = d

(* "Atomic swap has no partial visibility": a page that is visible is      *)
(* complete.                                                               *)
NoPartialVisibility == \A f \in File : final[f] # Partial

(* A page that is visible is the newest one ever published: neither a      *)
(* retry nor a restart brings an older one back.                           *)
VisibleIsNewest == \A f \in File : final[f] \in {Missing, published[f]}

(* Once published, a page is never lost to a single interrupted swap: at   *)
(* every point of it, and of the next one, one of the three files is       *)
(* complete.                                                               *)
AVersionSurvives ==
  \A f \in File : published[f] # Missing /\ interrupted[f] <= 1 =>
    \E x \in {final[f], prev[f], tmp[f]} : x \in Version
-----------------------------------------------------------------------------
(* For TLC: route keys with files of their own, and callers that are alike. *)
OwnFiles == CHOOSE f \in [Route -> File] : \A r, s \in Route : f[r] = f[s] => r = s
Symmetry == Permutations(Caller)
=============================================================================
