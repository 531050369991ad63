------------------------ MODULE IsrCoordinator_proofs ------------------------
(***************************************************************************)
(* The lock of IsrCoordinator excludes, and where route keys have files of *)
(* their own no reader ever sees a part of a page, nor an older page after *)
(* a newer one.                                                            *)
(***************************************************************************)
EXTENDS IsrCoordinator, TLAPS

LEMMA TypeInit == Init => TypeOK
BY IsrAssumption DEF Init, TypeOK, Content, Procs, Idle, Missing

(* A caller's record after each kind of step. *)
LEMMA ProcTypes ==
  /\ Idle \in Procs
  /\ \A r \in Route : \A pc \in {"waiting", "held", "done"} : [pc |-> pc, route |-> r] \in Procs
  /\ \A r \in Route : \A v \in Version : \A pc \in Swapping :
       [pc |-> pc, route |-> r, ver |-> v] \in Procs
BY DEF Procs

LEMMA ProcFacts ==
  ASSUME NEW p \in Procs
  PROVE  /\ p.pc \in {"waiting", "held", "done"} \cup Swapping => p.route \in Route
         /\ p.pc \in Swapping =>
              /\ p.ver \in Version
              /\ \A pc \in Swapping : /\ [p EXCEPT !.pc = pc] \in Procs
                                      /\ [p EXCEPT !.pc = pc].pc = pc
                                      /\ [p EXCEPT !.pc = pc].route = p.route
                                      /\ [p EXCEPT !.pc = pc].ver = p.ver
BY DEF Procs, Idle, Swapping

LEMMA TypeStep == TypeOK /\ [Next]_vars => TypeOK'
<1> SUFFICES ASSUME TypeOK, [Next]_vars PROVE TypeOK'
  OBVIOUS
<1>0. \A c \in Caller : proc[c] \in Procs
  BY DEF TypeOK
<1>1. ASSUME NEW c \in Caller, NEW r \in Route, Acquire(c, r) PROVE TypeOK'
  BY <1>1, ProcTypes DEF Acquire, TypeOK, files, history
<1>2. ASSUME NEW c \in Caller, NEW r \in Route, Wait(c, r) PROVE TypeOK'
  BY <1>2, ProcTypes DEF Wait, TypeOK, files, history
<1>3. ASSUME NEW c \in Caller, TimeOut(c) PROVE TypeOK'
  BY <1>3, ProcTypes DEF TimeOut, LocksKept, TypeOK, files, history
<1>4. ASSUME NEW c \in Caller, Release(c) PROVE TypeOK'
  BY <1>4, ProcTypes DEF Release, Freed, TypeOK, files, history
<1>5. ASSUME NEW c \in Caller, WriteBegin(c) PROVE TypeOK'
  <2>1. proc[c].route \in Route /\ FileAt(c) \in File
    BY <1>0, <1>5, ProcFacts, IsrAssumption DEF WriteBegin, FileAt
  <2>2. next \in Version /\ next + 1 \in 1 .. MaxVersion + 1
    BY <1>5, IsrAssumption DEF WriteBegin, TypeOK, Version
  <2>3. proc' \in [Caller -> Procs]
    BY <1>5, <2>1, <2>2, ProcTypes DEF WriteBegin, TypeOK, Swapping
  <2>4. tmp' \in [File -> Content]
    BY <1>5 DEF WriteBegin, TypeOK, Content
  <2>. QED  BY <1>5, <2>2, <2>3, <2>4 DEF WriteBegin, TypeOK
<1>6. ASSUME NEW c \in Caller, WriteEnd(c) PROVE TypeOK'
  <2>1. proc[c].ver \in Version /\ [proc[c] EXCEPT !.pc = "written"] \in Procs
    BY <1>0, <1>6, ProcFacts DEF WriteEnd, Swapping
  <2>. QED  BY <1>6, <2>1 DEF WriteEnd, Goto, TypeOK, Content, history
<1>7. ASSUME NEW c \in Caller, RemovePrev(c) PROVE TypeOK'
  <2>1. [proc[c] EXCEPT !.pc = "moved"] \in Procs
    BY <1>0, <1>7, ProcFacts DEF RemovePrev, Swapping
  <2>. QED  BY <1>7, <2>1 DEF RemovePrev, Goto, TypeOK, Content, history
<1>8. ASSUME NEW c \in Caller, Shelve(c) PROVE TypeOK'
  <2>1. [proc[c] EXCEPT !.pc = "shelved"] \in Procs
    BY <1>0, <1>8, ProcFacts DEF Shelve, Swapping
  <2>2. FileAt(c) \in File
    BY <1>0, <1>8, ProcFacts, IsrAssumption DEF Shelve, Swapping, FileAt
  <2>3. proc' \in [Caller -> Procs]
    BY <1>8, <2>1 DEF Shelve, Goto, TypeOK
  <2>4. final' \in [File -> Content] /\ prev' \in [File -> Content]
    BY <1>8, <2>2 DEF Shelve, Shelved, TypeOK, Content
  <2>. QED  BY <1>8, <2>3, <2>4 DEF Shelve, TypeOK, history
<1>9. ASSUME NEW c \in Caller, Publish(c) PROVE TypeOK'
  <2>1. proc[c].route \in Route /\ FileAt(c) \in File
    BY <1>0, <1>9, ProcFacts, IsrAssumption DEF Publish, Swapping, FileAt
  <2>2. proc' \in [Caller -> Procs]
    BY <1>9, <2>1, ProcTypes DEF Publish, TypeOK
  <2>3. tmp[FileAt(c)] \in Content /\ published[FileAt(c)] \in {Missing} \cup Version
    BY <2>1 DEF TypeOK
  <2>4. ASSUME NEW x \in {Missing} \cup Version, NEW y \in Content, x < y
        PROVE  y \in Version
    BY <2>4, IsrAssumption DEF Content, Version, Missing, Partial
  <2>5. published' \in [File -> {Missing} \cup Version]
    BY <1>9, <2>1, <2>3, <2>4 DEF Publish, TypeOK
  <2>. QED  BY <1>9, <2>2, <2>3, <2>5 DEF Publish, TypeOK, Content
<1>10. ASSUME NEW c \in Caller, SwapThrows(c) PROVE TypeOK'
  <2>1. proc[c].route \in Route
    BY <1>0, <1>10, ProcFacts DEF SwapThrows
  <2>2. proc' \in [Caller -> Procs]
    BY <1>10, <2>1, ProcTypes DEF SwapThrows, TypeOK
  <2>3. interrupted' \in [File -> Nat]
    <3>1. \A f \in File : interrupted[f] + 1 \in Nat
      BY DEF TypeOK
    <3>2. FileAt(c) \in File
      BY <2>1, IsrAssumption DEF FileAt
    <3>. QED  BY <1>10, <3>1, <3>2 DEF SwapThrows, TypeOK
  <2>. QED  BY <1>10, <2>2, <2>3 DEF SwapThrows, TypeOK, files
<1>11. CASE Crash
  BY <1>11, ProcTypes DEF Crash, TypeOK, files
<1>12. CASE UNCHANGED vars
  BY <1>12 DEF vars, TypeOK, files, history
<1>. QED
  BY <1>1, <1>2, <1>3, <1>4, <1>5, <1>6, <1>7, <1>8, <1>9, <1>10, <1>11, <1>12
  DEF Next, SwapStep

(* Every variable keeps its type. *)
THEOREM TypeCorrect == Spec => []TypeOK
BY TypeInit, TypeStep, PTL DEF Spec

----------------------------------------------------------------------------
(* A caller past acquireLock has its route key's lock, and a lock has one  *)
(* holder.                                                                 *)
HolderHasLock == \A c \in Caller, r \in Route : Holds(c, r) => locks[r] = c

LEMMA HolderStep == TypeOK /\ HolderHasLock /\ [Next]_vars => HolderHasLock'
<1> SUFFICES ASSUME TypeOK, HolderHasLock, [Next]_vars PROVE HolderHasLock'
  OBVIOUS
<1>0. \A c \in Caller : proc[c] \in Procs
  BY DEF TypeOK
<1>1. ASSUME locks' = locks, \A c \in Caller, r \in Route : Holds(c, r)' => Holds(c, r)
      PROVE  HolderHasLock'
  BY <1>1 DEF HolderHasLock
<1>2. ASSUME NEW c \in Caller, NEW r \in Route, Acquire(c, r) PROVE HolderHasLock'
  <2>1. ASSUME NEW d \in Caller \ {c}, NEW s \in Route, Holds(d, s)' PROVE locks'[s] = d
    <3>1. Holds(d, s) /\ locks[s] = d
      BY <1>2, <2>1 DEF Acquire, Holds, HolderHasLock
    <3>2. s # r
      BY <1>2, <3>1, IsrAssumption DEF Acquire, Unlocked
    <3>. QED  BY <1>2, <3>1, <3>2 DEF Acquire
  <2>2. ASSUME NEW s \in Route, Holds(c, s)' PROVE locks'[s] = c
    BY <1>2, <2>2 DEF Acquire, Holds, TypeOK
  <2>. QED  BY <2>1, <2>2 DEF HolderHasLock
<1>3. ASSUME NEW c \in Caller, NEW r \in Route, Wait(c, r) PROVE HolderHasLock'
  BY <1>1, <1>3 DEF Wait, Holds, Swapping, TypeOK
<1>4. ASSUME NEW c \in Caller, TimeOut(c) PROVE HolderHasLock'
  BY <1>1, <1>4 DEF TimeOut, LocksKept, Holds, Swapping, Idle, TypeOK
<1>5. ASSUME NEW c \in Caller, Release(c) PROVE HolderHasLock'
  <2>1. proc[c].route \in Route /\ Holds(c, proc[c].route)
    BY <1>0, <1>5, ProcFacts DEF Release, Holds
  <2>2. ASSUME NEW d \in Caller, NEW s \in Route, Holds(d, s)' PROVE locks'[s] = d
    <3>1. d # c
      BY <1>5, <2>2 DEF Release, Holds, Swapping, Idle, TypeOK
    <3>2. Holds(d, s) /\ locks[s] = d
      BY <1>5, <2>2, <3>1 DEF Release, Holds, HolderHasLock
    <3>3. s # proc[c].route
      BY <2>1, <3>1, <3>2 DEF HolderHasLock
    <3>. QED  BY <1>5, <3>2, <3>3 DEF Release, Freed
  <2>. QED  BY <2>2 DEF HolderHasLock
<1>6. ASSUME NEW c \in Caller, SwapStep(c) PROVE HolderHasLock'
  <2>2. /\ locks' = locks
        /\ proc[c].pc \in Swapping \cup {"held"}
    BY <1>6 DEF SwapStep, WriteBegin, WriteEnd, RemovePrev, Shelve, Publish, SwapThrows, Swapping
  <2>3. CASE WriteBegin(c) \/ Publish(c) \/ SwapThrows(c)
    <3>1. /\ \A d \in Caller \ {c} : proc'[d] = proc[d]
          /\ proc'[c].route = proc[c].route
      BY <2>3 DEF WriteBegin, Publish, SwapThrows, TypeOK
    <3>. QED  BY <1>1, <2>2, <3>1 DEF Holds
  <2>4. CASE WriteEnd(c) \/ RemovePrev(c) \/ Shelve(c)
    <3>1. proc[c].pc \in Swapping /\ \E pc \in Swapping : Goto(c, pc)
      BY <2>4 DEF WriteEnd, RemovePrev, Shelve, Swapping
    <3>2. /\ \A d \in Caller \ {c} : proc'[d] = proc[d]
          /\ proc'[c].route = proc[c].route
      BY <1>0, <3>1, ProcFacts DEF Goto, TypeOK
    <3>. QED  BY <1>1, <2>2, <3>2 DEF Holds
  <2>. QED  BY <1>6, <2>3, <2>4 DEF SwapStep
<1>7. CASE Crash
  BY <1>7 DEF Crash, HolderHasLock, Holds, Swapping, Idle
<1>8. CASE UNCHANGED vars
  BY <1>1, <1>8 DEF vars, Holds
<1>. QED  BY <1>2, <1>3, <1>4, <1>5, <1>6, <1>7, <1>8 DEF Next

LEMMA HolderInit == Init => HolderHasLock
BY DEF Init, HolderHasLock, Holds, Swapping, Idle

(* Two callers never hold the lock of one route key: not after a timeout,  *)
(* a failed swap or a crash either.                                        *)
THEOREM LockExcludes == Spec => []MutualExclusion
<1>1. HolderHasLock => MutualExclusion
  BY DEF HolderHasLock, MutualExclusion
<1>. QED  BY <1>1, TypeInit, TypeStep, HolderInit, HolderStep, PTL DEF Spec

----------------------------------------------------------------------------
(* Under FilesDiffer, a caller that swaps has the file to itself, so what  *)
(* it wrote is still there when it publishes, and newer than what is.      *)
SwapIsOwn ==
  \A c \in Caller : proc[c].pc \in Swapping =>
    /\ published[FileAt(c)] < proc[c].ver
    /\ proc[c].ver < next
    /\ proc[c].pc # "write" => tmp[FileAt(c)] = proc[c].ver
PublishedIsOld == \A f \in File : published[f] < next
Shown == NoPartialVisibility /\ VisibleIsNewest /\ PublishedIsOld /\ SwapIsOwn

LEMMA ShownInit == Init => Shown
BY DEF Init, Shown, NoPartialVisibility, VisibleIsNewest, PublishedIsOld, SwapIsOwn,
       Swapping, Idle, Missing, Partial

(* Two callers that swap do so on files of their own. *)
LEMMA FilesApart ==
  ASSUME TypeOK, HolderHasLock, FilesDiffer, NEW c \in Caller, NEW d \in Caller, c # d,
         proc[c].pc \in Swapping \cup {"held"}, proc[d].pc \in Swapping
  PROVE  FileAt(c) # FileAt(d)
<1>1. proc[c].route \in Route /\ proc[d].route \in Route
  BY ProcFacts DEF TypeOK
<1>2. proc[c].route # proc[d].route
  BY <1>1 DEF HolderHasLock, Holds
<1>. QED  BY <1>1, <1>2 DEF FilesDiffer, FileAt

(* A step that touches only the swap of c leaves the other swaps as they   *)
(* are.                                                                    *)
LEMMA OthersKept ==
  ASSUME TypeOK, HolderHasLock, FilesDiffer, SwapIsOwn, next \in Nat, next' \in Nat,
         NEW c \in Caller, proc[c].pc \in Swapping \cup {"held"},
         \A d \in Caller \ {c} : proc'[d] = proc[d],
         \A f \in File \ {FileAt(c)} : tmp'[f] = tmp[f] /\ published'[f] = published[f],
         next <= next',
         NEW d \in Caller \ {c}, proc'[d].pc \in Swapping
  PROVE  /\ published'[FileAt(d)'] < proc'[d].ver
         /\ proc'[d].ver < next'
         /\ proc'[d].pc # "write" => tmp'[FileAt(d)'] = proc'[d].ver
<1>1. proc'[d] = proc[d] /\ FileAt(d)' = FileAt(d)
  BY DEF FileAt
<1>2. proc[d].ver \in Nat /\ proc[d].route \in Route /\ FileAt(d) \in File
  BY <1>1, ProcFacts, IsrAssumption DEF TypeOK, Version, FileAt
<1>3. FileAt(c) # FileAt(d)
  BY <1>1, FilesApart
<1>. QED  BY <1>1, <1>2, <1>3 DEF SwapIsOwn

LEMMA ShownStep ==
  TypeOK /\ HolderHasLock /\ FilesDiffer /\ Shown /\ [Next]_vars => Shown'
<1> SUFFICES ASSUME TypeOK, HolderHasLock, FilesDiffer, Shown, [Next]_vars PROVE Shown'
  OBVIOUS
<1>. USE DEF Shown
<1>0. /\ \A c \in Caller : proc[c] \in Procs
      /\ next \in Nat
      /\ \A f \in File : published[f] \in Nat
  BY IsrAssumption DEF TypeOK, Version, Missing
<1>1. ASSUME files' = files, published' = published, next' = next,
             \A c \in Caller : proc'[c].pc \in Swapping => proc'[c] = proc[c]
      PROVE  Shown'
  BY <1>1 DEF files, NoPartialVisibility, VisibleIsNewest, PublishedIsOld, SwapIsOwn, FileAt
<1>2. ASSUME NEW c \in Caller, NEW r \in Route, Acquire(c, r) \/ Wait(c, r) PROVE Shown'
  BY <1>1, <1>2 DEF Acquire, Wait, history, Swapping, TypeOK
<1>3. ASSUME NEW c \in Caller, TimeOut(c) \/ Release(c) PROVE Shown'
  BY <1>1, <1>3 DEF TimeOut, Release, history, Swapping, Idle, TypeOK
<1>4. ASSUME NEW c \in Caller, SwapThrows(c) PROVE Shown'
  BY <1>1, <1>4 DEF SwapThrows, Swapping, TypeOK
<1>5. ASSUME NEW c \in Caller, WriteBegin(c) PROVE Shown'
  <2>1. proc'[c].ver = next /\ proc'[c].route = proc[c].route /\ proc'[c].pc = "write"
    BY <1>5 DEF WriteBegin, TypeOK
  <2>2. next' = next + 1 /\ FileAt(c)' = FileAt(c) /\ FileAt(c) \in File
    BY <1>0, <1>5, <2>1, ProcFacts, IsrAssumption DEF WriteBegin, FileAt
  <2>3. SwapIsOwn'
    <3>1. ASSUME NEW d \in Caller \ {c}, proc'[d].pc \in Swapping
          PROVE  /\ published'[FileAt(d)'] < proc'[d].ver
                 /\ proc'[d].ver < next'
                 /\ proc'[d].pc # "write" => tmp'[FileAt(d)'] = proc'[d].ver
      BY <1>0, <1>5, <2>2, <3>1, OthersKept DEF WriteBegin, TypeOK
    <3>2. published'[FileAt(c)'] < proc'[c].ver /\ proc'[c].ver < next'
      BY <1>0, <1>5, <2>1, <2>2 DEF WriteBegin, PublishedIsOld
    <3>. QED  BY <2>1, <3>1, <3>2 DEF SwapIsOwn
  <2>4. NoPartialVisibility' /\ VisibleIsNewest'
    BY <1>5 DEF WriteBegin, NoPartialVisibility, VisibleIsNewest
  <2>5. PublishedIsOld'
    BY <1>0, <1>5, <2>2 DEF WriteBegin, PublishedIsOld
  <2>. QED  BY <2>3, <2>4, <2>5
<1>6. ASSUME NEW c \in Caller, WriteEnd(c) \/ RemovePrev(c) \/ Shelve(c) PROVE Shown'
  <2>1. proc[c].pc \in Swapping /\ \E pc \in Swapping \ {"write"} : Goto(c, pc)
    BY <1>6 DEF WriteEnd, RemovePrev, Shelve, Swapping
  <2>2. /\ proc'[c].ver = proc[c].ver /\ proc'[c].route = proc[c].route
        /\ \A d \in Caller \ {c} : proc'[d] = proc[d]
    BY <1>0, <2>1, ProcFacts DEF Goto, TypeOK
  <2>3. /\ FileAt(c)' = FileAt(c) /\ FileAt(c) \in File
        /\ published' = published /\ next' = next
    BY <1>0, <1>6, <2>1, <2>2, ProcFacts, IsrAssumption
    DEF FileAt, WriteEnd, RemovePrev, Shelve, history
  <2>4. /\ tmp'[FileAt(c)] = proc[c].ver
        /\ \A f \in File \ {FileAt(c)} : tmp'[f] = tmp[f]
    BY <1>6, <2>1, <2>3 DEF WriteEnd, RemovePrev, Shelve, SwapIsOwn, TypeOK
  <2>5. SwapIsOwn'
    <3>1. ASSUME NEW d \in Caller \ {c}, proc'[d].pc \in Swapping
          PROVE  /\ published'[FileAt(d)'] < proc'[d].ver
                 /\ proc'[d].ver < next'
                 /\ proc'[d].pc # "write" => tmp'[FileAt(d)'] = proc'[d].ver
      BY <1>0, <2>1, <2>2, <2>3, <2>4, <3>1, OthersKept
    <3>. QED  BY <2>1, <2>2, <2>3, <2>4, <3>1 DEF SwapIsOwn
  <2>6. \A f \in File : final'[f] \in {final[f], Missing}
    BY <1>6, <2>3 DEF WriteEnd, RemovePrev, Shelve, TypeOK
  <2>7. NoPartialVisibility' /\ VisibleIsNewest'
    BY <2>3, <2>6 DEF NoPartialVisibility, VisibleIsNewest, Missing, Partial
  <2>. QED  BY <2>3, <2>5, <2>7 DEF PublishedIsOld
<1>7. ASSUME NEW c \in Caller, Publish(c) PROVE Shown'
  <2>1. /\ proc[c].pc \in Swapping /\ proc[c].pc # "write"
        /\ proc[c].ver \in Nat /\ FileAt(c) \in File
    <3>1. proc[c].pc = "shelved" /\ "shelved" \in Swapping
      BY <1>7 DEF Publish, Swapping
    <3>2. proc[c].ver \in Version /\ proc[c].route \in Route
      BY <1>0, <3>1, ProcFacts
    <3>. QED  BY <3>1, <3>2, IsrAssumption DEF Version, FileAt
  <2>2. /\ tmp[FileAt(c)] = proc[c].ver
        /\ published[FileAt(c)] < proc[c].ver
        /\ proc[c].ver < next
    BY <2>1 DEF SwapIsOwn
  <2>3. /\ published' = [published EXCEPT ![FileAt(c)] = proc[c].ver]
        /\ final' = [final EXCEPT ![FileAt(c)] = proc[c].ver]
        /\ next' = next
    BY <1>7, <2>2 DEF Publish
  <2>4. SwapIsOwn'
    <3>1. ASSUME NEW d \in Caller \ {c}, proc'[d].pc \in Swapping
          PROVE  /\ published'[FileAt(d)'] < proc'[d].ver
                 /\ proc'[d].ver < next'
                 /\ proc'[d].pc # "write" => tmp'[FileAt(d)'] = proc'[d].ver
      BY <1>0, <1>7, <2>1, <2>3, <3>1, OthersKept DEF Publish, TypeOK
    <3>2. proc'[c].pc \notin Swapping
      BY <1>7 DEF Publish, Swapping, TypeOK
    <3>. QED  BY <3>1, <3>2 DEF SwapIsOwn
  <2>5. NoPartialVisibility' /\ VisibleIsNewest'
    BY <2>1, <2>3 DEF NoPartialVisibility, VisibleIsNewest, Missing, Partial, TypeOK
  <2>6. PublishedIsOld'
    BY <2>1, <2>2, <2>3 DEF PublishedIsOld, TypeOK
  <2>. QED  BY <2>4, <2>5, <2>6
<1>8. CASE Crash
  BY <1>1, <1>8 DEF Crash, Swapping, Idle
<1>9. CASE UNCHANGED vars
  BY <1>1, <1>9 DEF vars, files
<1>. QED
  BY <1>2, <1>3, <1>4, <1>5, <1>6, <1>7, <1>8, <1>9 DEF Next, SwapStep

LEMMA SwapsAreSafe == FilesDiffer /\ Spec => []Shown
<1>1. FilesDiffer => []FilesDiffer
  <2>1. FilesDiffer => FilesDiffer'
    BY DEF FilesDiffer
  <2>. QED  BY <2>1, PTL
<1>. QED
  BY <1>1, TypeInit, TypeStep, HolderInit, HolderStep, ShownInit, ShownStep, PTL DEF Spec

(* Where route keys have files of their own, no part of a page is visible, *)
(* whatever swaps run, fail or are cut short by a crash.                   *)
THEOREM SwapIsAtomic == FilesDiffer /\ Spec => []NoPartialVisibility
BY SwapsAreSafe, PTL DEF Shown

(* And a page that is visible is the newest one ever published.            *)
THEOREM NeverAnOlderPage == FilesDiffer /\ Spec => []VisibleIsNewest
BY SwapsAreSafe, PTL DEF Shown

----------------------------------------------------------------------------
(* A complete copy survives one interruption.  From one publication to the *)
(* next, the page itself is complete until it is shelved, and its copy in  *)
(* .prev is afterwards.  If that swap is interrupted, one of the two stays *)
(* complete until the next swap has a complete .tmp.                       *)
At(f, pcs) == \E c \in Caller : proc[c].pc \in pcs /\ FileAt(c) = f

Backed(f) ==
  published[f] # Missing =>
    /\ interrupted[f] = 0 => IF At(f, {"shelved"}) THEN prev[f] \in Version
                                                   ELSE final[f] \in Version
    /\ interrupted[f] = 1 => \/ At(f, Swapping \ {"write"})
                             \/ final[f] \in Version
                             \/ prev[f] \in Version
AllBacked == \A f \in File : Backed(f)

LEMMA BackedInit == Init => AllBacked
BY DEF Init, AllBacked, Backed

(* A step that changes nothing about the swaps of f, nor its page. *)
LEMMA BackedKept ==
  ASSUME NEW f \in File, Backed(f), published'[f] = published[f],
         interrupted'[f] = interrupted[f], final'[f] = final[f], prev'[f] = prev[f],
         At(f, {"shelved"})' <=> At(f, {"shelved"}),
         At(f, Swapping \ {"write"})' <=> At(f, Swapping \ {"write"})
  PROVE  Backed(f)'
BY DEF Backed

(* Another caller's swap is on another file, so that a step of c leaves    *)
(* the swaps of every other file alone, and its own file has no other.     *)
LEMMA AtOthers ==
  ASSUME TypeOK, HolderHasLock, FilesDiffer,
         NEW c \in Caller, proc[c].pc \in Swapping \cup {"held"},
         proc'[c].route = proc[c].route,
         \A d \in Caller \ {c} : proc'[d] = proc[d]
  PROVE  /\ FileAt(c)' = FileAt(c) /\ FileAt(c) \in File
         /\ \A f \in File \ {FileAt(c)}, pcs \in SUBSET Swapping : At(f, pcs)' <=> At(f, pcs)
         /\ \A pcs \in SUBSET Swapping :
              /\ At(FileAt(c), pcs) <=> proc[c].pc \in pcs
              /\ At(FileAt(c), pcs)' <=> proc'[c].pc \in pcs
<1>1. FileAt(c)' = FileAt(c) /\ FileAt(c) \in File
  BY ProcFacts, IsrAssumption DEF FileAt, TypeOK
<1>2. \A d \in Caller \ {c} : proc[d].pc \in Swapping => FileAt(d) # FileAt(c)
  BY FilesApart
<1>3. \A d \in Caller \ {c} : FileAt(d)' = FileAt(d)
  BY DEF FileAt
<1>. QED  BY <1>1, <1>2, <1>3 DEF At

LEMMA BackedStep ==
  TypeOK /\ HolderHasLock /\ FilesDiffer /\ Shown /\ AllBacked /\ [Next]_vars => AllBacked'
<1> SUFFICES ASSUME TypeOK, HolderHasLock, FilesDiffer, Shown, AllBacked, [Next]_vars
             PROVE  AllBacked'
  OBVIOUS
<1>0. /\ \A c \in Caller : proc[c] \in Procs
      /\ \A f \in File : interrupted[f] \in Nat
      /\ \A f \in File : Backed(f)
  BY DEF TypeOK, AllBacked
<1>. USE DEF AllBacked
<1>1. ASSUME UNCHANGED <<final, prev, published, interrupted>>,
             \A c \in Caller : /\ proc'[c].pc \in Swapping <=> proc[c].pc \in Swapping
                               /\ proc[c].pc \in Swapping => proc'[c] = proc[c]
      PROVE  AllBacked'
  <2>1. \A f \in File, pcs \in SUBSET Swapping : At(f, pcs)' <=> At(f, pcs)
    BY <1>1 DEF At, FileAt
  <2>. QED  BY <1>0, <1>1, <2>1, BackedKept DEF Swapping
<1>2. ASSUME NEW c \in Caller, NEW r \in Route, Acquire(c, r) \/ Wait(c, r) PROVE AllBacked'
  BY <1>1, <1>2 DEF Acquire, Wait, files, history, Swapping, Idle, TypeOK
<1>3. ASSUME NEW c \in Caller, TimeOut(c) \/ Release(c) PROVE AllBacked'
  BY <1>1, <1>3 DEF TimeOut, Release, files, history, Swapping, Idle, TypeOK
<1>4. ASSUME NEW c \in Caller, SwapStep(c)
      PROVE  /\ proc[c].pc \in Swapping \cup {"held"}
             /\ proc'[c].route = proc[c].route
             /\ \A d \in Caller \ {c} : proc'[d] = proc[d]
  <2>1. CASE WriteBegin(c) \/ Publish(c) \/ SwapThrows(c)
    BY <2>1 DEF WriteBegin, Publish, SwapThrows, Swapping, TypeOK
  <2>2. CASE WriteEnd(c) \/ RemovePrev(c) \/ Shelve(c)
    <3>1. proc[c].pc \in Swapping /\ \E pc \in Swapping : Goto(c, pc)
      BY <2>2 DEF WriteEnd, RemovePrev, Shelve, Swapping
    <3>. QED  BY <1>0, <3>1, ProcFacts DEF Goto, TypeOK
  <2>. QED  BY <1>4, <2>1, <2>2 DEF SwapStep
<1>5. ASSUME NEW c \in Caller, SwapStep(c), Backed(FileAt(c))',
             \A f \in File \ {FileAt(c)} :
               /\ published'[f] = published[f] /\ interrupted'[f] = interrupted[f]
               /\ final'[f] = final[f] /\ prev'[f] = prev[f]
      PROVE  AllBacked'
  <2>1. FileAt(c)' = FileAt(c)
    BY <1>4, <1>5, AtOthers
  <2>2. \A f \in File \ {FileAt(c)} : Backed(f)'
    BY <1>0, <1>4, <1>5, AtOthers, BackedKept DEF Swapping
  <2>. QED  BY <1>5, <2>1, <2>2 DEF Backed, At
<1>6. ASSUME NEW c \in Caller, WriteBegin(c) \/ WriteEnd(c) PROVE AllBacked'
  <2>1. SwapStep(c) /\ proc[c].pc \in {"held", "write"} /\ FileAt(c) \in File
    BY <1>4, <1>6, AtOthers DEF SwapStep, WriteBegin, WriteEnd
  <2>2. UNCHANGED <<final, prev, published, interrupted>>
    BY <1>6 DEF WriteBegin, WriteEnd, history
  <2>3. proc'[c].pc \in {"write", "written"}
    <3>1. CASE WriteBegin(c)
      BY <3>1 DEF WriteBegin, TypeOK
    <3>2. CASE WriteEnd(c)
      BY <1>0, <3>2, ProcFacts DEF WriteEnd, Goto, TypeOK, Swapping
    <3>. QED  BY <1>6, <3>1, <3>2
  <2>4. ~At(FileAt(c), {"shelved"}) /\ ~At(FileAt(c), {"shelved"})'
    BY <1>4, <2>1, <2>3, AtOthers DEF Swapping
  <2>5. ~At(FileAt(c), Swapping \ {"write"})
    BY <1>4, <2>1, AtOthers DEF Swapping
  <2>6. FileAt(c)' = FileAt(c)
    BY <1>4, <2>1, AtOthers
  <2>7. Backed(FileAt(c))'
    BY <1>0, <2>1, <2>2, <2>4, <2>5, <2>6 DEF Backed
  <2>. QED  BY <1>5, <2>1, <2>2, <2>7
<1>7. ASSUME NEW c \in Caller, RemovePrev(c) PROVE AllBacked'
  <2>1. SwapStep(c) /\ proc[c].pc = "written" /\ FileAt(c) \in File /\ FileAt(c)' = FileAt(c)
    BY <1>4, <1>7, AtOthers DEF SwapStep, RemovePrev
  <2>2. /\ UNCHANGED <<final, published, interrupted>>
        /\ \A f \in File \ {FileAt(c)} : prev'[f] = prev[f]
    BY <1>7 DEF RemovePrev, history, TypeOK
  <2>3. proc'[c].pc = "moved"
    BY <1>0, <1>7, ProcFacts DEF RemovePrev, Goto, TypeOK, Swapping
  <2>4. /\ ~At(FileAt(c), {"shelved"}) /\ ~At(FileAt(c), {"shelved"})'
        /\ At(FileAt(c), Swapping \ {"write"})'
    BY <1>4, <2>1, <2>3, AtOthers DEF Swapping
  <2>5. Backed(FileAt(c))'
    BY <1>0, <2>1, <2>2, <2>4 DEF Backed
  <2>. QED  BY <1>5, <2>1, <2>2, <2>5
<1>8. ASSUME NEW c \in Caller, Shelve(c) PROVE AllBacked'
  <2>1. SwapStep(c) /\ proc[c].pc = "moved" /\ FileAt(c) \in File /\ FileAt(c)' = FileAt(c)
    BY <1>4, <1>8, AtOthers DEF SwapStep, Shelve
  <2>2. /\ UNCHANGED <<published, interrupted>>
        /\ \A f \in File \ {FileAt(c)} : prev'[f] = prev[f] /\ final'[f] = final[f]
        /\ prev'[FileAt(c)] \in {prev[FileAt(c)], final[FileAt(c)]}
        /\ final[FileAt(c)] # Missing => prev'[FileAt(c)] = final[FileAt(c)]
    BY <1>8, <2>1 DEF Shelve, Shelved, history, TypeOK
  <2>3. proc'[c].pc = "shelved"
    BY <1>0, <1>8, ProcFacts DEF Shelve, Goto, TypeOK, Swapping
  <2>4. /\ ~At(FileAt(c), {"shelved"}) /\ At(FileAt(c), {"shelved"})'
        /\ At(FileAt(c), Swapping \ {"write"})'
    BY <1>4, <2>1, <2>3, AtOthers DEF Swapping
  <2>5. Missing \notin Version
    BY DEF Missing, Version
  <2>6. Backed(FileAt(c))'
    BY <1>0, <2>1, <2>2, <2>4, <2>5 DEF Backed
  <2>. QED  BY <1>5, <2>1, <2>2, <2>6
<1>9. ASSUME NEW c \in Caller, Publish(c) PROVE AllBacked'
  <2>1. SwapStep(c) /\ proc[c].pc = "shelved" /\ FileAt(c) \in File /\ FileAt(c)' = FileAt(c)
    BY <1>4, <1>9, AtOthers DEF SwapStep, Publish
  <2>2. tmp[FileAt(c)] \in Version
    <3>1. proc[c].pc \in Swapping \ {"write"}
      BY <2>1 DEF Swapping
    <3>. QED  BY <1>0, <3>1, ProcFacts DEF Shown, SwapIsOwn
  <2>3. /\ \A f \in File \ {FileAt(c)} :
             /\ published'[f] = published[f] /\ interrupted'[f] = interrupted[f]
             /\ final'[f] = final[f] /\ prev'[f] = prev[f]
        /\ final'[FileAt(c)] \in Version
        /\ interrupted'[FileAt(c)] = 0
    BY <1>9, <2>1, <2>2 DEF Publish, TypeOK
  <2>4. ~At(FileAt(c), {"shelved"})'
    BY <1>4, <1>9, <2>1, AtOthers DEF Publish, Swapping, TypeOK
  <2>5. Backed(FileAt(c))'
    BY <2>1, <2>3, <2>4 DEF Backed
  <2>. QED  BY <1>5, <2>1, <2>3, <2>5
<1>10. ASSUME NEW f \in File, Backed(f), interrupted'[f] = interrupted[f] + 1,
              published'[f] = published[f], final'[f] = final[f], prev'[f] = prev[f]
       PROVE  Backed(f)'
  <2>1. interrupted[f] \in Nat
    BY <1>0
  <2>2. interrupted'[f] # 0 /\ (interrupted'[f] = 1 => interrupted[f] = 0)
    BY <1>10, <2>1
  <2>. QED  BY <1>10, <2>2 DEF Backed
<1>11. ASSUME NEW c \in Caller, SwapThrows(c) PROVE AllBacked'
  <2>1. SwapStep(c) /\ FileAt(c) \in File /\ FileAt(c)' = FileAt(c)
    BY <1>4, <1>11, AtOthers DEF SwapStep
  <2>2. /\ UNCHANGED <<final, prev, published>>
        /\ \A f \in File \ {FileAt(c)} : interrupted'[f] = interrupted[f]
        /\ interrupted'[FileAt(c)] = interrupted[FileAt(c)] + 1
    BY <1>11, <2>1 DEF SwapThrows, files, TypeOK
  <2>3. Backed(FileAt(c))'
    BY <1>0, <1>10, <2>1, <2>2
  <2>. QED  BY <1>5, <2>1, <2>2, <2>3
<1>12. CASE Crash
  <2>1. /\ UNCHANGED <<final, prev, published>>
        /\ \A c \in Caller : proc'[c].pc \notin Swapping
        /\ \A f \in File : IF At(f, Swapping) THEN interrupted'[f] = interrupted[f] + 1
                                              ELSE interrupted'[f] = interrupted[f]
    BY <1>12 DEF Crash, files, At, Swapping, Idle
  <2>2. \A f \in File, pcs \in SUBSET Swapping : ~At(f, pcs)'
    BY <2>1 DEF At
  <2>3. ASSUME NEW f \in File PROVE Backed(f)'
    <3>1. CASE At(f, Swapping)
      BY <1>0, <1>10, <2>1, <3>1
    <3>2. CASE ~At(f, Swapping)
      <4>1. ~At(f, {"shelved"}) /\ ~At(f, Swapping \ {"write"})
        BY <3>2 DEF At, Swapping
      <4>2. ~At(f, {"shelved"})' /\ ~At(f, Swapping \ {"write"})'
        BY <2>2 DEF Swapping
      <4>. QED  BY <1>0, <2>1, <3>2, <4>1, <4>2, BackedKept
    <3>. QED  BY <3>1, <3>2
  <2>. QED  BY <2>3
<1>13. CASE UNCHANGED vars
  BY <1>1, <1>13 DEF vars, files
<1>. QED
  BY <1>2, <1>3, <1>6, <1>7, <1>8, <1>9, <1>11, <1>12, <1>13 DEF Next, SwapStep

(* A page that was published is complete in one of its three files, at     *)
(* every point of a swap, of one interrupted by a failure or a crash, and  *)
(* of the one after it.                                                    *)
THEOREM OneCopySurvives == FilesDiffer /\ Spec => []AVersionSurvives
<1>1. FilesDiffer => []FilesDiffer
  <2>1. FilesDiffer => FilesDiffer'
    BY DEF FilesDiffer
  <2>. QED  BY <2>1, PTL
<1>2. TypeOK /\ Shown /\ AllBacked => AVersionSurvives
  <2> SUFFICES ASSUME TypeOK, Shown, AllBacked, NEW f \in File,
                      published[f] # Missing, interrupted[f] <= 1
               PROVE  \E x \in {final[f], prev[f], tmp[f]} : x \in Version
    BY DEF AVersionSurvives
  <2>1. interrupted[f] = 0 \/ interrupted[f] = 1
    BY DEF TypeOK
  <2>2. ASSUME At(f, Swapping \ {"write"}) PROVE tmp[f] \in Version
    BY <2>2, ProcFacts DEF At, Shown, SwapIsOwn, TypeOK
  <2>. QED  BY <2>1, <2>2 DEF AllBacked, Backed
<1>. QED
  BY <1>1, <1>2, TypeInit, TypeStep, HolderInit, HolderStep, ShownInit, ShownStep,
     BackedInit, BackedStep, PTL DEF Spec
=============================================================================
