------------------------ MODULE PrerenderIsr_proofs ------------------------
(***************************************************************************)
(* Incremental regeneration is single flight, for every number of pages,   *)
(* regenerations and calls of the revalidation handler, through failures,  *)
(* torn manifests, crashes and restarts.                                   *)
(***************************************************************************)
EXTENDS PrerenderIsr, TLAPS

(* What each kind of record holds. *)
LEMMA RunFacts ==
  ASSUME NEW x \in Runs
  PROVE  /\ x.pc \in Working => x.page \in Page
         /\ x.pc = "save" => x.ver \in Version
         /\ x.pc \in {"store", "write"} => x.got \in Manifest
         /\ x.pc = "write" => x.mixed \in BOOLEAN
         /\ x.pc \in {"reload", "assign"} => x.fatal \in BOOLEAN
         /\ x.pc = "assign" => x.got \in Manifest
BY DEF Runs, Off, Working

LEMMA RunTypes ==
  /\ Off \in Runs
  /\ \A p \in Page : /\ [pc |-> "render", page |-> p] \in Runs
                     /\ [pc |-> "load", page |-> p] \in Runs
                     /\ \A v \in Version : [pc |-> "save", page |-> p, ver |-> v] \in Runs
                     /\ \A m \in Manifest :
                          /\ [pc |-> "store", page |-> p, got |-> m] \in Runs
                          /\ \A b \in BOOLEAN :
                               [pc |-> "write", page |-> p, got |-> m, mixed |-> b] \in Runs
  /\ \A b \in BOOLEAN : /\ [pc |-> "reload", fatal |-> b] \in Runs
                        /\ \A m \in Manifest : [pc |-> "assign", fatal |-> b, got |-> m] \in Runs
BY DEF Runs

LEMMA InvalFacts ==
  ASSUME NEW x \in Invals
  PROVE  x.pc # "off" =>
    /\ x.got \in Manifest /\ x.mixed \in BOOLEAN
    /\ x.pages \in Manifest /\ x.since \in Version
    /\ x.kind \in {"path", "resolved"}
    /\ x = [pc |-> x.pc, kind |-> x.kind, got |-> x.got, mixed |-> x.mixed,
            pages |-> x.pages, since |-> x.since]
BY DEF Invals, Off

LEMMA InvalTypes ==
  /\ Off \in Invals
  /\ \A pc \in {"store", "write", "read", "assign"}, kind \in {"path", "resolved"},
        got \in Manifest, mixed \in BOOLEAN, pages \in Manifest, since \in Version :
       [pc |-> pc, kind |-> kind, got |-> got, mixed |-> mixed,
        pages |-> pages, since |-> since] \in Invals
BY DEF Invals

LEMMA InvalUpdates ==
  ASSUME NEW x \in Invals, x.pc # "off", NEW got \in Manifest, NEW mixed \in BOOLEAN
  PROVE  /\ [x EXCEPT !.pc = "write", !.mixed = mixed] \in Invals
         /\ [x EXCEPT !.pc = "read", !.got = got, !.mixed = mixed] \in Invals
         /\ [x EXCEPT !.pc = "assign", !.got = got] \in Invals
<1> DEFINE S == [pc : {"store", "write", "read", "assign"}, kind : {"path", "resolved"},
                 got : Manifest, mixed : BOOLEAN, pages : Manifest, since : Version]
<1>1. x \in S
  BY DEF Invals, Off
<1>2. \A y \in S : /\ \A pc \in {"write", "read", "assign"} : [y EXCEPT !.pc = pc] \in S
                  /\ [y EXCEPT !.got = got] \in S
                  /\ [y EXCEPT !.mixed = mixed] \in S
  OBVIOUS
<1> HIDE DEF S
<1>3. /\ [[x EXCEPT !.pc = "write"] EXCEPT !.mixed = mixed] \in S
      /\ [[[x EXCEPT !.pc = "read"] EXCEPT !.got = got] EXCEPT !.mixed = mixed] \in S
      /\ [[x EXCEPT !.pc = "assign"] EXCEPT !.got = got] \in S
  BY <1>1, <1>2
<1>4. S \subseteq Invals
  BY DEF S, Invals
<1>. QED  BY <1>3, <1>4

LEMMA VersionFacts == 0 \in Version /\ {} \in Manifest
BY IsrAssumption DEF Version, Manifest

LEMMA TypeInit == Init => TypeOK
BY VersionFacts, RunTypes, InvalTypes DEF Init, TypeOK, Manifest

(* A write that is mixed up keeps its record but for the flag. *)
LEMMA MixedRun ==
  ASSUME run \in [Runner -> Runs]
  PROVE  /\ Mixed(run) \in [Runner -> Runs]
         /\ \A w \in Runner : /\ Mixed(run)[w].pc = run[w].pc
                              /\ run[w].pc \in Working => Mixed(run)[w].page = run[w].page
<1>1. DOMAIN run = Runner
  OBVIOUS
<1>2. ASSUME NEW w \in Runner, run[w].pc = "write"
      PROVE  /\ [run[w] EXCEPT !.mixed = TRUE] \in Runs
             /\ [run[w] EXCEPT !.mixed = TRUE].pc = run[w].pc
             /\ [run[w] EXCEPT !.mixed = TRUE].page = run[w].page
  BY <1>2 DEF Runs, Off
<1>. QED  BY <1>1, <1>2 DEF Mixed, Writing

LEMMA MixedInval ==
  ASSUME inval \in [Caller -> Invals]
  PROVE  /\ Mixed(inval) \in [Caller -> Invals]
         /\ \A c \in Caller : Mixed(inval)[c].pc = inval[c].pc
<1>1. DOMAIN inval = Caller
  OBVIOUS
<1>2. ASSUME NEW c \in Caller, inval[c].pc = "write"
      PROVE  /\ [inval[c] EXCEPT !.mixed = TRUE] \in Invals
             /\ [inval[c] EXCEPT !.mixed = TRUE].pc = inval[c].pc
  BY <1>2 DEF Invals, Off
<1>. QED  BY <1>1, <1>2 DEF Mixed, Writing

LEMMA DisturbedType ==
  ASSUME inval \in [Caller -> Invals]
  PROVE  Disturbed \in [Caller -> Invals]
<1>1. ASSUME NEW c \in Caller, inval[c] # Off
      PROVE  [inval[c] EXCEPT !.pages = {}, !.since = 0] \in Invals
  BY <1>1, VersionFacts DEF Invals
<1>. QED  BY <1>1, InvalTypes DEF Disturbed

LEMMA CrashTypes == Crash => /\ mem' \in Manifest /\ revalidating' \in SUBSET Page
                             /\ run' \in [Runner -> Runs] /\ inval' \in [Caller -> Invals]
                             /\ up' \in BOOLEAN
BY RunTypes, InvalTypes, VersionFacts DEF Crash

LEMMA TypeStep == TypeOK /\ [Next]_vars => TypeOK'
<1> SUFFICES ASSUME TypeOK, [Next]_vars PROVE TypeOK'
  OBVIOUS
<1>0. /\ \A w \in Runner : run[w] \in Runs
      /\ \A c \in Caller : inval[c] \in Invals
  BY DEF TypeOK
<1>1. CASE DataChanges
  <2>1. data' \in Version
    BY <1>1, IsrAssumption DEF DataChanges, TypeOK, Version
  <2>. QED  BY <1>1, <2>1 DEF DataChanges, TypeOK, file
<1>2. CASE Restart
  BY <1>2 DEF Restart, TypeOK, file, history
<1>3. ASSUME NEW p \in Page, NEW w \in Runner, ServeStale(p, w) PROVE TypeOK'
  BY <1>3, RunTypes, DisturbedType DEF ServeStale, TypeOK, file, history
<1>4. ASSUME NEW w \in Runner, Render(w) PROVE TypeOK'
  <2>1. run[w].page \in Page
    BY <1>0, <1>4, RunFacts DEF Render, Working
  <2>. QED  BY <1>4, <2>1, RunTypes DEF Render, Shown, TypeOK, file, history
<1>5. ASSUME NEW w \in Runner, Save(w) PROVE TypeOK'
  <2>1. run[w].page \in Page /\ run[w].ver \in Version
    BY <1>0, <1>5, RunFacts DEF Save, Working
  <2>. QED  BY <1>5, <2>1, RunTypes DEF Save, TypeOK, file, history
<1>6. ASSUME NEW w \in Runner, Load(w) PROVE TypeOK'
  <2>1. run[w].page \in Page /\ Cleared(disk, run[w].page) \in Manifest
    BY <1>0, <1>6, RunFacts DEF Load, Working, Cleared, TypeOK, Manifest
  <2>. QED  BY <1>6, <2>1, RunTypes DEF Load, TypeOK, file, history
<1>7. ASSUME NEW w \in Runner, WriteBegin(w) PROVE TypeOK'
  <2>1. run[w].page \in Page /\ run[w].got \in Manifest /\ Overlaps \in BOOLEAN
    BY <1>0, <1>7, RunFacts DEF WriteBegin, Working, Overlaps
  <2>2. Mixed(run) \in [Runner -> Runs] /\ Mixed(inval) \in [Caller -> Invals]
    BY MixedRun, MixedInval DEF TypeOK
  <2>3. run' \in [Runner -> Runs]
    BY <1>7, <2>1, <2>2, RunTypes DEF WriteBegin
  <2>. QED  BY <1>7, <2>2, <2>3 DEF WriteBegin, TypeOK, history
<1>8. ASSUME NEW w \in Runner, NEW failed \in BOOLEAN, run[w].pc \in Working, Finally(w, failed)
      PROVE  revalidating' \in SUBSET Page /\ run' \in [Runner -> Runs]
  BY <1>8, RunTypes DEF Finally, Released, TypeOK
<1>9. ASSUME NEW w \in Runner, WriteEnd(w) PROVE TypeOK'
  <2>1. run[w].got \in Manifest
    BY <1>0, <1>9, RunFacts DEF WriteEnd
  <2>2. revalidating' \in SUBSET Page /\ run' \in [Runner -> Runs]
    BY <1>8, <1>9 DEF WriteEnd, Working
  <2>3. disk' \in Manifest /\ torn' \in BOOLEAN
    BY <1>9, <2>1 DEF WriteEnd, Stored
  <2>. QED  BY <1>9, <2>2, <2>3 DEF WriteEnd, TypeOK, history
<1>10. ASSUME NEW w \in Runner, RegenerationFails(w) PROVE TypeOK'
  <2>1. revalidating' \in SUBSET Page /\ run' \in [Runner -> Runs]
    BY <1>8, <1>10 DEF RegenerationFails, Working
  <2>. QED  BY <1>10, <2>1 DEF RegenerationFails, TypeOK, file, history
<1>11. ASSUME NEW w \in Runner, Reload(w) PROVE TypeOK'
  <2>1. run[w].fatal \in BOOLEAN
    BY <1>0, <1>11, RunFacts DEF Reload
  <2>2. /\ mem' \in Manifest /\ revalidating' \in SUBSET Page
        /\ run' \in [Runner -> Runs] /\ inval' \in [Caller -> Invals] /\ up' \in BOOLEAN
    BY <1>11, <2>1, CrashTypes, RunTypes DEF Reload, TypeOK
  <2>. QED  BY <1>11, <2>2 DEF Reload, TypeOK, file, history
<1>12. ASSUME NEW w \in Runner, Assign(w) PROVE TypeOK'
  <2>1. run[w].got \in Manifest
    BY <1>0, <1>12, RunFacts DEF Assign
  <2>2. /\ mem' \in Manifest /\ revalidating' \in SUBSET Page
        /\ run' \in [Runner -> Runs] /\ inval' \in [Caller -> Invals] /\ up' \in BOOLEAN
    BY <1>12, <2>1, CrashTypes, RunTypes DEF Assign, TypeOK
  <2>. QED  BY <1>12, <2>2 DEF Assign, TypeOK, file, history
<1>13. ASSUME NEW c \in Caller, NEW T \in SUBSET Page, NEW kind \in {"path", "resolved"},
              Revalidate(c, T, kind)
       PROVE  TypeOK'
  <2>1. mem \cup T \in Manifest /\ T \in Manifest /\ data \in Version
    BY DEF TypeOK, Manifest
  <2>2. inval' \in [Caller -> Invals]
    BY <1>13, <2>1, DisturbedType, InvalTypes, VersionFacts DEF Revalidate, TypeOK
  <2>. QED  BY <1>13, <2>2 DEF Revalidate, TypeOK, file, history
<1>14. ASSUME NEW c \in Caller, RevalidateBegin(c) PROVE TypeOK'
  <2>1. Mixed(inval) \in [Caller -> Invals] /\ Mixed(run) \in [Runner -> Runs]
    BY MixedRun, MixedInval DEF TypeOK
  <2>2. Mixed(inval)[c] \in Invals /\ Mixed(inval)[c].pc = "store" /\ Overlaps \in BOOLEAN
    <3>1. Mixed(inval)[c].pc = inval[c].pc
      BY MixedInval DEF TypeOK
    <3>2. Overlaps \in BOOLEAN
      BY DEF Overlaps
    <3>. QED  BY <1>14, <2>1, <3>1, <3>2 DEF RevalidateBegin
  <2>3. [Mixed(inval)[c] EXCEPT !.pc = "write", !.mixed = Overlaps] \in Invals
    BY <2>2, VersionFacts, InvalUpdates
  <2>4. inval' \in [Caller -> Invals]
    BY <1>14, <2>1, <2>3 DEF RevalidateBegin
  <2>. QED  BY <1>14, <2>1, <2>4 DEF RevalidateBegin, TypeOK, history
<1>15. ASSUME NEW c \in Caller, inval[c].pc # "off", Kept(c) PROVE promised' \in [Page -> Version]
  BY <1>0, <1>15, InvalFacts DEF Kept, TypeOK
<1>16. ASSUME NEW c \in Caller, RevalidateEnd(c) PROVE TypeOK'
  <2>1. inval[c].got \in Manifest
    BY <1>0, <1>16, InvalFacts DEF RevalidateEnd
  <2>2. disk' \in Manifest /\ torn' \in BOOLEAN
    BY <1>16, <2>1 DEF RevalidateEnd, Stored
  <2>3. inval[c] \in Invals /\ inval[c].pc = "write"
    BY <1>0, <1>16 DEF RevalidateEnd
  <2>4. [inval[c] EXCEPT !.pc = "read", !.got = {}, !.mixed = FALSE] \in Invals
    BY <2>3, VersionFacts, InvalUpdates
  <2>5. inval' \in [Caller -> Invals]
    BY <1>16, <2>4, InvalTypes DEF RevalidateEnd, TypeOK
  <2>6. mem' \in Manifest /\ promised' \in [Page -> Version]
    BY <1>15, <1>16, <2>1 DEF RevalidateEnd, TypeOK
  <2>. QED  BY <1>16, <2>2, <2>5, <2>6 DEF RevalidateEnd, TypeOK
<1>17. ASSUME NEW c \in Caller, RevalidateRead(c) PROVE TypeOK'
  <2>1. inval[c] \in Invals /\ inval[c].pc = "read" /\ disk \in Manifest
    BY <1>0, <1>17 DEF RevalidateRead, TypeOK
  <2>2. [inval[c] EXCEPT !.pc = "assign", !.got = disk] \in Invals
    BY <2>1, InvalUpdates
  <2>3. inval' \in [Caller -> Invals]
    BY <1>17, <2>2, InvalTypes DEF RevalidateRead, TypeOK
  <2>. QED  BY <1>17, <2>3 DEF RevalidateRead, TypeOK, file, history
<1>18. ASSUME NEW c \in Caller, RevalidateAssign(c) PROVE TypeOK'
  <2>1. mem' \in Manifest /\ promised' \in [Page -> Version]
    BY <1>0, <1>15, <1>18, InvalFacts DEF RevalidateAssign
  <2>. QED  BY <1>18, <2>1, InvalTypes DEF RevalidateAssign, TypeOK, file
<1>19. CASE UNCHANGED vars
  BY <1>19 DEF vars, TypeOK
<1>. QED
  BY <1>1, <1>2, <1>3, <1>4, <1>5, <1>6, <1>7, <1>9, <1>10, <1>11, <1>12, <1>13, <1>14,
     <1>16, <1>17, <1>18, <1>19
  DEF Next, RunnerStep, CallerStep

(* Every variable keeps its type. *)
THEOREM TypeCorrect == Spec => []TypeOK
BY TypeInit, TypeStep, PTL DEF Spec

----------------------------------------------------------------------------
(* One regeneration per page.  Every page in revalidatingPathnames has a   *)
(* regeneration, so a page that is not there has none and can get one; and *)
(* since it has only one, its end takes the page out.                      *)
Busy(w) == run[w].pc \in Working
IInv == TypeOK /\ SingleFlight /\ RevalidatingIsWorking

(* Steps that end no regeneration and start none. *)
LEMMA BusyKept ==
  ASSUME IInv, revalidating' = revalidating,
         \A w \in Runner : /\ Busy(w)' <=> Busy(w)
                           /\ Busy(w) => run'[w].page = run[w].page
  PROVE  SingleFlight' /\ RevalidatingIsWorking'
BY DEF IInv, SingleFlight, RevalidatingIsWorking, Busy

LEMMA FinallyStep ==
  ASSUME IInv, NEW w \in Runner, Busy(w), NEW failed, Finally(w, failed)
  PROVE  SingleFlight' /\ RevalidatingIsWorking'
<1>1. /\ revalidating' = revalidating \ {run[w].page}
      /\ \A x \in Runner \ {w} : run'[x] = run[x]
      /\ run'[w].pc \notin Working
  BY DEF Finally, Released, IInv, TypeOK, Working
<1>2. \A x \in Runner \ {w} : run[x].pc \in Working => run[x].page # run[w].page
  BY DEF IInv, SingleFlight, Busy
<1>3. RevalidatingIsWorking'
  BY <1>1, <1>2 DEF IInv, RevalidatingIsWorking
<1>. QED  BY <1>1, <1>3 DEF IInv, SingleFlight

LEMMA CrashStep == Crash => SingleFlight' /\ RevalidatingIsWorking'
BY DEF Crash, SingleFlight, RevalidatingIsWorking, Working, Off

LEMMA FlightStep == IInv /\ [Next]_vars => SingleFlight' /\ RevalidatingIsWorking'
<1> SUFFICES ASSUME IInv, [Next]_vars PROVE SingleFlight' /\ RevalidatingIsWorking'
  OBVIOUS
<1>0. TypeOK
  BY DEF IInv
<1>1. CASE DataChanges \/ Restart \/ UNCHANGED vars
  BY <1>1, BusyKept DEF DataChanges, Restart, vars, Busy
<1>2. ASSUME NEW p \in Page, NEW w \in Runner, ServeStale(p, w)
      PROVE  SingleFlight' /\ RevalidatingIsWorking'
  <2>1. /\ revalidating' = revalidating \cup {p}
        /\ \A x \in Runner \ {w} : run'[x] = run[x]
        /\ run'[w].pc \in Working /\ run'[w].page = p
        /\ run[w].pc \notin Working
    BY <1>0, <1>2 DEF ServeStale, TypeOK, Working, Off
  <2>2. \A x \in Runner : run[x].pc \in Working => run[x].page # p
    BY <1>2 DEF ServeStale, FirstToRevalidate, IInv, RevalidatingIsWorking
  <2>3. SingleFlight'
    BY <2>1, <2>2 DEF IInv, SingleFlight
  <2>. QED  BY <2>1, <2>3 DEF IInv, RevalidatingIsWorking
<1>3. ASSUME NEW w \in Runner, Render(w) \/ Save(w) \/ Load(w)
      PROVE  SingleFlight' /\ RevalidatingIsWorking'
  <2>1. /\ \A x \in Runner \ {w} : run'[x] = run[x]
        /\ run'[w].pc \in Working /\ run[w].pc \in Working
        /\ run'[w].page = run[w].page
        /\ revalidating' = revalidating
    BY <1>0, <1>3 DEF Render, Save, Load, Working, TypeOK
  <2>. QED  BY <2>1, BusyKept DEF Busy
<1>4. ASSUME NEW w \in Runner, WriteBegin(w) PROVE SingleFlight' /\ RevalidatingIsWorking'
  <2>1. /\ \A x \in Runner \ {w} : run'[x] = Mixed(run)[x]
        /\ run'[w].pc \in Working /\ run[w].pc \in Working
        /\ run'[w].page = run[w].page
        /\ revalidating' = revalidating
    BY <1>0, <1>4, MixedRun DEF WriteBegin, Working, TypeOK
  <2>. QED  BY <1>0, <2>1, MixedRun, BusyKept DEF Busy, TypeOK
<1>5. ASSUME NEW w \in Runner, WriteEnd(w) \/ RegenerationFails(w)
      PROVE  SingleFlight' /\ RevalidatingIsWorking'
  BY <1>5, FinallyStep DEF WriteEnd, RegenerationFails, Busy, Working
<1>6. ASSUME NEW w \in Runner, Reload(w) \/ Assign(w)
      PROVE  SingleFlight' /\ RevalidatingIsWorking'
  <2>1. CASE Crash
    BY <2>1, CrashStep
  <2>2. CASE ~Crash
    <3>1. /\ \A x \in Runner \ {w} : run'[x] = run[x]
          /\ run'[w].pc \notin Working /\ run[w].pc \notin Working
          /\ revalidating' = revalidating
      BY <1>0, <1>6, <2>2 DEF Reload, Assign, TypeOK, Working, Off
    <3>. QED  BY <3>1, BusyKept DEF Busy
  <2>. QED  BY <2>1, <2>2
<1>7. ASSUME NEW c \in Caller, RevalidateBegin(c)
      PROVE  SingleFlight' /\ RevalidatingIsWorking'
  BY <1>0, <1>7, MixedRun, BusyKept DEF RevalidateBegin, Busy, TypeOK
<1>8. ASSUME NEW c \in Caller,
             \/ \E T \in SUBSET Page, kind \in {"path", "resolved"} : Revalidate(c, T, kind)
             \/ RevalidateEnd(c) \/ RevalidateRead(c) \/ RevalidateAssign(c)
      PROVE  SingleFlight' /\ RevalidatingIsWorking'
  BY <1>8, BusyKept DEF Revalidate, RevalidateEnd, RevalidateRead, RevalidateAssign, Busy
<1>. QED
  BY <1>1, <1>2, <1>3, <1>4, <1>5, <1>6, <1>7, <1>8 DEF Next, RunnerStep, CallerStep

LEMMA FlightInit == Init => SingleFlight /\ RevalidatingIsWorking
BY DEF Init, SingleFlight, RevalidatingIsWorking, Working, Off

LEMMA Flights == Spec => []IInv
<1>1. Init => IInv
  BY TypeInit, FlightInit DEF IInv
<1>2. IInv /\ [Next]_vars => IInv'
  BY TypeStep, FlightStep DEF IInv
<1>. QED  BY <1>1, <1>2, PTL DEF Spec

(* Two regenerations of one page are never under way together: whatever    *)
(* requests, failures and restarts come, their .tmp files never meet.      *)
THEOREM OneRegenerationPerPage == Spec => []SingleFlight
BY Flights, PTL DEF IInv

(* No page stays in revalidatingPathnames without a regeneration that will *)
(* take it out: a failure never leaves a page stale for ever.              *)
THEOREM NoPageIsStuck == Spec => []RevalidatingIsWorking
BY Flights, PTL DEF IInv

----------------------------------------------------------------------------
(* No invalidation is lost.  A manifest keeps the promises if it marks     *)
(* every page whose file does not show yet what was promised of it.  All   *)
(* the copies there are must keep them: memory, the file, and those that a *)
(* regeneration or a call of the handler will store.  A promise is made    *)
(* only at the end of a call that ran alone, when no other copy exists.    *)
Keeps(M) == \A p \in Page : p \in M \/ html[p] >= promised[p]

(* Nothing is from the future. *)
Dated == \A p \in Page : html[p] <= data /\ promised[p] <= data

RunnerKeeps(w) ==
  /\ run[w].pc = "save" => /\ run[w].ver <= data
                          /\ run[w].ver >= html[run[w].page]
                          /\ run[w].ver >= promised[run[w].page]
  /\ run[w].pc \in {"load", "store", "write"} => html[run[w].page] >= promised[run[w].page]
  /\ run[w].pc \in {"store", "write", "assign"} => Keeps(run[w].got)

AloneSoFar(c) == /\ \A w \in Runner : run[w] = Off
                 /\ \A d \in Caller \ {c} : inval[d] = Off

CallerKeeps(c) ==
  /\ inval[c].pc \in {"store", "write", "assign"} => Keeps(inval[c].got)
  /\ inval[c].pc # "off" /\ inval[c].pages # {} =>
       /\ AloneSoFar(c)
       /\ inval[c].since <= data
       /\ inval[c].pc \in {"store", "write", "assign"} => inval[c].pages \subseteq inval[c].got
       /\ inval[c].pc \in {"read", "assign"} => inval[c].pages \subseteq disk

Promises ==
  /\ Dated
  /\ up => Keeps(mem)
  /\ Keeps(disk)
  /\ \A w \in Runner : RunnerKeeps(w)
  /\ \A c \in Caller : CallerKeeps(c)
PromiseInv == IInv /\ Promises

LEMMA PromiseInit == Init => PromiseInv
<1> SUFFICES ASSUME Init PROVE PromiseInv
  OBVIOUS
<1>1. IInv
  BY TypeInit, FlightInit DEF IInv
<1>2. Dated /\ Keeps(mem) /\ Keeps(disk)
  BY IsrAssumption DEF Init, Dated, Keeps
<1>3. \A w \in Runner : RunnerKeeps(w)
  BY DEF Init, RunnerKeeps, Off
<1>4. \A c \in Caller : CallerKeeps(c)
  BY DEF Init, CallerKeeps, Off
<1>. QED  BY <1>1, <1>2, <1>3, <1>4 DEF PromiseInv, Promises

LEMMA Numbers ==
  ASSUME TypeOK
  PROVE  /\ data \in Int
         /\ \A p \in Page : html[p] \in Int /\ promised[p] \in Int
         /\ \A w \in Runner : run[w].pc = "save" => run[w].ver \in Int /\ run[w].page \in Page
         /\ \A w \in Runner : run[w].pc \in Working => run[w].page \in Page
         /\ \A c \in Caller : inval[c].pc # "off" => inval[c].since \in Int
<1>1. Version \subseteq Int
  BY IsrAssumption DEF Version
<1>2. /\ \A w \in Runner : run[w] \in Runs
      /\ \A c \in Caller : inval[c] \in Invals
  BY DEF TypeOK
<1>3. \A w \in Runner : /\ run[w].pc = "save" => run[w].ver \in Version
                        /\ run[w].pc \in Working => run[w].page \in Page
  BY <1>2, RunFacts
<1>4. \A c \in Caller : inval[c].pc # "off" => inval[c].since \in Version
  BY <1>2, InvalFacts
<1>. QED  BY <1>1, <1>3, <1>4 DEF TypeOK, Working

(* A step that changes no page, no promise and not the file, and leaves    *)
(* the other runners and callers as they were, up to their flags.          *)
LEMMA RunnerKept ==
  ASSUME NEW w \in Runner, RunnerKeeps(w), UNCHANGED <<html, promised>>,
         TypeOK, data' >= data, data' \in Int,
         run'[w].pc = run[w].pc,
         run[w].pc \in Working => run'[w].page = run[w].page,
         run[w].pc = "save" => run'[w].ver = run[w].ver,
         run[w].pc \in {"store", "write", "assign"} => run'[w].got = run[w].got
  PROVE  RunnerKeeps(w)'
BY Numbers DEF RunnerKeeps, Keeps, Working

LEMMA CallerKept ==
  ASSUME NEW c \in Caller, CallerKeeps(c), UNCHANGED <<html, promised>>,
         TypeOK, data' >= data, data' \in Int,
         inval'[c].pc = inval[c].pc,
         inval[c].pc # "off" => /\ inval'[c].got = inval[c].got
                                /\ inval'[c].since = inval[c].since
                                /\ inval'[c].pages # {} =>
                                     /\ inval'[c].pages = inval[c].pages
                                     /\ AloneSoFar(c) => AloneSoFar(c)' /\ disk' = disk
  PROVE  CallerKeeps(c)'
BY Numbers DEF CallerKeeps, Keeps

LEMMA PromiseServe ==
  ASSUME PromiseInv, NEW p \in Page, NEW w \in Runner, ServeStale(p, w)
  PROVE  Promises'
<1>0. TypeOK /\ Promises
  BY DEF PromiseInv, IInv
<1>1. Dated' /\ (up => Keeps(mem))' /\ Keeps(disk)'
  BY <1>0 DEF ServeStale, Promises, Dated, Keeps, file, history
<1>2. ASSUME NEW x \in Runner PROVE RunnerKeeps(x)'
  <2>1. CASE x = w
    BY <1>0, <2>1 DEF ServeStale, RunnerKeeps, TypeOK
  <2>2. CASE x # w
    BY <1>0, <2>2, RunnerKept, Numbers DEF ServeStale, Promises, TypeOK, history
  <2>. QED  BY <2>1, <2>2
<1>3. ASSUME NEW c \in Caller PROVE CallerKeeps(c)'
  <2>1. inval[c] \in Invals
    BY <1>0 DEF TypeOK
  <2>2. CASE inval[c] = Off
    BY <1>0, <2>2 DEF ServeStale, Disturbed, CallerKeeps, Off
  <2>3. CASE inval[c] # Off
    <3>1. inval'[c] = [inval[c] EXCEPT !.pages = {}, !.since = 0]
      BY <2>3 DEF ServeStale, Disturbed
    <3>2. inval[c].pc \in {"store", "write", "assign"} => Keeps(inval[c].got)
      BY <1>0 DEF Promises, CallerKeeps
    <3>3. inval'[c].pc = inval[c].pc /\ inval'[c].got = inval[c].got /\ inval'[c].pages = {}
      BY <2>1, <2>3, <3>1, InvalFacts DEF Invals
    <3>. QED  BY <3>2, <3>3 DEF CallerKeeps, Keeps, ServeStale, history
  <2>. QED  BY <2>2, <2>3
<1>. QED  BY <1>1, <1>2, <1>3 DEF Promises

(* While a regeneration is under way no call has run alone. *)
LEMMA NoneAlone ==
  ASSUME PromiseInv, NEW w \in Runner, run[w].pc # "off",
         NEW c \in Caller, inval[c].pc # "off"
  PROVE  inval[c].pages = {}
BY DEF PromiseInv, Promises, CallerKeeps, AloneSoFar, Off

(* Steps of one runner that change neither page, file nor memory. *)
LEMMA PromiseRunner ==
  ASSUME PromiseInv, NEW w \in Runner, run[w].pc # "off", RunnerKeeps(w)',
         \A x \in Runner \ {w} : run'[x] = run[x],
         UNCHANGED <<data, html, mem, disk, inval, up, promised>>
  PROVE  Promises'
<1>0. TypeOK /\ Promises
  BY DEF PromiseInv, IInv
<1>1. Dated' /\ (up => Keeps(mem))' /\ Keeps(disk)'
  BY <1>0 DEF Promises, Dated, Keeps
<1>2. ASSUME NEW x \in Runner \ {w} PROVE RunnerKeeps(x)'
  BY <1>0, RunnerKept, Numbers DEF Promises
<1>3. ASSUME NEW c \in Caller PROVE CallerKeeps(c)'
  BY <1>0, NoneAlone, CallerKept, Numbers DEF Promises
<1>. QED  BY <1>1, <1>2, <1>3 DEF Promises

LEMMA PromiseRender ==
  ASSUME PromiseInv, NEW w \in Runner, Render(w) PROVE Promises'
<1>0. TypeOK /\ Promises
  BY DEF PromiseInv, IInv
<1>1. run'[w] = [pc |-> "save", page |-> run[w].page, ver |-> data]
  BY <1>0 DEF Render, Shown, TypeOK
<1>2. run[w].page \in Page
  BY <1>0, Numbers DEF Render, Working
<1>3. RunnerKeeps(w)'
  BY <1>0, <1>1, <1>2, Numbers DEF Render, RunnerKeeps, Promises, Dated, history
<1>. QED  BY <1>0, <1>3, PromiseRunner DEF Render, TypeOK, file, history

(* A saved page is newer than the one it replaces, and no other            *)
(* regeneration is about to save the same page.                            *)
LEMMA PromiseSave ==
  ASSUME PromiseInv, NEW w \in Runner, Save(w)
  PROVE  Promises' /\ \A p \in Page : html'[p] >= html[p]
<1>0. TypeOK /\ Promises /\ SingleFlight
  BY DEF PromiseInv, IInv
<1>1. /\ run[w].pc = "save" /\ run[w].page \in Page /\ run[w].ver \in Int
      /\ run[w].ver <= data /\ run[w].ver >= html[run[w].page]
      /\ run[w].ver >= promised[run[w].page]
  BY <1>0, Numbers DEF Save, Promises, RunnerKeeps
<1>2. /\ html' = [html EXCEPT ![run[w].page] = run[w].ver]
      /\ run'[w] = [pc |-> "load", page |-> run[w].page]
      /\ \A x \in Runner \ {w} : run'[x] = run[x]
      /\ UNCHANGED <<mem, file, revalidating, inval, up, data, promised>>
  BY <1>0 DEF Save, TypeOK, history
<1>3. \A p \in Page : html'[p] >= html[p] /\ html'[p] <= data
  BY <1>0, <1>1, <1>2, Numbers DEF TypeOK, Promises, Dated
<1>4. \A M : Keeps(M) => Keeps(M)'
  BY <1>0, <1>1, <1>2, <1>3, Numbers DEF Keeps, TypeOK
<1>5. Dated' /\ (up => Keeps(mem))' /\ Keeps(disk)'
  BY <1>0, <1>2, <1>3, <1>4 DEF Promises, Dated, file
<1>6. RunnerKeeps(w)'
  BY <1>0, <1>1, <1>2 DEF RunnerKeeps, TypeOK
<1>7. ASSUME NEW x \in Runner \ {w} PROVE RunnerKeeps(x)'
  <2>1. run[x].pc \in Working => run[x].page # run[w].page
    BY <1>0, <1>1 DEF SingleFlight, Working
  <2>2. run[x].pc \in Working => run[x].page \in Page /\ html'[run[x].page] = html[run[x].page]
    BY <1>0, <1>2, <2>1, Numbers DEF TypeOK
  <2>3. RunnerKeeps(x)
    BY <1>0 DEF Promises
  <2>. QED  BY <1>2, <1>4, <2>2, <2>3 DEF RunnerKeeps, Working
<1>8. ASSUME NEW c \in Caller PROVE CallerKeeps(c)'
  BY <1>0, <1>1, <1>2, <1>4, NoneAlone DEF Promises, CallerKeeps, file
<1>. QED  BY <1>3, <1>5, <1>6, <1>7, <1>8 DEF Promises

LEMMA PromiseLoad ==
  ASSUME PromiseInv, NEW w \in Runner, Load(w) PROVE Promises'
<1>0. TypeOK /\ Promises
  BY DEF PromiseInv, IInv
<1>1. run'[w] = [pc |-> "store", page |-> run[w].page, got |-> disk \ {run[w].page}]
  BY <1>0 DEF Load, Cleared, TypeOK
<1>2. html[run[w].page] >= promised[run[w].page]
  BY <1>0 DEF Load, Promises, RunnerKeeps
<1>3. RunnerKeeps(w)'
  BY <1>0, <1>1, <1>2 DEF Load, RunnerKeeps, Promises, Keeps, history
<1>. QED  BY <1>0, <1>3, PromiseRunner DEF Load, TypeOK, file, history

(* Overlapping writes lose no mark: only the flags of both change. *)
LEMMA MixedKeeps ==
  ASSUME TypeOK
  PROVE  /\ \A w \in Runner : /\ Mixed(run)[w].pc = run[w].pc
                              /\ run[w].pc \in Working => Mixed(run)[w].page = run[w].page
                              /\ run[w].pc = "save" => Mixed(run)[w].ver = run[w].ver
                              /\ run[w].pc \in {"store", "write", "assign"} =>
                                   Mixed(run)[w].got = run[w].got
         /\ \A c \in Caller : /\ Mixed(inval)[c].pc = inval[c].pc
                              /\ inval[c].pc # "off" =>
                                   /\ Mixed(inval)[c].got = inval[c].got
                                   /\ Mixed(inval)[c].pages = inval[c].pages
                                   /\ Mixed(inval)[c].since = inval[c].since
                                   /\ Mixed(inval)[c].kind = inval[c].kind
         /\ \A w \in Runner : run[w] = Off => Mixed(run)[w] = Off
         /\ \A c \in Caller : inval[c] = Off => Mixed(inval)[c] = Off
<1>1. DOMAIN run = Runner /\ DOMAIN inval = Caller
  BY DEF TypeOK
<1>2. ASSUME NEW w \in Runner, run[w].pc = "write"
      PROVE  /\ [run[w] EXCEPT !.mixed = TRUE].pc = run[w].pc
             /\ [run[w] EXCEPT !.mixed = TRUE].page = run[w].page
             /\ [run[w] EXCEPT !.mixed = TRUE].got = run[w].got
  BY <1>2 DEF TypeOK, Runs, Off
<1>3. ASSUME NEW c \in Caller, inval[c].pc = "write"
      PROVE  /\ [inval[c] EXCEPT !.mixed = TRUE].pc = inval[c].pc
             /\ [inval[c] EXCEPT !.mixed = TRUE].got = inval[c].got
             /\ [inval[c] EXCEPT !.mixed = TRUE].pages = inval[c].pages
             /\ [inval[c] EXCEPT !.mixed = TRUE].since = inval[c].since
             /\ [inval[c] EXCEPT !.mixed = TRUE].kind = inval[c].kind
  BY <1>3 DEF TypeOK, Invals, Off
<1>. QED  BY <1>1, <1>2, <1>3 DEF Mixed, Writing, Off

LEMMA PromiseWriteBegin ==
  ASSUME PromiseInv, NEW w \in Runner, WriteBegin(w) PROVE Promises'
<1>0. TypeOK /\ Promises
  BY DEF PromiseInv, IInv
<1>1. Dated' /\ (up => Keeps(mem))' /\ Keeps(disk)'
  BY <1>0 DEF WriteBegin, Promises, Dated, Keeps, history
<1>2. Mixed(run) \in [Runner -> Runs]
  BY <1>0, MixedRun DEF TypeOK
<1>3. /\ run'[w] = [pc |-> "write", page |-> run[w].page, got |-> run[w].got, mixed |-> Overlaps]
      /\ \A x \in Runner \ {w} : run'[x] = Mixed(run)[x]
  BY <1>2 DEF WriteBegin
<1>4. RunnerKeeps(w)'
  BY <1>0, <1>3 DEF WriteBegin, RunnerKeeps, Promises, Keeps, history
<1>5. ASSUME NEW x \in Runner \ {w} PROVE RunnerKeeps(x)'
  BY <1>0, <1>3, RunnerKept, MixedKeeps, Numbers DEF WriteBegin, Promises, history
<1>6. ASSUME NEW c \in Caller PROVE CallerKeeps(c)'
  <2>1. /\ inval'[c].pc = inval[c].pc
        /\ inval[c].pc # "off" => /\ inval'[c].got = inval[c].got
                                  /\ inval'[c].since = inval[c].since
                                  /\ inval'[c].pages = {}
    BY <1>0, MixedKeeps, NoneAlone DEF WriteBegin
  <2>2. CallerKeeps(c) /\ UNCHANGED <<html, promised, data>> /\ data >= data /\ data \in Int
    BY <1>0, Numbers DEF WriteBegin, Promises, history
  <2>. QED  BY <1>0, <2>1, <2>2, CallerKept
<1>. QED  BY <1>1, <1>4, <1>5, <1>6 DEF Promises

(* The end of a write puts a copy that keeps the promises into the file. *)
LEMMA PromiseWriteEnd ==
  ASSUME PromiseInv, NEW w \in Runner, WriteEnd(w) PROVE Promises'
<1>0. TypeOK /\ Promises
  BY DEF PromiseInv, IInv
<1>1. /\ run'[w].pc = "reload" /\ \A x \in Runner \ {w} : run'[x] = run[x]
      /\ disk' = run[w].got /\ Keeps(run[w].got)
      /\ UNCHANGED <<html, mem, inval, up, data, promised>>
  BY <1>0 DEF WriteEnd, Finally, Stored, TypeOK, Promises, RunnerKeeps, history
<1>2. Dated' /\ (up => Keeps(mem))' /\ Keeps(disk)'
  BY <1>0, <1>1 DEF Promises, Dated, Keeps
<1>3. RunnerKeeps(w)'
  BY <1>1 DEF RunnerKeeps
<1>4. ASSUME NEW x \in Runner \ {w} PROVE RunnerKeeps(x)'
  BY <1>0, <1>1, RunnerKept, Numbers DEF Promises
<1>5. ASSUME NEW c \in Caller PROVE CallerKeeps(c)'
  <2>1. inval[c].pc # "off" => inval[c].pages = {}
    BY NoneAlone DEF WriteEnd
  <2>. QED  BY <1>0, <1>1, <2>1, CallerKept, Numbers DEF Promises
<1>. QED  BY <1>2, <1>3, <1>4, <1>5 DEF Promises

LEMMA PromiseFails ==
  ASSUME PromiseInv, NEW w \in Runner, RegenerationFails(w) PROVE Promises'
<1>0. TypeOK
  BY DEF PromiseInv, IInv
<1>1. run'[w].pc = "reload" /\ \A x \in Runner \ {w} : run'[x] = run[x]
  BY <1>0 DEF RegenerationFails, Finally, TypeOK
<1>2. RunnerKeeps(w)'
  BY <1>1 DEF RunnerKeeps
<1>. QED  BY <1>1, <1>2, PromiseRunner DEF RegenerationFails, file, history

(* After a crash only the files are left. *)
LEMMA PromiseCrash ==
  ASSUME PromiseInv, Crash, UNCHANGED <<html, file, history>> PROVE Promises'
<1>0. Promises
  BY DEF PromiseInv
<1>1. Dated' /\ (up => Keeps(mem))' /\ Keeps(disk)'
  BY <1>0 DEF Crash, Promises, Dated, Keeps, file, history
<1>2. \A w \in Runner : RunnerKeeps(w)'
  BY DEF Crash, RunnerKeeps, Off
<1>3. \A c \in Caller : CallerKeeps(c)'
  BY DEF Crash, CallerKeeps, Off
<1>. QED  BY <1>1, <1>2, <1>3 DEF Promises

LEMMA PromiseReload ==
  ASSUME PromiseInv, NEW w \in Runner, Reload(w) PROVE Promises'
<1>0. TypeOK /\ Promises
  BY DEF PromiseInv, IInv
<1>1. CASE torn
  BY <1>1, PromiseCrash DEF Reload
<1>2. CASE ~torn
  <2>1. /\ run'[w].pc = "assign" /\ run'[w].got = disk
        /\ \A x \in Runner \ {w} : run'[x] = run[x]
        /\ UNCHANGED <<data, html, mem, disk, inval, up, promised>>
    BY <1>0, <1>2 DEF Reload, TypeOK, file, history
  <2>2. RunnerKeeps(w)'
    BY <1>0, <2>1 DEF RunnerKeeps, Promises, Keeps
  <2>. QED  BY <2>1, <2>2, PromiseRunner DEF Reload
<1>. QED  BY <1>1, <1>2

LEMMA PromiseAssign ==
  ASSUME PromiseInv, NEW w \in Runner, Assign(w) PROVE Promises'
<1>0. TypeOK /\ Promises
  BY DEF PromiseInv, IInv
<1>1. CASE run[w].fatal
  BY <1>1, PromiseCrash DEF Assign
<1>2. CASE ~run[w].fatal
  <2>1. /\ mem' = run[w].got /\ Keeps(run[w].got)
        /\ run'[w] = Off /\ \A x \in Runner \ {w} : run'[x] = run[x]
        /\ UNCHANGED <<data, html, disk, inval, up, promised>>
    BY <1>0, <1>2 DEF Assign, TypeOK, Promises, RunnerKeeps, file, history
  <2>2. Dated' /\ (up => Keeps(mem))' /\ Keeps(disk)'
    BY <1>0, <2>1 DEF Promises, Dated, Keeps
  <2>3. RunnerKeeps(w)'
    BY <2>1 DEF RunnerKeeps, Off
  <2>4. ASSUME NEW x \in Runner \ {w} PROVE RunnerKeeps(x)'
    BY <1>0, <2>1, RunnerKept, Numbers DEF Promises
  <2>5. ASSUME NEW c \in Caller PROVE CallerKeeps(c)'
    <3>1. inval[c].pc # "off" => inval[c].pages = {}
      BY NoneAlone DEF Assign
    <3>. QED  BY <1>0, <2>1, <3>1, CallerKept, Numbers DEF Promises
  <2>. QED  BY <2>2, <2>3, <2>4, <2>5 DEF Promises
<1>. QED  BY <1>1, <1>2

(* A call begins with the marks of memory and its own. *)
LEMMA PromiseRevalidate ==
  ASSUME PromiseInv, NEW c \in Caller, NEW T \in SUBSET Page,
         NEW kind \in {"path", "resolved"}, Revalidate(c, T, kind)
  PROVE  Promises'
<1>0. TypeOK /\ Promises
  BY DEF PromiseInv, IInv
<1>1. Dated' /\ (up => Keeps(mem))' /\ Keeps(disk)'
  BY <1>0 DEF Revalidate, Promises, Dated, Keeps, file, history
<1>2. ASSUME NEW w \in Runner PROVE RunnerKeeps(w)'
  BY <1>0, RunnerKept, Numbers DEF Revalidate, Promises, history
<1>3. CallerKeeps(c)'
  <2>1. /\ inval'[c].pc = "store" /\ inval'[c].got = mem \cup T
        /\ inval'[c].pages = IF Alone(c) THEN T ELSE {}
        /\ inval'[c].since = IF Alone(c) THEN data ELSE 0
    BY <1>0 DEF Revalidate, Disturbed
  <2>2. Keeps(mem) /\ UNCHANGED <<html, promised, data, run>>
    BY <1>0 DEF Revalidate, Promises, history
  <2>3. inval'[c].pages # {} => AloneSoFar(c)'
    <3>1. ASSUME NEW d \in Caller \ {c}, inval[d] = Off PROVE inval'[d] = Off
      BY <1>0, <3>1 DEF Revalidate, Disturbed
    <3>. QED  BY <2>1, <2>2, <3>1 DEF Alone, AloneSoFar
  <2>. QED  BY <1>0, <2>1, <2>2, <2>3, Numbers DEF CallerKeeps, Keeps
<1>4. ASSUME NEW d \in Caller \ {c} PROVE CallerKeeps(d)'
  <2>1. inval[d] \in Invals
    BY <1>0 DEF TypeOK
  <2>2. CASE inval[d] = Off
    BY <1>0, <2>2 DEF Revalidate, Disturbed, CallerKeeps, Off
  <2>3. CASE inval[d] # Off
    <3>1. inval'[d] = [inval[d] EXCEPT !.pages = {}, !.since = 0]
      BY <2>3 DEF Revalidate, Disturbed
    <3>2. inval'[d].pc = inval[d].pc /\ inval'[d].got = inval[d].got /\ inval'[d].pages = {}
      BY <2>1, <2>3, <3>1 DEF Invals
    <3>. QED  BY <1>0, <3>2 DEF Promises, CallerKeeps, Keeps, Revalidate, history
  <2>. QED  BY <2>2, <2>3
<1>. QED  BY <1>1, <1>2, <1>3, <1>4 DEF Promises

LEMMA PromiseRevalidateBegin ==
  ASSUME PromiseInv, NEW c \in Caller, RevalidateBegin(c) PROVE Promises'
<1>0. TypeOK /\ Promises
  BY DEF PromiseInv, IInv
<1>1. Dated' /\ (up => Keeps(mem))' /\ Keeps(disk)'
  BY <1>0 DEF RevalidateBegin, Promises, Dated, Keeps, history
<1>2. ASSUME NEW w \in Runner PROVE RunnerKeeps(w)'
  BY <1>0, RunnerKept, MixedKeeps, Numbers DEF RevalidateBegin, Promises, history
<1>3. Mixed(inval) \in [Caller -> Invals]
  BY <1>0, MixedInval DEF TypeOK
<1>4. /\ \A d \in Caller \ {c} : inval'[d] = Mixed(inval)[d]
      /\ inval'[c] = [[Mixed(inval)[c] EXCEPT !.pc = "write"] EXCEPT !.mixed = Overlaps]
  BY <1>3 DEF RevalidateBegin
<1>5. /\ inval'[c].pc = "write" /\ inval'[c].got = inval[c].got
      /\ inval'[c].pages = inval[c].pages /\ inval'[c].since = inval[c].since
  <2>1. Mixed(inval)[c] \in Invals /\ Mixed(inval)[c].pc = "store"
    BY <1>0, <1>3, MixedKeeps DEF RevalidateBegin
  <2>2. /\ Mixed(inval)[c].got = inval[c].got /\ Mixed(inval)[c].pages = inval[c].pages
        /\ Mixed(inval)[c].since = inval[c].since
    BY <1>0, MixedKeeps DEF RevalidateBegin
  <2>. QED  BY <1>4, <2>1, <2>2 DEF Invals, Off
<1>6. \A d \in Caller : AloneSoFar(d) => AloneSoFar(d)'
  <2>1. \A w \in Runner : run[w] = Off => run'[w] = Off
    BY <1>0, MixedKeeps DEF RevalidateBegin
  <2>2. \A d \in Caller \ {c} : inval[d] = Off => inval'[d] = Off
    BY <1>0, <1>4, MixedKeeps
  <2>3. inval[c] # Off
    BY DEF RevalidateBegin, Off
  <2>. QED  BY <2>1, <2>2, <2>3 DEF AloneSoFar
<1>7. CallerKeeps(c)'
  BY <1>0, <1>5, <1>6 DEF RevalidateBegin, Promises, CallerKeeps, Keeps, history
<1>8. ASSUME NEW d \in Caller \ {c} PROVE CallerKeeps(d)'
  <2>1. /\ inval'[d].pc = inval[d].pc
        /\ inval[d].pc # "off" => /\ inval'[d].got = inval[d].got
                                  /\ inval'[d].since = inval[d].since
                                  /\ inval'[d].pages = inval[d].pages
    BY <1>0, <1>4, MixedKeeps
  <2>2. CallerKeeps(d) /\ UNCHANGED <<html, promised, disk, data>> /\ data >= data /\ data \in Int
    BY <1>0, Numbers DEF RevalidateBegin, Promises, history
  <2>. QED  BY <1>0, <1>6, <2>1, <2>2, CallerKept
<1>. QED  BY <1>1, <1>2, <1>7, <1>8 DEF Promises

(* What a call that was not disturbed promises is marked in every copy     *)
(* there is: memory and the file.                                          *)
LEMMA KeptStep ==
  ASSUME PromiseInv, NEW c \in Caller, inval[c].pc # "off", Kept(c), html' = html
  PROVE  /\ \A M : Keeps(M) /\ inval[c].pages \subseteq M => Keeps(M)'
         /\ \A p \in Page : promised'[p] <= data
         /\ inval[c].pages = {} => promised' = promised
<1>0. TypeOK /\ Promises
  BY DEF PromiseInv, IInv
<1>1. \A p \in Page : promised'[p] = IF p \in inval[c].pages THEN inval[c].since ELSE promised[p]
  BY DEF Kept
<1>2. inval[c].pages # {} => inval[c].since <= data
  BY <1>0 DEF Promises, CallerKeeps
<1>3. inval[c].pages = {} => promised' = promised
  BY <1>0 DEF Kept, TypeOK
<1>. QED  BY <1>0, <1>1, <1>2, <1>3 DEF Keeps, Promises, Dated

LEMMA PromiseRevalidateEnd ==
  ASSUME PromiseInv, NEW c \in Caller, RevalidateEnd(c) PROVE Promises'
<1>0. TypeOK /\ Promises
  BY DEF PromiseInv, IInv
<1>1. /\ disk' = inval[c].got /\ Keeps(inval[c].got)
      /\ inval[c].pages \subseteq inval[c].got
      /\ UNCHANGED <<data, html, run, up>>
  BY <1>0 DEF RevalidateEnd, Stored, Promises, CallerKeeps
<1>2. \A d \in Caller \ {c} : /\ inval'[d] = inval[d]
                              /\ inval[d].pc # "off" => inval[d].pages = {}
  BY <1>0 DEF RevalidateEnd, TypeOK, Promises, CallerKeeps, AloneSoFar, Off
<1>3. CASE inval[c].kind = "path"
  <2>1. mem' = mem /\ promised' = promised
    BY <1>3 DEF RevalidateEnd
  <2>2. /\ inval'[c].pc = "read" /\ inval'[c].pages = inval[c].pages
        /\ inval'[c].since = inval[c].since
    <3>1. inval'[c] = [[[inval[c] EXCEPT !.pc = "read"] EXCEPT !.got = {}] EXCEPT !.mixed = FALSE]
      BY <1>0, <1>3 DEF RevalidateEnd, TypeOK
    <3>2. inval[c] \in Invals /\ inval[c].pc = "write"
      BY <1>0 DEF RevalidateEnd, TypeOK
    <3>. QED  BY <3>1, <3>2 DEF Invals, Off
  <2>3. Dated' /\ (up => Keeps(mem))' /\ Keeps(disk)'
    BY <1>0, <1>1, <2>1 DEF Promises, Dated, Keeps
  <2>4. ASSUME NEW w \in Runner PROVE RunnerKeeps(w)'
    BY <1>0, <1>1, <2>1, RunnerKept, Numbers DEF Promises
  <2>5. CallerKeeps(c)'
    <3>1. inval'[c].pages # {} => AloneSoFar(c) /\ inval'[c].since <= data
      BY <1>0, <2>2 DEF RevalidateEnd, Promises, CallerKeeps
    <3>2. AloneSoFar(c) => AloneSoFar(c)'
      BY <1>1, <1>2 DEF AloneSoFar
    <3>. QED  BY <1>1, <2>2, <3>1, <3>2 DEF CallerKeeps
  <2>6. ASSUME NEW d \in Caller \ {c} PROVE CallerKeeps(d)'
    <3>1. /\ inval'[d] = inval[d] /\ (inval[d].pc # "off" => inval[d].pages = {})
          /\ CallerKeeps(d) /\ data >= data /\ data \in Int
      BY <1>0, <1>2, Numbers DEF Promises
    <3>. QED  BY <1>0, <1>1, <2>1, <3>1, CallerKept
  <2>. QED  BY <2>3, <2>4, <2>5, <2>6 DEF Promises
<1>4. CASE inval[c].kind # "path"
  <2>1. mem' = inval[c].got /\ Kept(c) /\ inval'[c] = Off /\ inval[c].pc # "off"
    BY <1>0, <1>4 DEF RevalidateEnd, TypeOK
  <2>2. Dated' /\ (up => Keeps(mem))' /\ Keeps(disk)'
    BY <1>0, <1>1, <2>1, KeptStep DEF Promises, Dated
  <2>3. ASSUME NEW w \in Runner PROVE RunnerKeeps(w)'
    <3>1. CASE inval[c].pages = {}
      BY <1>0, <1>1, <2>1, <3>1, KeptStep, RunnerKept, Numbers DEF Promises
    <3>2. CASE inval[c].pages # {}
      BY <1>0, <1>1, <2>1, <3>2 DEF Promises, CallerKeeps, AloneSoFar, RunnerKeeps, Off
    <3>. QED  BY <3>1, <3>2
  <2>4. CallerKeeps(c)'
    BY <2>1 DEF CallerKeeps, Off
  <2>5. ASSUME NEW d \in Caller \ {c} PROVE CallerKeeps(d)'
    <3>1. /\ inval'[d] = inval[d] /\ (inval[d].pc # "off" => inval[d].pages = {})
          /\ CallerKeeps(d) /\ data >= data /\ data \in Int
      BY <1>0, <1>2, Numbers DEF Promises
    <3>2. CASE inval[c].pages = {}
      <4>1. promised' = promised
        BY <1>1, <2>1, <3>2, KeptStep
      <4>. QED  BY <1>0, <1>1, <3>1, <4>1, CallerKept
    <3>3. CASE inval[c].pages # {}
      <4>1. inval[d] = Off
        BY <1>0, <2>1, <3>3 DEF Promises, CallerKeeps, AloneSoFar
      <4>. QED  BY <3>1, <4>1 DEF CallerKeeps, Off
    <3>. QED  BY <3>2, <3>3
  <2>. QED  BY <2>2, <2>3, <2>4, <2>5 DEF Promises
<1>. QED  BY <1>3, <1>4

LEMMA PromiseRevalidateRead ==
  ASSUME PromiseInv, NEW c \in Caller, RevalidateRead(c) PROVE Promises'
<1>0. TypeOK /\ Promises
  BY DEF PromiseInv, IInv
<1>1. /\ UNCHANGED <<data, html, mem, disk, promised, run, up>>
      /\ \A d \in Caller \ {c} : inval'[d] = inval[d]
  BY <1>0 DEF RevalidateRead, TypeOK, file, history
<1>2. Dated' /\ (up => Keeps(mem))' /\ Keeps(disk)'
  BY <1>0, <1>1 DEF Promises, Dated, Keeps
<1>3. ASSUME NEW w \in Runner PROVE RunnerKeeps(w)'
  BY <1>0, <1>1, RunnerKept, Numbers DEF Promises
<1>4. CallerKeeps(c)'
  <2>1. CASE torn
    BY <1>0, <2>1 DEF RevalidateRead, TypeOK, CallerKeeps, Off
  <2>2. CASE ~torn
    <3>1. inval'[c] = [[inval[c] EXCEPT !.pc = "assign"] EXCEPT !.got = disk]
      BY <1>0, <2>2 DEF RevalidateRead, TypeOK
    <3>2. /\ inval'[c].pc = "assign" /\ inval'[c].got = disk
          /\ inval'[c].pages = inval[c].pages /\ inval'[c].since = inval[c].since
      <4>1. inval[c] \in Invals /\ inval[c].pc = "read"
        BY <1>0 DEF RevalidateRead, TypeOK
      <4>. QED  BY <3>1, <4>1 DEF Invals, Off
    <3>. QED  BY <1>0, <1>1, <3>2
              DEF RevalidateRead, Promises, CallerKeeps, AloneSoFar, Keeps
  <2>. QED  BY <2>1, <2>2
<1>5. ASSUME NEW d \in Caller \ {c} PROVE CallerKeeps(d)'
  <2>1. inval[d].pc # "off" => inval[d].pages = {}
    BY <1>0 DEF RevalidateRead, Promises, CallerKeeps, AloneSoFar, Off
  <2>. QED  BY <1>0, <1>1, <2>1, CallerKept, Numbers DEF Promises
<1>. QED  BY <1>2, <1>3, <1>4, <1>5 DEF Promises

LEMMA PromiseRevalidateAssign ==
  ASSUME PromiseInv, NEW c \in Caller, RevalidateAssign(c) PROVE Promises'
<1>0. TypeOK /\ Promises
  BY DEF PromiseInv, IInv
<1>1. /\ mem' = inval[c].got /\ Kept(c) /\ inval'[c] = Off /\ inval[c].pc # "off"
      /\ Keeps(inval[c].got) /\ inval[c].pages \subseteq inval[c].got \cap disk
      /\ UNCHANGED <<data, html, disk, run, up>>
      /\ \A d \in Caller \ {c} : inval'[d] = inval[d]
  BY <1>0 DEF RevalidateAssign, TypeOK, Promises, CallerKeeps, file
<1>2. Dated' /\ (up => Keeps(mem))' /\ Keeps(disk)'
  BY <1>0, <1>1, KeptStep DEF Promises, Dated
<1>3. ASSUME NEW w \in Runner PROVE RunnerKeeps(w)'
  <2>1. CASE inval[c].pages = {}
    BY <1>0, <1>1, <2>1, KeptStep, RunnerKept, Numbers DEF Promises
  <2>2. CASE inval[c].pages # {}
    BY <1>0, <1>1, <2>2 DEF Promises, CallerKeeps, AloneSoFar, RunnerKeeps, Off
  <2>. QED  BY <2>1, <2>2
<1>4. CallerKeeps(c)'
  BY <1>1 DEF CallerKeeps, Off
<1>5. ASSUME NEW d \in Caller \ {c} PROVE CallerKeeps(d)'
  <2>1. CASE inval[c].pages = {}
    <3>1. inval[d].pc # "off" => inval[d].pages = {}
      BY <1>0, <1>1 DEF Promises, CallerKeeps, AloneSoFar, Off
    <3>. QED  BY <1>0, <1>1, <2>1, <3>1, KeptStep, CallerKept, Numbers DEF Promises
  <2>2. CASE inval[c].pages # {}
    BY <1>0, <1>1, <2>2 DEF Promises, CallerKeeps, AloneSoFar, Off
  <2>. QED  BY <2>1, <2>2
<1>. QED  BY <1>2, <1>3, <1>4, <1>5 DEF Promises

LEMMA PromiseStep == PromiseInv /\ [Next]_vars => Promises'
<1> SUFFICES ASSUME PromiseInv, [Next]_vars PROVE Promises'
  OBVIOUS
<1>0. TypeOK /\ Promises
  BY DEF PromiseInv, IInv
<1>1. CASE DataChanges
  <2>1. /\ data' = data + 1 /\ data \in Int
        /\ UNCHANGED <<html, mem, disk, run, inval, up, promised>>
    BY <1>0, <1>1, Numbers DEF DataChanges, file
  <2>2. Dated' /\ (up => Keeps(mem))' /\ Keeps(disk)'
    BY <1>0, <2>1, Numbers DEF Promises, Dated, Keeps
  <2>3. ASSUME NEW w \in Runner PROVE RunnerKeeps(w)'
    BY <1>0, <2>1, RunnerKept DEF Promises
  <2>4. ASSUME NEW c \in Caller PROVE CallerKeeps(c)'
    BY <1>0, <2>1, CallerKept DEF Promises, AloneSoFar
  <2>. QED  BY <2>2, <2>3, <2>4 DEF Promises
<1>2. CASE Restart
  BY <1>0, <1>2 DEF Restart, Promises, Dated, Keeps, RunnerKeeps, CallerKeeps, AloneSoFar,
                    file, history
<1>3. CASE UNCHANGED vars
  BY <1>0, <1>3 DEF vars, Promises, Dated, Keeps, RunnerKeeps, CallerKeeps, AloneSoFar
<1>. QED
  BY <1>1, <1>2, <1>3, PromiseServe, PromiseRender, PromiseSave, PromiseLoad,
     PromiseWriteBegin, PromiseWriteEnd, PromiseFails, PromiseReload, PromiseAssign,
     PromiseRevalidate, PromiseRevalidateBegin, PromiseRevalidateEnd,
     PromiseRevalidateRead, PromiseRevalidateAssign
  DEF Next, RunnerStep, CallerStep

LEMMA PromisesHold == Spec => []PromiseInv
<1>1. PromiseInv /\ [Next]_vars => PromiseInv'
  BY TypeStep, FlightStep, PromiseStep DEF PromiseInv, IInv
<1>. QED  BY <1>1, PromiseInit, PTL DEF Spec

(* An invalidation that ran while nothing else was under way is never      *)
(* lost, whatever regenerations, reloads, overlapping writes, crashes and  *)
(* restarts follow: until the page's file shows the data of that time, the *)
(* page is marked in the manifest that requests look at.                   *)
THEOREM NoInvalidationIsLost == Spec => []LoneInvalidationHolds
<1>1. PromiseInv => LoneInvalidationHolds
  <2>1. Promises /\ up => Keeps(mem)
    BY DEF Promises
  <2>. QED  BY <2>1 DEF PromiseInv, Keeps, LoneInvalidationHolds
<1>. QED  BY <1>1, PromisesHold, PTL

(* No step of any regeneration puts an older render of a page in the place *)
(* of a newer one.                                                         *)
THEOREM PagesOnlyGetNewer == Spec => HtmlNeverGoesBack
<1>1. PromiseInv /\ [Next]_vars => [\A p \in Page : html'[p] >= html[p]]_vars
  <2> SUFFICES ASSUME PromiseInv, Next PROVE \A p \in Page : html'[p] >= html[p]
    BY DEF PromiseInv
  <2>1. \A p \in Page : html[p] \in Int
    BY Numbers DEF PromiseInv, IInv
  <2>2. ASSUME NEW w \in Runner, Save(w) PROVE \A p \in Page : html'[p] >= html[p]
    BY <2>2, PromiseSave
  <2>3. CASE html' = html
    BY <2>1, <2>3
  <2>. QED
    BY <2>2, <2>3
    DEF Next, RunnerStep, CallerStep, DataChanges, Restart, ServeStale, Render, Load,
        WriteBegin, WriteEnd, RegenerationFails, Reload, Assign, Revalidate,
        RevalidateBegin, RevalidateEnd, RevalidateRead, RevalidateAssign
<1>. QED  BY <1>1, PromisesHold, PTL DEF Spec, HtmlNeverGoesBack
====================
