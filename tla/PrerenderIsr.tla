---------------------------- MODULE PrerenderIsr ----------------------------
(***************************************************************************)
(* Incremental static regeneration in the production server                *)
(* (sourceog-server/src/server.ts): prerendered pages, the manifest that   *)
(* says which of them are invalidated, kept in memory and in               *)
(* prerender-manifest.json, background regenerations started by requests,  *)
(* and the revalidation handler.                                           *)
(*                                                                         *)
(* A manifest is the set of the pages it marks invalidated.  fs.writeFile  *)
(* truncates the file before it fills it: meanwhile, and for good when two *)
(* writes of different length overlap, the file does not parse (torn).     *)
(* A rejected promise that nobody handles ends the process.                *)
(***************************************************************************)
EXTENDS Integers, FiniteSets

CONSTANTS Page,
          Timed,    \* the pages with a revalidate period: stale at any time
          Runner,   \* bound: regenerations and their reloads under way
          Caller,   \* calls of the revalidation handler
          MaxData   \* bound: changes of the data the pages show

ASSUME IsrAssumption == Timed \subseteq Page /\ MaxData \in Nat

VARIABLES data,         \* version of the data a render reads
          html,         \* the version each page's file shows
          mem,          \* prerenderManifest
          disk, torn,   \* prerender-manifest.json
          revalidating, \* revalidatingPathnames
          run,          \* the background regenerations
          inval,        \* the calls of the revalidation handler
          up,           \* the process is running
          promised      \* history: html[p] must reach this, or p be marked

vars == <<data, html, mem, disk, torn, revalidating, run, inval, up, promised>>
file == <<disk, torn>>
history == <<data, promised>>

Version == 0 .. MaxData
Manifest == SUBSET Page

(* A regeneration: renders, saves the html, loads the manifest, stores it, *)
(* and, no longer in revalidatingPathnames, reloads it into memory.        *)
Off == [pc |-> "off"]
Working == {"render", "save", "load", "store", "write"}
Runs == {Off}
  \cup [pc : {"render", "load"}, page : Page]
  \cup [pc : {"save"}, page : Page, ver : Version]
  \cup [pc : {"store"}, page : Page, got : Manifest]
  \cup [pc : {"write"}, page : Page, got : Manifest, mixed : BOOLEAN]
  \cup [pc : {"reload"}, fatal : BOOLEAN]
  \cup [pc : {"assign"}, fatal : BOOLEAN, got : Manifest]

(* A call of the handler: kind "path" (or tag) reads the file back, kind   *)
(* "resolved" keeps what it has written.  pages and since (history) are     *)
(* what it marks, and the data it is about, while it runs alone.           *)
Invals == {Off} \cup [pc : {"store", "write", "read", "assign"}, kind : {"path", "resolved"},
                      got : Manifest, mixed : BOOLEAN,
                      pages : Manifest, since : Version]

TypeOK ==
  /\ data \in Version
  /\ html \in [Page -> Version]
  /\ mem \in Manifest /\ disk \in Manifest /\ torn \in BOOLEAN
  /\ revalidating \in SUBSET Page
  /\ run \in [Runner -> Runs]
  /\ inval \in [Caller -> Invals]
  /\ up \in BOOLEAN
  /\ promised \in [Page -> Version]

Init ==
  /\ data = 0 /\ html = [p \in Page |-> 0]
  /\ mem = {} /\ disk = {} /\ torn = FALSE
  /\ revalidating = {}
  /\ run = [w \in Runner |-> Off]
  /\ inval = [c \in Caller |-> Off]
  /\ up = TRUE
  /\ promised = [p \in Page |-> 0]

----------------------------------------------------------------------------
(* fs.writeFile: every write under way when another starts is mixed up     *)
(* with it.                                                                *)
Writing(S) == {x \in DOMAIN S : S[x].pc = "write"}
Overlaps == Writing(run) # {} \/ Writing(inval) # {}
Mixed(S) == [x \in DOMAIN S |-> IF x \in Writing(S) THEN [S[x] EXCEPT !.mixed = TRUE]
                                ELSE S[x]]
Stored(x) == /\ disk' = x.got
             /\ IF x.mixed THEN torn' \in BOOLEAN ELSE torn' = FALSE

(* The end of the process: memory and everything under way is lost. *)
Crash == /\ up' = FALSE
         /\ mem' = {}
         /\ revalidating' = {}
         /\ run' = [w \in Runner |-> Off]
         /\ inval' = [c \in Caller |-> Off]

(* The server starts only from a manifest that parses. *)
Restart == /\ ~up /\ ~torn
           /\ up' = TRUE
           /\ mem' = disk
           /\ UNCHANGED <<html, file, history, revalidating, run, inval>>

DataChanges == /\ data < MaxData
               /\ data' = data + 1
               /\ UNCHANGED <<html, mem, file, revalidating, run, inval, up, promised>>

----------------------------------------------------------------------------
(* isPrerenderEntryStale: marked, or its period may be over. *)
Stale(p) == p \in mem \/ p \in Timed

NobodyRevalidates(p) == TRUE   \* mutated: every stale request regenerates
FirstToRevalidate(p) == p \notin revalidating

Disturbed == [c \in Caller |-> IF inval[c] = Off THEN Off
                               ELSE [inval[c] EXCEPT !.pages = {}, !.since = 0]]

(* A request for a stale page; a request that finds the page fresh, or     *)
(* already being revalidated, serves the file and changes nothing.         *)
ServeStale(p, w) ==
  /\ up
  /\ Stale(p) /\ FirstToRevalidate(p)
  /\ run[w] = Off
  /\ revalidating' = revalidating \cup {p}
  /\ run' = [run EXCEPT ![w] = [pc |-> "render", page |-> p]]
  /\ inval' = Disturbed
  /\ UNCHANGED <<html, mem, file, up, history>>

ShownUnlessEmpty(v) == IF v = 0 THEN -1 ELSE v   \* mutated: no html for the first data
Shown(v) == v

Render(w) ==
  /\ run[w].pc = "render"
  /\ run' = [run EXCEPT ![w] = [pc |-> "save", page |-> @.page, ver |-> Shown(data)]]
  /\ UNCHANGED <<html, mem, file, revalidating, inval, up, history>>

(* The html is written beside the file and renamed over it. *)
Save(w) ==
  /\ run[w].pc = "save"
  /\ html' = [html EXCEPT ![run[w].page] = run[w].ver]
  /\ run' = [run EXCEPT ![w] = [pc |-> "load", page |-> @.page]]
  /\ UNCHANGED <<mem, file, revalidating, inval, up, history>>

(* updatePrerenderEntry: load the manifest, replace the one entry, write.  *)
ClearedAll(m, p) == {}         \* mutated: resets the flag of every entry
Cleared(m, p) == m \ {p}

Load(w) ==
  /\ run[w].pc = "load" /\ ~torn
  /\ run' = [run EXCEPT ![w] = [pc |-> "store", page |-> @.page,
                                  got |-> Cleared(disk, @.page)]]
  /\ UNCHANGED <<html, mem, file, revalidating, inval, up, history>>

WriteBegin(w) ==
  /\ run[w].pc = "store"
  /\ torn' = TRUE
  /\ run' = [Mixed(run) EXCEPT ![w] = [pc |-> "write", page |-> run[w].page,
                                       got |-> run[w].got, mixed |-> Overlaps]]
  /\ inval' = Mixed(inval)
  /\ UNCHANGED <<html, mem, disk, revalidating, up, history>>

(* The finally handler of the regeneration, after success or failure.      *)
ReleasedOnSuccess(w, failed) == IF failed THEN {} ELSE {run[w].page}   \* mutated
Released(w, failed) == {run[w].page}

Finally(w, failed) ==
  /\ revalidating' = revalidating \ Released(w, failed)
  /\ run' = [run EXCEPT ![w] = [pc |-> "reload", fatal |-> failed]]

WriteEnd(w) ==
  /\ run[w].pc = "write"
  /\ Stored(run[w])
  /\ Finally(w, FALSE)
  /\ UNCHANGED <<html, mem, inval, up, history>>

(* Rendering, saving or loading fails. *)
RegenerationFails(w) ==
  /\ run[w].pc \in {"render", "save", "load"}
  /\ Finally(w, TRUE)
  /\ UNCHANGED <<html, mem, file, inval, up, history>>

(* onManifestUpdated. A manifest that does not parse rejects its promise.  *)
Reload(w) ==
  /\ run[w].pc = "reload"
  /\ IF torn
     THEN Crash
     ELSE /\ run' = [run EXCEPT ![w] = [pc |-> "assign", fatal |-> run[w].fatal, got |-> disk]]
          /\ UNCHANGED <<mem, revalidating, inval, up>>
  /\ UNCHANGED <<html, file, history>>

Assign(w) ==
  /\ run[w].pc = "assign"
  /\ IF run[w].fatal
     THEN Crash
     ELSE /\ mem' = run[w].got
          /\ run' = [run EXCEPT ![w] = Off]
          /\ UNCHANGED <<revalidating, inval, up>>
  /\ UNCHANGED <<html, file, history>>

----------------------------------------------------------------------------
(* The revalidation handler marks the pages of T on a copy of the manifest *)
(* in memory.  A resolved invalidation that changes nothing is not stored. *)
Alone(c) == /\ \A w \in Runner : run[w] = Off
            /\ \A d \in Caller \ {c} : inval[d] = Off

Revalidate(c, T, kind) ==
  /\ up
  /\ inval[c] = Off
  /\ kind = "resolved" => ~(T \subseteq mem)
  /\ inval' = [Disturbed EXCEPT ![c] =
                 [pc |-> "store", kind |-> kind, got |-> mem \cup T, mixed |-> FALSE,
                  pages |-> IF Alone(c) THEN T ELSE {},
                  since |-> IF Alone(c) THEN data ELSE 0]]
  /\ UNCHANGED <<html, mem, file, revalidating, run, up, history>>

RevalidateBegin(c) ==
  /\ inval[c].pc = "store"
  /\ torn' = TRUE
  /\ inval' = [Mixed(inval) EXCEPT ![c].pc = "write", ![c].mixed = Overlaps]
  /\ run' = Mixed(run)
  /\ UNCHANGED <<html, mem, disk, revalidating, up, history>>

(* What was promised to the caller when the call returns. *)
Kept(c) == promised' = [p \in Page |-> IF p \in inval[c].pages
                                       THEN inval[c].since ELSE promised[p]]

RevalidateEnd(c) ==
  /\ inval[c].pc = "write"
  /\ Stored(inval[c])
  /\ IF inval[c].kind = "path"
     THEN /\ inval' = [inval EXCEPT ![c].pc = "read", ![c].got = {}, ![c].mixed = FALSE]
          /\ UNCHANGED <<mem, promised>>
     ELSE /\ inval' = [inval EXCEPT ![c] = Off]
          /\ mem' = inval[c].got
          /\ Kept(c)
  /\ UNCHANGED <<data, html, revalidating, run, up>>

(* Reading the file back; if it does not parse the caller gets the error.  *)
RevalidateRead(c) ==
  /\ inval[c].pc = "read"
  /\ inval' = [inval EXCEPT ![c] = IF torn THEN Off
                                   ELSE [@ EXCEPT !.pc = "assign", !.got = disk]]
  /\ UNCHANGED <<html, mem, file, revalidating, run, up, history>>

RevalidateAssign(c) ==
  /\ inval[c].pc = "assign"
  /\ mem' = inval[c].got
  /\ Kept(c)
  /\ inval' = [inval EXCEPT ![c] = Off]
  /\ UNCHANGED <<data, html, file, revalidating, run, up>>

----------------------------------------------------------------------------
RunnerStep(w) == \/ Render(w) \/ Save(w) \/ Load(w) \/ WriteBegin(w) \/ WriteEnd(w)
                 \/ RegenerationFails(w) \/ Reload(w) \/ Assign(w)

CallerStep(c) == RevalidateBegin(c) \/ RevalidateEnd(c) \/ RevalidateRead(c) \/ RevalidateAssign(c)

Next ==
  \/ DataChanges \/ Restart
  \/ \E p \in Page, w \in Runner : ServeStale(p, w)
  \/ \E w \in Runner : RunnerStep(w)
  \/ \E c \in Caller, T \in (SUBSET Page) \ {{}}, kind \in {"path", "resolved"} : Revalidate(c, T, kind)
  \/ \E c \in Caller : CallerStep(c)

Spec == Init /\ [][Next]_vars

----------------------------------------------------------------------------
(* "Only one worker revalidates; others serve stale": two regenerations of *)
(* a page are never under way together, so they never share a .tmp file.   *)
SingleFlight ==
  \A w, x \in Runner : /\ run[w].pc \in Working /\ run[x].pc \in Working
                       /\ run[w].page = run[x].page
                       => w = x

(* A visitor never sees an older render of a page after a newer one.       *)
HtmlNeverGoesBack == [][\A p \in Page : html'[p] >= html[p]]_vars

(* An invalidation that ran while nothing else was under way is not lost   *)
(* to any later regeneration, reload, invalidation or restart: the page    *)
(* stays marked in memory until its file shows the data of that time.      *)
LoneInvalidationHolds ==
  up => \A p \in Page : p \in mem \/ html[p] >= promised[p]

(* A page is in revalidatingPathnames exactly while a regeneration of it   *)
(* is under way, so that no failure leaves a page stale for ever.          *)
RevalidatingIsWorking ==
  revalidating = {run[w].page : w \in {x \in Runner : run[x].pc \in Working}}
=============================================================================
