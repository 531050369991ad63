-------------------------------- MODULE Pages --------------------------------
(***************************************************************************)
(* A page: its render, the workers' pools and the modules they load, its   *)
(* life in the browser and in development, and the policies about it.  The *)
(* initial states pick one of the nine components, and the shared          *)
(* variables v1, v2, ... hold the state of the picked one.  The constants  *)
(* are those of the components, under names of their own.                  *)
(***************************************************************************)
EXTENDS Naturals, Sequences, FiniteSets, TLC

CONSTANTS
  None,
  PageForms, Markups, Assets, Islands, Registry, PageVersions,        \* RenderPage
  PoolRoutes, Dirs, DefaultKey, CacheMax, Ttl, PoolTime, MaxPools,    \* PoolRegistry
  Callers, Workers,                                                   \* Transpiler
  Visits, Urls, MaxEntries,                                           \* ClientNavigation
  Graphs, Changed, Instances, States,                                 \* FastRefresh
  Reloads, MaxDisk, Clients,                                          \* DevReload
  Data, Components, Routes, MaxLinks,                                 \* ConsistencyGraph
  Actions, OwnRollback, MaxApplies,                                   \* OptimisticEngine
  Replays, Metrics, Objectives, MeshTime, MaxMade                     \* PolicyMesh

VARIABLES
  which, v1, v2, v3, v4, v5, v6, v7, v8, v9

shared == <<v1, v2, v3, v4, v5, v6, v7, v8, v9>>
all == <<which, shared>>

\* The variables that a component does not use.
from6 == <<v6, v7, v8, v9>>
from7 == <<v7, v8, v9>>
from8 == <<v8, v9>>
\* And what they hold.
Unused8 == v8 = 0 /\ v9 = 0
Unused7 == v7 = 0 /\ Unused8
Unused6 == v6 = 0 /\ Unused7

RP == INSTANCE RenderPage WITH
  route <- v1, markup <- v2, assets <- v3, island <- v4, data <- v5, at <- v6,
  head <- v7, body <- v8, payload <- v9, Pages <- PageForms, MaxVersion <- PageVersions
PR == INSTANCE PoolRegistry WITH
  disk <- v1, cached <- v2, registry <- v3, pools <- v4, render <- v5, now <- v6,
  exit <- v7, sweepTimer <- v8, Routes <- PoolRoutes, Default <- DefaultKey, MaxTime <- PoolTime
TR == INSTANCE Transpiler WITH
  env <- v1, result <- v2, detecting <- v3, caller <- v4, file <- v5, worker <- v6
CN == INSTANCE ClientNavigation WITH
  entries <- v1, here <- v2, context <- v3, dom <- v4, page <- v5, visits <- v6,
  settled <- v7
FR == INSTANCE FastRefresh WITH
  graph <- v1, at <- v2, walk <- v3, boundary <- v4, mounted <- v5, saved <- v6,
  fiber <- v7, before <- v8, touched <- v9
DR == INSTANCE DevReload WITH
  disk <- v1, server <- v2, reload <- v3, issues <- v4, heard <- v5, settled <- v6
CG == INSTANCE ConsistencyGraph WITH
  nodes <- v1, deps <- v2, dependents <- v3, exported <- v4, walk <- v5, reported <- v6
OE == INSTANCE OptimisticEngine WITH
  shown <- v1, log <- v2, snapshots <- v3, given <- v4, restored <- v5
PM == INSTANCE PolicyMesh WITH
  hints <- v1, mesh <- v2, made <- v3, now <- v4, file <- v5, replay <- v6,
  agreed <- v7, MaxTime <- MeshTime

\* None is no number, no hint and nothing that is kept under a key.
ASSUME NoneAssumption ==
  /\ None \notin Nat /\ None \notin {"node", "hybrid-cache"}
  /\ \A f \in [Instances -> States] : None # <<f>>
  /\ \A h \in PM!AllHints : None # <<h>>
\* Files have names, and the page of a route is not also one of its layouts.
ASSUME PagesAssumption ==
  \A r \in PageForms :
    /\ r.layouts \in Seq(STRING) /\ r.template \in Seq(STRING) /\ r.page \in STRING
    /\ \A i \in DOMAIN r.layouts : r.layouts[i] # r.page
    /\ \A i \in DOMAIN r.template : r.template[i] # r.page
\* Markup is well formed: a fragment ends no body, a document has one at most, with all of
\* the content in it and the head before it; what the renderer puts in is not there yet.
Tags == {"html", "head", "head+", "/head", "body", "content", "/body", "/html"}
ASSUME MarkupAssumption ==
  \A m \in Markups :
    /\ m \in Seq(Tags) /\ m # <<>>
    /\ IF m[1] = "html"
       THEN \A o \in DOMAIN m : m[o] = "body" =>
              \E c \in DOMAIN m : o < c /\
                \A i \in DOMAIN m : /\ (m[i] = "body" <=> i = o) /\ (m[i] = "/body" <=> i = c)
                                    /\ (m[i] = "content" => o < i /\ i < c) /\ (m[i] = "head" => i < o)
       ELSE \A i \in DOMAIN m : m[i] # "/body"
\* Paths and module ids are sequences.
ASSUME RegistryAssumption ==
  /\ Registry \in Seq([path : Seq(STRING), export : STRING])
  /\ \A i \in Islands : i.id \in Seq(STRING) /\ i.component \in Seq(STRING)
\* A module graph is finite, has the changed file, and its imports stay in it.
ASSUME GraphAssumption ==
  /\ States # {}
  /\ \A g \in Graphs :
       LET files == DOMAIN g.kind
       IN  /\ IsFiniteSet(files) /\ Changed \in files
           /\ g.kind \in [files -> {"plain", "boundary", "root", "absent"}]
           /\ g.importedBy \in [files -> Seq(files)]
\* The time to live of a pool is a number.
ASSUME PoolAssumption == Ttl \in Nat
\* The times of the mesh begin at 0, and it has objectives to choose from.
ASSUME MeshAssumption == MeshTime \in Nat /\ Objectives # {}

Init ==
  \/ which = "page" /\ RP!Init
  \/ which = "registry" /\ PR!Init /\ v9 = 0
  \/ which = "transpiler" /\ TR!Init /\ Unused7
  \/ which = "navigation" /\ CN!Init /\ Unused8
  \/ which = "refresh" /\ FR!Init
  \/ which = "reload" /\ DR!Init /\ Unused7
  \/ which = "graph" /\ CG!Init /\ Unused7
  \/ which = "optimistic" /\ OE!Init /\ Unused6
  \/ which = "policy" /\ PM!Init /\ Unused8

Next ==
  \/ which = "page" /\ RP!Next /\ UNCHANGED <<which>>
  \/ which = "registry" /\ PR!Next /\ UNCHANGED <<which, v9>>
  \/ which = "transpiler" /\ TR!Next /\ UNCHANGED <<which, from7>>
  \/ which = "navigation" /\ CN!Next /\ UNCHANGED <<which, from8>>
  \/ which = "refresh" /\ FR!Next /\ UNCHANGED <<which>>
  \/ which = "reload" /\ DR!Next /\ UNCHANGED <<which, from7>>
  \/ which = "graph" /\ CG!Next /\ UNCHANGED <<which, from7>>
  \/ which = "optimistic" /\ OE!Next /\ UNCHANGED <<which, from6>>
  \/ which = "policy" /\ PM!Next /\ UNCHANGED <<which, from8>>

Spec == Init /\ [][Next]_all

\* The nesting of the markup is that of the route's files.
RP_TreeIsTheElements == which = "page" => RP!TreeIsTheElements
\* The content is in the root, the scripts are outside it.
RP_RootHoldsTheContent == which = "page" => RP!RootHoldsTheContent
\* What a snapshot names is preloaded, but for a manifest nobody gave.
RP_SnapshotIsPreloaded == which = "page" => RP!SnapshotIsPreloaded
\* The payload is the innermost part of the markup.
RP_PayloadIsTheInnermost == which = "page" => RP!PayloadIsTheInnermost
\* The payload is no older than the markup.
RP_PayloadIsNoOlder == which = "page" => RP!PayloadIsNoOlder
\* An island gets the entry of its own file.
RP_IslandIsItsOwn == which = "page" => RP!IslandIsItsOwn
\* A registered pool has not been shut down.
PR_RegisteredIsAlive == which = "registry" => PR!RegisteredIsAlive
\* A sweep fails no render but one that runs longer than the time to live.
PR_SweepSparesTheRecent == which = "registry" => PR!SweepSparesTheRecent
\* One signal waits for every pool that ran.
PR_OneSignalDrains == which = "registry" => PR!OneSignalDrains
\* Callers share one detection.
TR_OneDetection == which = "transpiler" => TR!OneDetection
\* Whoever has a module had a bundler, and in production a native strategy or tsx as well.
TR_LoadingTakesBoth == which = "transpiler" => TR!LoadingTakesBoth
\* A module is imported whole.
TR_WholeUnlessShared == which = "transpiler" => TR!WholeUnlessShared
\* After a visit that overlapped none the page, its context and its url agree.
CN_LoneVisitAgrees == which = "navigation" => CN!LoneVisitAgrees
\* A change refreshes the nearest boundary.
FR_NearestBoundary == which = "refresh" => FR!NearestBoundary
\* State that nothing touched survives a refresh.
FR_UntouchedStateSurvives == which = "refresh" => FR!UntouchedStateSurvives
\* A reload that overlapped none is served.
DR_LoneReloadIsServed == which = "reload" => DR!LoneReloadIsServed
\* Its clients are told what it found.
DR_LoneReloadIsTold == which = "reload" => DR!LoneReloadIsTold
\* An invalidation reaches what depends on the data.
CG_InvalidationIsWhole == which = "graph" => CG!InvalidationIsWhole
\* The two ends of each edge agree.
CG_EndsAgree == which = "graph" => CG!EndsAgree
\* A rollback takes back its own patch, or with a snapshot those applied after it.
OE_RollbacksTakeTheLater == which = "optimistic" => OE!RollbacksTakeTheLater
\* What was rolled back is not pending.
OE_RolledBackIsNotPending == which = "optimistic" => OE!RolledBackIsNotPending
\* A failing route is contained, whatever else is asked.
PM_FailingRoutesAreContained == which = "policy" => PM!FailingRoutesAreContained
\* A replay that overlapped none restores what it loaded.
PM_LoneReplayRestores == which = "policy" => PM!LoneReplayRestores
-----------------------------------------------------------------------------
\* A page is one page: its markup nests as the files of the route say, its scripts and root
\* are where hydration looks for them, what its snapshot names is preloaded (the manifest only
\* where it was given), its payload is the innermost part of its markup and no older, and each
\* island gets the entry of its own file.
PageIsConsistent ==
  /\ RP_TreeIsTheElements
  /\ RP_RootHoldsTheContent
  /\ RP_SnapshotIsPreloaded
  /\ RP_PayloadIsTheInnermost
  /\ RP_PayloadIsNoOlder
  /\ RP_IslandIsItsOwn

\* What is shared by route or by process is shared safely: the registry holds live pools
\* alone, spares those in use and drains all of them on a signal, and callers share one
\* detection of the transpiler and import whole modules.
PoolsAndModulesAreShared ==
  /\ PR_RegisteredIsAlive
  /\ PR_SweepSparesTheRecent
  /\ PR_OneSignalDrains
  /\ TR_OneDetection
  /\ TR_LoadingTakesBoth
  /\ TR_WholeUnlessShared

\* A visit, a refresh or a reload that overlaps no other leaves the browser with one page:
\* its context and url agree, a change reaches the nearest boundary and no further, and a
\* reload is served and told.
BrowserIsUpToDate ==
  /\ CN_LoneVisitAgrees
  /\ FR_NearestBoundary
  /\ FR_UntouchedStateSurvives
  /\ DR_LoneReloadIsServed
  /\ DR_LoneReloadIsTold

\* What is invalidated, rolled back or contained is exactly what should be: an invalidation
\* reaches all that depends on the data, only a snapshot put back takes later patches with
\* it, and a failing route is contained whatever else is asked for.
PatchesAndPoliciesHold ==
  /\ CG_InvalidationIsWhole
  /\ CG_EndsAgree
  /\ OE_RollbacksTakeTheLater
  /\ OE_RolledBackIsNotPending
  /\ PM_FailingRoutesAreContained
  /\ PM_LoneReplayRestores

-----------------------------------------------------------------------------
(* What the run gives the constants.                                       *)

\* Up to two layouts, a template or none, and files that export no component.
SomePages ==
  {[layouts |-> ls, template |-> t, page |-> "page", slots |-> {"slot"}, empty |-> e] :
   ls \in {<<>>, <<"outer">>, <<"outer", "inner">>}, t \in {<<>>, <<"template">>},
   e \in {{}, {"outer"}, {"template", "slot"}}}
\* Documents that are whole, and ones without a head, a body or both.
SomeMarkups ==
  {<<"content">>,
   <<"html", "head", "/head", "body", "content", "/body", "/html">>,
   <<"html", "head+", "/head", "body", "content", "/body", "/html">>,
   <<"html", "body", "content", "/body", "/html">>,
   <<"html", "head", "/head", "content", "/html">>,
   <<"html", "content", "/html">>}
SomeAssets ==
  {[given |-> FALSE, route |-> {}, entry |-> {}, shared |-> {}, boundaries |-> {},
    preload |-> {}, metadata |-> {}, flight |-> {}, refs |-> {}]}
  \cup {[given |-> TRUE, route |-> {"route"}, entry |-> e, shared |-> {"chunk"}, boundaries |-> b,
         preload |-> p, metadata |-> {"meta"}, flight |-> {"flight"}, refs |-> r] :
        r \in {{}, {"refs"}}, e \in {{}, {"entry"}}, b \in {{}, {"island"}}, p \in {{}, {"route"}}}
\* Files one of whose paths ends with another's, and a file with two exports.
SomeRegistry ==
  <<[path |-> <<"ui", "/", "icon", "button">>, export |-> "default"],
    [path |-> <<"ui", "/", "button">>, export |-> "default"],
    [path |-> <<"ui", "/", "menu">>, export |-> "Menu"],
    [path |-> <<"ui", "/", "menu">>, export |-> "default"]>>
SomeIslands ==
  {[id |-> <<"button">>, file |-> <<"ui", "/", "button">>, export |-> "default",
    component |-> <<"button">>],
   [id |-> <<"menu">>, file |-> <<"ui", "/", "menu">>, export |-> "default",
    component |-> <<"menu">>],
   [id |-> <<"..", "/", "menu">>, file |-> <<"ui", "/", "menu">>, export |-> "default",
    component |-> <<"menu">>],
   [id |-> <<"..", "/", "list">>, file |-> <<"ui", "/", "list">>, export |-> "default",
    component |-> <<>>]}

\* A route with a directory of its own besides the root, and one without.
SomeDirs == ("r1" :> <<"a", "root">> @@ "r2" :> <<"root">>)

\* The changed file imports nothing; three more files import it and each other.
SomeGraphs ==
  [kind : {("f1" :> "plain") @@ k : k \in [{"f2", "f3", "f4"} -> {"plain", "boundary", "root"}]},
   importedBy : {("f1" :> i @@ "f2" :> j @@ "f3" :> k @@ "f4" :> l) :
                 i \in {<<>>, <<"f2">>, <<"f2", "f3">>, <<"f3", "f2">>},
                 j \in {<<>>, <<"f4">>, <<"f3", "f4">>}, k \in {<<>>, <<"f4">>, <<"f1", "f2">>},
                 l \in {<<>>, <<"f1">>}}]
  \cup [kind : [{"f1", "f2", "f3", "f4"} -> {"absent", "boundary"}],
        importedBy : {[f \in {"f1", "f2", "f3", "f4"} |-> <<"f2", "f4">>]}]

\* A route is not both slow and fast.
SomeMetrics ==
  {m \in [slow : BOOLEAN, fast : BOOLEAN, hits : BOOLEAN, errors : BOOLEAN, queued : {FALSE}] :
     ~(m.slow /\ m.fast)}
================================================================================
