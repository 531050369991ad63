---------------------------- MODULE RouteArtifacts ----------------------------
(***************************************************************************)
(* The compiler from the boundaries of modules to the manifests.           *)
(*                                                                         *)
(* First the analysis (boundary.ts): a walk over the imports of every      *)
(* route's files that gives each module its routes and stops at "use       *)
(* client", the errors it finds, and what it concludes about runtimes; and *)
(* the walks after it: discoverClientBoundaries of client.ts, over the     *)
(* analysed modules, and the edge check (computeRouteRuntimeCapability),   *)
(* which reads the sources again.                                          *)
(*                                                                         *)
(* Then what is made of it, computed in one pass when the analysis is      *)
(* over: how each page is hydrated, the client assets and shared chunks    *)
(* (client.ts), the manifests (manifests.ts), and what verify.ts reads out *)
(* of them about the milestones.  An asset is <<kind, route>>, or with the *)
(* client file of an island, or the import of a shared chunk.              *)
(*                                                                         *)
(* app is the application: routes (page, owned: the files of the route in  *)
(* the order they are collected, edge), imports (the resolved local        *)
(* imports of each file), directive, exports and builtins of each file;    *)
(* and, as the edge check reads the sources by rules of its own,           *)
(* edgeImports and listed, the imports and builtins it sees.  It knows     *)
(* require and bare names of builtins; it knows no re-exports, fewer       *)
(* endings of files, and only the builtins it lists.                       *)
(*                                                                         *)
(* Files have names of their own here.  The compiler makes the ids of      *)
(* chunks and boundaries out of paths, and two files whose paths differ in *)
(* the ending or in punctuation alone share one (client.ts:727, 829).      *)
(***************************************************************************)
EXTENDS Naturals, Sequences, FiniteSets, SequencesExt

CONSTANTS Apps

VARIABLES
  app,
  owners,  \* ownership: the routes of each file
  queue,   \* of the analysis
  parsed,  \* the modules it has parsed
  walk     \* a walk made when the analysis is over

bvars == <<app, owners, queue, parsed, walk>>

Files == DOMAIN app.imports
Routes == DOMAIN app.routes
Pages == {r \in Routes : app.routes[r].page}

\* Both directives in one file: neither counts, and the build fails.
Directive(f) == IF app.directive[f] = "both" THEN "none" ELSE app.directive[f]
IsClient(f) == Directive(f) = "use-client"

NoWalk == [of |-> "", edge |-> FALSE, queue |-> <<>>, visited |-> {}, server |-> {}, client |-> {}]

\* The files of each route are queued, in the order of the routes.  No route has a file
\* twice, so each is new to the file's owners.
Owned(r) == app.routes[r].owned

Init ==
  /\ app \in Apps
  /\ owners = [f \in Files |-> {r \in Routes : f \in ToSet(Owned(r))}]
  /\ queue = FlattenSeq([i \in DOMAIN app.order |-> Owned(app.order[i])])
  /\ parsed = {} /\ walk = NoWalk

-----------------------------------------------------------------------------
\* What of a sequence is in a set, in its order.
Those(s, S) == FlattenSeq([i \in DOMAIN s |-> IF s[i] \in S THEN <<s[i]>> ELSE <<>>])

\* analyzeModuleBoundaries: the next file hands its routes to what it imports; an import
\* that gained one is queued again.
Gaining(f) == Those(app.imports[f], {g \in Files : ~(owners[f] \subseteq owners[g])})
\* Mutant: a module that has been parsed is not looked at again.
GainingUnparsed(f) == SelectSeq(Gaining(f), LAMBDA g : g \notin parsed)
Enqueued(f) == Gaining(f)

TakeFile ==
  /\ queue # <<>>
  /\ LET f == Head(queue)
         gained == IF IsClient(f) THEN <<>> ELSE Enqueued(f)
     IN  /\ parsed' = parsed \cup {f}
         /\ owners' = [g \in Files |-> IF g \in ToSet(gained) THEN owners[g] \cup owners[f]
                                       ELSE owners[g]]
         /\ queue' = Tail(queue) \o gained
  /\ UNCHANGED <<app, walk>>

Analysed == queue = <<>>

\* The errors: conflicting directives, and for a client module no exports, a Node builtin,
\* or the import of a server module.
Diagnostics ==
  {<<"conflict", f>> : f \in {g \in parsed : app.directive[g] = "both"}}
  \cup {<<"no-exports", f>> : f \in {g \in parsed : IsClient(g) /\ ~app.exports[g]}}
  \cup {<<"builtin", f>> : f \in {g \in parsed : IsClient(g) /\ app.builtins[g]}}
  \cup {<<"server-import", f>> : f \in {g \in parsed : IsClient(g) /\
          \E h \in ToSet(app.imports[g]) : Directive(h) = "use-server"}}

\* What the manifests list: a client reference per client module with exports, a server
\* reference per other module, and the actions of the server modules.
ClientReferences == {f \in parsed : IsClient(f) /\ app.exports[f]}
ServerReferences == {f \in parsed : ~IsClient(f)}
Actions == {f \in parsed : Directive(f) = "use-server" /\ app.exports[f]}

\* resolveRuntimeTargets: a module runs on the edge when one of its routes does, and it
\* needs neither a Node builtin nor an action.
RuntimeTargets(f) ==
  IF (\E r \in owners[f] : app.routes[r].edge) /\ ~app.builtins[f] /\ f \notin Actions
  THEN {"node", "edge"} ELSE {"node"}

-----------------------------------------------------------------------------
\* discoverClientBoundaries starts from the files of a route, the edge check from the page
\* alone, and only for a page that is to run on the edge.
StartWalk(r, edge) ==
  /\ Analysed /\ walk = NoWalk /\ (edge => app.routes[r].edge)
  /\ walk' = [NoWalk EXCEPT !.of = r, !.edge = edge,
                !.queue = IF edge THEN <<Owned(r)[1]>> ELSE Owned(r)]
  /\ UNCHANGED <<app, owners, queue, parsed>>

\* The first walk goes over the analysed modules: one that was not analysed counts as a
\* server module without imports.
ImportsSeen(f) == IF f \in parsed THEN app.imports[f] ELSE <<>>
\* Mutant: the walk goes on behind a client boundary.
Behind(f) == ImportsSeen(f)
Onward(f) == IF f \in parsed /\ IsClient(f) THEN <<>> ELSE ImportsSeen(f)

\* The edge check follows every import it sees, of client modules too, and goes on behind a
\* module that it has blamed.  Mutant: it does not.
BlamedEnds(f) == IF app.listed[f] THEN <<>> ELSE app.edgeImports[f]
EdgeOnward(f) == app.edgeImports[f]
EdgeViolations == {f \in walk.visited : app.listed[f]}

TakeWalk ==
  /\ walk.queue # <<>>
  /\ LET f == Head(walk.queue)
         seen == walk.visited \cup {f}
         client == f \in parsed /\ IsClient(f)
         onward == IF walk.edge THEN EdgeOnward(f) ELSE Onward(f)
     IN  walk' = IF f \in walk.visited THEN [walk EXCEPT !.queue = Tail(@)]
                 ELSE [walk EXCEPT
                         !.visited = seen,
                         !.queue = Tail(@) \o Those(onward, Files \ seen),
                         !.server = @ \cup (IF client THEN {} ELSE {f}),
                         !.client = @ \cup (IF client THEN {f} ELSE {})]
  /\ UNCHANGED <<app, owners, queue, parsed>>

Next == TakeFile \/ (\E r \in Routes, edge \in BOOLEAN : StartWalk(r, edge)) \/ TakeWalk
Spec == Init /\ [][Next]_bvars

-----------------------------------------------------------------------------
\* A route of the build that is no page has no client entry.
ClientFiles(r) == {f \in ClientReferences : r \in owners[f]}
ActionsOf(r) == {f \in Actions : r \in owners[f]}
SourceFile(r) == Owned(r)[1]

\* resolveHydrationMode
HydrationMode(r) ==
  CASE ClientFiles(r) = {} -> "none"
    [] ClientFiles(r) # {} /\ (SourceFile(r) \in ClientFiles(r) \/ ActionsOf(r) = {}) -> "full-route"
    [] OTHER -> "mixed-route"
RenderMode(r) == IF HydrationMode(r) = "full-route" THEN "client-root" ELSE "server-components"

\* createClientBoundaryDescriptors, and for the islands of a mixed route the assets that
\* writeClientBoundaryBrowserAssets bundles: [strategy, module, asset].
Root(r) == [strategy |-> "hydrate-root", module |-> SourceFile(r), asset |-> <<>>]
Island(r, f) == [strategy |-> "hydrate-island", module |-> f, asset |-> <<"boundary", r, f>>]
\* Mutant: the islands get their assets only where the route also has an entry.
IslandsUnwritten(r, f) == [Island(r, f) EXCEPT !.asset = <<>>]
IslandWritten(r, f) == Island(r, f)
BoundaryRefs(r) ==
  CASE HydrationMode(r) = "none" -> {}
    [] HydrationMode(r) = "full-route" -> {Root(r)}
    [] HydrationMode(r) = "mixed-route" -> {IslandWritten(r, f) : f \in ClientFiles(r)}

\* Mutant: every route with client files has an entry for the browser.
EntryForBoundaries(r) == IF ClientFiles(r) = {} THEN <<>> ELSE <<"entry", r>>
BrowserEntry(r) == IF HydrationMode(r) = "full-route" THEN <<"entry", r>> ELSE <<>>

\* writeSharedChunkArtifacts: an import that two pages have besides their own source file.
Importers(f) == {r \in Pages : f \in ToSet(Owned(r)) /\ f # SourceFile(r)}
SharedChunks == {f \in Files : Cardinality(Importers(f)) >= 2}
SharedChunkIds(r) == {f \in SharedChunks : r \in Importers(f)}

\* The files that writeClientArtifacts writes, and those that a page preloads.
Islands(r) == {<<"boundary", r, f>> : f \in ClientFiles(r)}
Written ==
  {<<"runtime">>} \cup {<<"chunk", f>> : f \in SharedChunks}
  \cup ({"route", "metadata"} \X Pages)
  \cup {<<"entry", r>> : r \in {q \in Pages : HydrationMode(q) = "full-route"}}
  \cup UNION {Islands(r) : r \in {q \in Pages : HydrationMode(q) = "mixed-route"}}

PreloadAssets(r) ==
  {<<"runtime">>, <<"route", r>>, <<"metadata", r>>}
  \cup ({BrowserEntry(r)} \ {<<>>})
  \cup ({b.asset : b \in BoundaryRefs(r)} \ {<<>>})
  \cup {<<"chunk", f>> : f \in SharedChunkIds(r)}

\* The generated entries: what a bundle imports, and what it hydrates when it is started.
\* The entry of a route imports the client files besides the page and hydrates the root.
Bundled(a) == IF a[1] = "entry" THEN {SourceFile(a[2])} \cup ClientFiles(a[2]) ELSE {a[3]}
EntryBootstraps(a) == {<<"hydrate-root", SourceFile(a[2])>>}
BoundaryBootstraps(a) == {<<"hydrate-island", a[3]>>}

\* resolveRouteClientAssetReferences: what a rendered page is given; null for a handler.
RouteClientAssets(r) ==
  IF r \notin Pages THEN [preload |-> {}, started |-> {}]
  ELSE [preload |-> PreloadAssets(r),
        started |-> ({BrowserEntry(r)} \cup {b.asset : b \in BoundaryRefs(r)}) \ {<<>>}]
Hydrated(r) ==
  UNION {IF a[1] = "entry" THEN EntryBootstraps(a) ELSE BoundaryBootstraps(a) :
         a \in RouteClientAssets(r).started}

\* enrichClientReferenceManifest: the chunks of a client file, over all pages; and the
\* registry, which gets the source file of every full-route page besides the client files.
\* Mutant: the client files of a full-route page are not listed for its entry.
BoundariesOnly(f) ==
  {BrowserEntry(r) : r \in {q \in Pages : BrowserEntry(q) # <<>> /\ SourceFile(q) = f}}
  \cup {b.asset : b \in {c \in UNION {BoundaryRefs(r) : r \in Pages} : c.module = f /\ c.asset # <<>>}}
Chunks(f) ==
  {BrowserEntry(r) : r \in {q \in Pages : BrowserEntry(q) # <<>>
                                         /\ f \in {SourceFile(q)} \cup ClientFiles(q)}}
  \cup {b.asset : b \in {c \in UNION {BoundaryRefs(r) : r \in Pages} : c.module = f /\ c.asset # <<>>}}
Synthetic == {SourceFile(r) : r \in {q \in Pages : HydrationMode(q) = "full-route"}} \ ClientReferences
Registry == [f \in ClientReferences \cup Synthetic |-> Chunks(f)]

\* writeServerClientReferenceModules: a module for each file of the registry.
ServerModules == DOMAIN Registry

-----------------------------------------------------------------------------
\* The manifests.  A route of the bundle manifest or of the ownership manifest, the same for
\* both: a handler has no client entry and gets the defaults.
ClientEntry(r) ==
  IF r \in Pages
  THEN [mode |-> HydrationMode(r), render |-> RenderMode(r), entry |-> BrowserEntry(r),
        refs |-> ClientFiles(r), boundaries |-> BoundaryRefs(r)]
  ELSE [mode |-> "none", render |-> "server-components", entry |-> <<>>, refs |-> {},
        boundaries |-> {}]
BundleManifest == [r \in Routes |-> ClientEntry(r)]
RouteOwnershipManifest == [r \in Routes |-> ClientEntry(r)]
ClientBoundaryManifest == [r \in Pages |-> [mode |-> HydrationMode(r), boundaries |-> BoundaryRefs(r)]]

\* collectUnsupportedRuntimeReasons, and the targets of the RSC manifest.
\* Mutant: an action does not keep a route off the edge.
BuiltinsOnly(r) == {f \in parsed : r \in owners[f] /\ app.builtins[f]}
UnsupportedReasons(r) ==
  {f \in parsed : r \in owners[f] /\ (app.builtins[f] \/ f \in Actions)}
SupportedRuntimeTargets(r) ==
  IF app.routes[r].edge /\ UnsupportedReasons(r) = {} THEN {"node", "edge"} ELSE {"node"}

\* createCacheManifest: a route entry for each prerendered page, a data entry for each page,
\* with the actions of the page; and for each action what it invalidates.
CacheEntries ==
  [key : {<<"route", r>> : r \in app.prerendered}] \cup [key : {<<"data", r>> : r \in Pages}]
EntryActions(e) == {f \in Actions : e.key[2] \in owners[f]}
\* Mutant: an action invalidates only the page it was called from, the first of its routes.
FirstRoute(f) ==
  LET mine == SelectSeq(app.order, LAMBDA r : r \in owners[f])
  IN  IF mine = <<>> THEN {} ELSE {"route", "data"} \X {Head(mine)}
TargetCacheKeys(f) == {"route", "data"} \X owners[f]

-----------------------------------------------------------------------------
\* evaluateMilestoneProgress, from the manifests.
MixedIn(m) == {r \in DOMAIN m : m[r].mode = "mixed-route"}
Milestone1Complete == DOMAIN BundleManifest = Routes /\ DOMAIN RouteOwnershipManifest = Routes
ManifestDriven(m) ==
  \A r \in MixedIn(m) :
    m[r].entry = <<>> /\ \E b \in m[r].boundaries : b.strategy = "hydrate-island" /\ b.asset # <<>>
Milestone2Complete ==
  /\ Milestone1Complete
  /\ MixedIn(ClientBoundaryManifest) # {}
  /\ \A r \in MixedIn(ClientBoundaryManifest) :
       /\ ClientBoundaryManifest[r].boundaries # {}
       /\ \A b \in ClientBoundaryManifest[r].boundaries :
            b.strategy # "hydrate-island" \/ b.asset # <<>>
  /\ ManifestDriven(BundleManifest) /\ ManifestDriven(RouteOwnershipManifest)

\* Check M3-001 of verifyMilestone3RuntimeInternal.
ReferencesAreReal ==
  \A r \in Routes : BundleManifest[r].render = "server-components"
                      /\ BundleManifest[r].boundaries # {} => BundleManifest[r].refs # {}

-----------------------------------------------------------------------------
\* The build goes on when the analysis found no error.
Built == Analysed /\ Diagnostics = {}

\* Milestone 2 and check M3-001 ask nothing of the application: they hold of every build
\* that has a mixed route at all, so that it depends on the compiler alone.
MilestonesAskTheCompiler ==
  Built => /\ Milestone2Complete <=> \E r \in Pages : HydrationMode(r) = "mixed-route"
           /\ ReferencesAreReal

\* What a page is given has been written: the manifests name no missing asset.
PreloadsAreWritten ==
  Built => \A r \in Routes : /\ RouteClientAssets(r).preload \subseteq Written
                             /\ RouteClientAssets(r).started \subseteq RouteClientAssets(r).preload

\* The scripts a page starts hydrate what its boundaries declare to the browser, no more and
\* no less, and each file that hydrates is in the registry.
HydrationIsDeclared ==
  Built => \A r \in Pages :
    /\ Hydrated(r) = {<<b.strategy, b.module>> : b \in ClientBoundaryManifest[r].boundaries}
    /\ \A h \in Hydrated(r) : h[2] \in ServerModules

\* A client file that a page needs has a chunk that the page preloads, and every chunk the
\* registry names for a file holds it.
ReferencesHaveChunks ==
  Built => \A f \in DOMAIN Registry :
    /\ \A a \in Registry[f] : f \in Bundled(a)
    /\ \A r \in {q \in Pages : f \in ClientFiles(q)} :
         Registry[f] \cap RouteClientAssets(r).preload # {}

\* Page and modules agree on the edge: a page that may run there is supported there exactly
\* when every module it needs lists the edge among its targets.
EdgeSupportAgrees ==
  Built => \A r \in {q \in Pages : app.routes[q].edge} :
    "edge" \in SupportedRuntimeTargets(r)
      <=> \A f \in parsed : r \in owners[f] => "edge" \in RuntimeTargets(f)

\* A cache entry names an action exactly when the action's invalidation names the entry.
LinksAreMutual ==
  Built => \A e \in CacheEntries, f \in Actions :
    f \in EntryActions(e) <=> e.key \in TargetCacheKeys(f)

\* What files need: themselves, and what a needed module that is no client module imports,
\* and nothing else.
Closed(files) == \A f \in files : ~IsClient(f) => ToSet(app.imports[f]) \subseteq files
Needed(files) == {f \in Files : \A C \in SUBSET Files : files \subseteq C /\ Closed(C) => f \in C}

\* The analysis gives a module to exactly the routes that need it, though a module is
\* reached again by other routes after its own imports have been followed.
OwnersAreThoseWhoNeed ==
  Analysed => \A r \in Routes : {f \in Files : r \in owners[f]} = Needed(ToSet(Owned(r)))

\* The two walks over the boundaries agree about every route.
WalksAgree ==
  walk.of # "" /\ ~walk.edge /\ walk.queue = <<>> =>
    /\ walk.server = {f \in ServerReferences : walk.of \in owners[f]}
    /\ walk.client = {f \in parsed : IsClient(f) /\ walk.of \in owners[f]}

\* The edge check blames the modules with a listed builtin behind the page's own file, by the
\* imports it sees, and no others.  Of those for which the analysis keeps the page off the
\* edge it misses one only if its builtin is not listed, or if on the way to it a file that
\* was visited has an import that the check does not see.
ReachedByEdge(f) == {g \in Files : \A C \in SUBSET Files :
                 f \in C /\ (\A h \in C : ToSet(app.edgeImports[h]) \subseteq C) => g \in C}
EdgeCheckMissesTheUnseen ==
  walk.of # "" /\ walk.edge /\ walk.queue = <<>> =>
    LET needed == Needed({SourceFile(walk.of)}) IN
    /\ EdgeViolations = {f \in ReachedByEdge(SourceFile(walk.of)) : app.listed[f]}
    /\ \A f \in needed : app.builtins[f] /\ f \notin EdgeViolations =>
         \/ ~app.listed[f]
         \/ \E g \in needed \cap walk.visited :
              ~IsClient(g) /\ ~(ToSet(app.imports[g]) \subseteq ToSet(app.edgeImports[g]))

-----------------------------------------------------------------------------
(* The strengthening of the properties of the walks.                       *)
\* An owner needs the module, and a module that is not queued has handed its routes on.
AnalysisInv ==
  /\ app \in Apps /\ DOMAIN owners = Files /\ queue \in Seq(Files) /\ parsed \subseteq Files
  /\ \A f \in Files : owners[f] \subseteq {r \in Routes : f \in Needed(ToSet(Owned(r)))}
  /\ \A r \in Routes : \A f \in ToSet(Owned(r)) : r \in owners[f]
  /\ \A f \in Files : owners[f] # {} /\ f \notin ToSet(queue) =>
       f \in parsed /\ (IsClient(f) \/ \A g \in ToSet(app.imports[f]) : owners[f] \subseteq owners[g])

\* A walk goes over the files of its route, and what it has visited leads only to what it
\* has visited or queued.
Walks == [of : Routes \cup {""}, edge : BOOLEAN, queue : Seq(Files), visited : SUBSET Files,
          server : SUBSET Files, client : SUBSET Files]
Reached == walk.visited \cup ToSet(walk.queue)
WalkInv ==
  /\ walk \in Walks
  /\ walk.of # "" => Analysed
  /\ walk.of # "" /\ walk.edge =>
       /\ SourceFile(walk.of) \in Reached
       /\ \A f \in walk.visited : ToSet(EdgeOnward(f)) \subseteq Reached
       /\ Reached \subseteq ReachedByEdge(SourceFile(walk.of))
  /\ walk.of # "" /\ ~walk.edge =>
       /\ ToSet(Owned(walk.of)) \subseteq Reached
       /\ \A f \in Reached : walk.of \in owners[f]
       /\ \A f \in walk.visited : ToSet(Onward(f)) \subseteq Reached
       /\ walk.client = {f \in walk.visited : f \in parsed /\ IsClient(f)}
       /\ walk.server = walk.visited \ walk.client

Inv == AnalysisInv /\ WalkInv
=============================================================================
