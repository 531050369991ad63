------------------------------ MODULE RenderPage ------------------------------
(***************************************************************************)
(* One render of a page (render.ts): its modules are loaded and their      *)
(* metadata merged, the elements are nested and turned into markup, a      *)
(* worker renders the payload of the same route in a second execution, and *)
(* the document or the snapshot is put together of the two.  The worker's  *)
(* half is its executeRender, with the client islands that it looks up in  *)
(* the manifest.  A document is a sequence of tokens; what the markup says *)
(* between them is the token "content".                                    *)
(***************************************************************************)
EXTENDS Naturals, Sequences, SequencesExt, FiniteSets

CONSTANTS
  Pages,     \* routes: [layouts, template (or <<>>), page, slots, empty],
             \* slots: the pages of its parallel slots; empty: the files that
             \* export no component
  Markups,   \* what the outermost component may render, as tokens
  Assets,    \* [given, route, entry, shared, boundaries, preload,
             \* metadata, flight, refs], sets of hrefs; empty sets are absent
  Islands,   \* [id, file, export, component]: a client island of a page
  Registry,  \* the entries of the client manifest in order: [path, export]
  MaxVersion \* bound: how often the data behind the page changes

VARIABLES
  route, markup, assets, island,  \* what is rendered, and with which assets
  data,                           \* the version of the data behind the page
  at,                             \* how far the render has come
  head,                           \* the version its metadata was made of
  body,                           \* the markup: [version, nesting, slots, tokens]
  payload                         \* the worker's: [version, nesting, ref]

vars == <<route, markup, assets, island, data, at, head, body, payload>>

Nothing == [version |-> 0, nesting |-> <<>>, slots |-> {}, tokens |-> <<>>]
NoPayload == [version |-> 0, nesting |-> <<>>, ref |-> 0]

Init ==
  /\ route \in Pages /\ markup \in Markups /\ assets \in Assets /\ island \in Islands
  /\ data = 1 /\ at = "load" /\ head = 0 /\ body = Nothing /\ payload = NoPayload

\* The page's data may change at any time.
Write ==
  /\ at \notin {"done", "failed"} /\ data < MaxVersion /\ data' = data + 1
  /\ UNCHANGED <<route, markup, assets, island, at, head, body, payload>>

\* loadRouteModules: every module, and the metadata of each; a slot's is dropped.
LoadModules ==
  /\ at = "load" /\ head' = data /\ at' = "markup"
  /\ UNCHANGED <<route, markup, assets, island, data, body, payload>>

Rendered(f) == f \notin route.empty

\* The files that are not among some, in their order.
Without(files, some) == FlattenSeq([i \in DOMAIN files |-> IF files[i] \in some THEN <<>> ELSE <<files[i]>>])

\* buildElementTree wraps the page in its template and then, one after the other, in its
\* layouts, the last one first.
Nested(files, inner) ==
  LET nest[n \in 0 .. Len(files)] ==
        IF n = 0 THEN inner ELSE (IF Rendered(files[n]) THEN <<files[n]>> ELSE <<>>) \o nest[n - 1]
  IN  nest[Len(files)]
\* Mutant: the layouts are not reversed.
WrappedForward(inner) == Nested(route.layouts, inner)
Wrapped(inner) == Nested(Reverse(route.layouts), inner)
Elements == Wrapped(Without(route.template, route.empty) \o <<route.page>>)

\* The pages of the slots are handed to every layout, and to nothing else.
SlotElements ==
  IF Without(route.layouts, route.empty) = <<>> THEN {} ELSE {s \in route.slots : Rendered(s)}

\* buildRenderTree: the files from the root to the page.
RenderTree == route.layouts \o route.template \o <<route.page>>

BuildMarkup ==
  /\ at = "markup" /\ at' = "payload"
  /\ body' = [version |-> data, nesting |-> Elements, slots |-> SlotElements, tokens |-> markup]
  /\ UNCHANGED <<route, markup, assets, island, data, head, payload>>

-----------------------------------------------------------------------------
\* resolveRouteComponents: what the worker loads of a route, a page that exports no component
\* being an error.  loadRouteModule sets the parent file while it loads a module, and puts
\* back what was there before anything renders.
RouteComponents ==
  [page |-> route.page, layouts |-> Without(route.layouts, route.empty),
   template |-> Without(route.template, route.empty), valid |-> Rendered(route.page)]
ParentFile == <<>>

\* ClientIsland in the worker: the entry that its module id, or else its component's name,
\* finds in the manifest.  A path is a sequence of names; the last may be made of words,
\* so that a path can end with the name of another file.
\* Mutant: the export is not compared.
AnyExport(e, i) == TRUE
ExportMatches(e, i) == e.export = i.export
EndsWith(e, name) == name # <<>> /\ (IsSuffix(name, e.path) \/ e.path = ParentFile \o name)
Candidates(i, name) ==
  {n \in DOMAIN Registry : ExportMatches(Registry[n], i) /\ EndsWith(Registry[n], name)}
FirstOf(S) == IF S = {} THEN 0 ELSE CHOOSE n \in S : \A o \in S : n <= o
ResolvedEntry(i) ==
  LET byId == Candidates(i, i.id)
  IN IF byId # {} THEN FirstOf(byId) ELSE FirstOf(Candidates(i, i.component))

\* executeRender: the page alone, without the layouts, the template and the slots that the
\* route components were resolved with.  An island that no entry answers fails the render.
\* Mutant: the worker is asked before the modules are loaded.
ReadBefore == head
PayloadVersion == data
WorkerRender ==
  /\ at = "payload"
  /\ IF ~RouteComponents.valid \/ ResolvedEntry(island) = 0
       THEN at' = "failed" /\ UNCHANGED payload
       ELSE /\ at' = "respond"
            /\ payload' = [version |-> PayloadVersion, nesting |-> <<RouteComponents.page>>,
                           ref |-> ResolvedEntry(island)]
  /\ UNCHANGED <<route, markup, assets, island, data, head, body>>

\* renderFlight: the stream fails, or the worker's time is up.
WorkerFails ==
  /\ at = "payload" /\ at' = "failed"
  /\ UNCHANGED <<route, markup, assets, island, data, head, body, payload>>

\* renderRouteToResponse and renderRouteToFlightPayload: the parts become the result.
Respond ==
  /\ at = "respond" /\ at' = "done"
  /\ UNCHANGED <<route, markup, assets, island, data, head, body, payload>>

Next == Write \/ LoadModules \/ BuildMarkup \/ WorkerRender \/ WorkerFails \/ Respond
Spec == Init /\ [][Next]_vars

-----------------------------------------------------------------------------
\* renderClientAssetHead: the modules and the files that the document preloads.
\* Mutant: the islands' own assets are left to the runtime.
WithoutBoundaries == assets.route \cup assets.entry \cup assets.shared
ModulePreloads == assets.route \cup assets.entry \cup assets.shared \cup assets.boundaries
FetchPreloads == assets.metadata \cup assets.flight \cup assets.refs
AssetHead ==
  IF assets.given THEN {"runtime"} \cup ModulePreloads \cup FetchPreloads \cup assets.preload
  ELSE {}

\* createFlightManifestRefs and createClientRouteSnapshot: the hrefs the client is told of.
\* The manifest of client references has a default, which the head does not know.
DefaultRefs == "/__sourceog/client-refs.json"
Refs == IF assets.refs = {} THEN {DefaultRefs} ELSE assets.refs
ManifestRefs ==
  {"runtime"} \cup assets.route \cup assets.metadata \cup assets.entry \cup assets.shared
  \cup assets.boundaries
SnapshotHrefs == ManifestRefs \cup assets.flight \cup Refs \cup assets.preload

\* createDocumentHtml.  The payload's chunks, the client context and the runtime's script.
BodyScripts == <<"scripts">>
Index(s, tok) == IF Contains(s, tok) THEN CHOOSE n \in DOMAIN s :
                   s[n] = tok /\ \A o \in 1 .. n - 1 : s[o] # tok ELSE 0
Before(s, tok, new) == SubSeq(s, 1, Index(s, tok) - 1) \o new \o SubSeq(s, Index(s, tok), Len(s))
After(s, tok, new) == SubSeq(s, 1, Index(s, tok)) \o new \o SubSeq(s, Index(s, tok) + 1, Len(s))

\* "head+" is a head with attributes, which the replacement of "<head>" does not find.
WithHead(b) ==
  CASE Contains(b, "head") -> After(b, "head", <<"assets">>)
    [] ~Contains(b, "head") /\ Contains(b, "body") ->
         Before(b, "body", <<"head", "assets", "/head">>)
    [] OTHER -> <<"html", "head", "assets", "/head", "body">> \o b \o <<"/body", "/html">>
WithRoot(b) == IF Contains(b, "body") THEN After(b, "body", <<"root">>) ELSE b
\* Mutant: the scripts are written into the root.
ScriptsInside(b) ==
  IF Contains(b, "/body") THEN Before(b, "/body", BodyScripts \o <<"/root">>)
  ELSE b \o BodyScripts \o <<"/root">>
WithScripts(b) ==
  IF Contains(b, "/body") THEN Before(b, "/body", <<"/root">> \o BodyScripts)
  ELSE b \o <<"/root">> \o BodyScripts

ShellMode(b) == IF b[1] = "html" THEN "document" ELSE "fragment"
DocumentHtml(b) ==
  IF ShellMode(b) = "document" THEN WithScripts(WithRoot(WithHead(b)))
  ELSE <<"html", "head", "assets", "/head", "body", "root">> \o b
         \o <<"/root">> \o BodyScripts \o <<"/body", "/html">>

-----------------------------------------------------------------------------
\* The tree that the snapshot describes (buildRenderTree) is the nesting of the elements that
\* were rendered (buildElementTree), two constructions of one thing: leaving out the files
\* without a component, they list the same files in the same order.
TreeIsTheElements ==
  at = "done" => body.nesting = Without(RenderTree, route.empty \ {route.page})

\* Wherever the markup of a page has a body, the document has one root, it holds all of the
\* content and none of the scripts, and the assets come before it (createDocumentHtml).
RootHoldsTheContent ==
  at = "done" /\ (ShellMode(markup) = "fragment" \/ Contains(markup, "body")) =>
    LET d == DocumentHtml(body.tokens)
        places(tok) == {n \in DOMAIN d : d[n] = tok}
        start == Index(d, "root")
        end == Index(d, "/root")
    IN /\ Cardinality(places("root")) = 1 /\ Cardinality(places("/root")) = 1
       /\ places("content") \subseteq start .. end
       /\ \A n \in places("scripts") : end < n /\ n < Index(d, "/body")
       /\ \A n \in places("assets") : n < start

\* What the snapshot tells the client to load, the head of the document preloads, but for the
\* manifest of client references wherever its URL was not given, as in each page that was
\* prerendered (renderClientAssetHead and createClientRouteSnapshot list the assets apart).
SnapshotIsPreloaded ==
  at = "done" /\ assets.given =>
    SnapshotHrefs \subseteq AssetHead \cup (IF assets.refs = {} THEN {DefaultRefs} ELSE {})

\* What hydrates is the innermost part of the markup, and lacks just the layouts and the
\* template around it, with the slots that the layouts show: markup and payload are one page
\* only where nothing wraps it.
PayloadIsTheInnermost ==
  at = "done" =>
    /\ body.nesting = Without(route.layouts, route.empty)
                        \o (Without(route.template, route.empty) \o payload.nesting)
    /\ body.slots # {} => body.nesting # payload.nesting

\* What the client hydrates with is never older than the markup it finds.
PayloadIsNoOlder == at = "done" => head <= body.version /\ body.version <= payload.version

\* An island whose file no other entry's path ends with is referenced as itself: the lookup
\* by the end of the path (resolveClientReferenceEntry) cannot confuse what has a name of its
\* own, however the entries are ordered and whatever is exported under the same name.
Confusable(n) ==
  /\ Registry[n].export = island.export
  /\ IsSuffix(island.id, Registry[n].path) \/ IsSuffix(island.component, Registry[n].path)
IslandIsItsOwn ==
  at = "done" /\ (\A n \in DOMAIN Registry : Confusable(n) => Registry[n].path = island.file) =>
    Registry[payload.ref].path = island.file /\ Registry[payload.ref].export = island.export

\* What the proofs carry along: what was made of the page so far, and from what.
Inv ==
  /\ route \in Pages /\ markup \in Markups /\ assets \in Assets /\ island \in Islands
  /\ data \in Nat /\ head \in Nat /\ head <= data
  /\ at \in {"payload", "respond", "done"} =>
       /\ body = [version |-> body.version, nesting |-> Elements, slots |-> SlotElements,
                   tokens |-> markup]
       /\ body.version \in Nat /\ head <= body.version /\ body.version <= data
  /\ at \in {"respond", "done"} =>
       /\ payload.version \in Nat /\ body.version <= payload.version
       /\ payload.nesting = <<route.page>>
       /\ payload.ref = ResolvedEntry(island) /\ payload.ref # 0
=============================================================================
