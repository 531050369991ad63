-------------------------- MODULE ArtifactInspection --------------------------
(***************************************************************************)
(* What the tools read out of a build's output: the listings of `inspect`, *)
(* the diff of two output directories, and the diff of two releases.  A    *)
(* diff loads the manifests of each directory twice while builds may       *)
(* rewrite them, and builds the directory itself where it finds no build,  *)
(* which the doctor then does again; a release bundles the evidence under  *)
(* its build id before it compares it with the bundle of another.          *)
(*                                                                         *)
(* A build is a record: [id, pages (a sequence of [id, path, traits,       *)
(* prerendered, tags]), owners (the pages of each action), replay (the     *)
(* decision replayed for each pathname, or None), signed (the bytes of     *)
(* each signed manifest), matrix (the status of each supported entry)].    *)
(***************************************************************************)
EXTENDS Naturals, Sequences, SequencesExt, FiniteSets

CONSTANTS
  Builds, MaxBuilds, None,
  Hidden  \* the directories of projects that build to another directory than .sourceog

VARIABLES
  disk,     \* by directory: the build of its deployment manifest (deploy), of the
            \* manifests written before it (rest) and after it (signed), and whether
            \* the doctor's report is there (examined)
  loads,    \* the contexts a diff has loaded: the builds of their manifests, and whether
            \* the directory was built for it
  part,     \* the context it is loading, None between two
  quiet,    \* no build ran since the diff began
  bundles,  \* the released build of each build id
  release,  \* the last release that was compared
  runs

vars == <<disk, loads, part, quiet, bundles, release, runs>>

Dirs == {"current", "baseline"}
Ids == {b.id : b \in Builds}

-----------------------------------------------------------------------------
\* createCacheManifest: the entries of a build and the links of its actions.
PageIds(b) == {p.id : p \in ToSet(b.pages)}
Entry(kind, p) == [key |-> <<kind, p.id>>, route |-> p.id, path |-> p.path,
                   tags |-> IF p.prerendered THEN p.tags ELSE {}]
Entries(b) ==
  {Entry("route", p) : p \in {q \in ToSet(b.pages) : q.prerendered}}
  \cup {Entry("data", p) : p \in ToSet(b.pages)}
Link(b, a) ==
  LET mine == {p \in ToSet(b.pages) : p.id \in b.owners[a]}
  IN  [action |-> a, routes |-> b.owners[a], paths |-> {p.path : p \in mine},
       keys |-> {"route", "data"} \X b.owners[a],
       tags |-> UNION {p.tags : p \in {q \in mine : q.prerendered}}]
Links(b) == {Link(b, a) : a \in DOMAIN b.owners}

\* What a link invalidates at run time: the keys it targets and whatever has a
\* pathname or a tag of it.
Invalidates(l, e) == e.key \in l.keys \/ e.path \in l.paths \/ e.tags \cap l.tags # {}

\* findRoute: the first route with the id or the pathname.
FindRoute(b, selector) ==
  LET those == {i \in DOMAIN b.pages : selector \in {b.pages[i].id, b.pages[i].path}}
  IN  b.pages[CHOOSE i \in those : \A j \in those : i <= j]

\* inspectCache and inspectRoute of a route, inspectCache of a tag.
RouteEntries(b, p) == {e \in Entries(b) : e.route = p.id \/ e.path = p.path}
\* Mutant: the links of a route are those with its id.
LinksById(b, p) == {l \in Links(b) : p.id \in l.routes}
RouteLinks(b, p) == {l \in Links(b) : p.id \in l.routes \/ p.path \in l.paths}
TagLinks(b, t) == {l \in Links(b) : t \in l.tags}

-----------------------------------------------------------------------------
\* diffBuildArtifacts, of two contexts: the routes are those of the deployment manifest, the
\* replay is of the manifests before it, the signatures of those after it.  A map from
\* pathname to route keeps the last of a pathname.
Paths(b) == {p.path : p \in ToSet(b.pages)}
At(b, path) ==
  LET those == {i \in DOMAIN b.pages : b.pages[i].path = path}
  IN  b.pages[CHOOSE i \in those : \A j \in those : j <= i]
Replayed(c, path) == IF path \in DOMAIN c.rest.replay THEN c.rest.replay[path] ELSE None
\* Mutant: a decision that only this build replays is a change.
CurrentReplays(x, y, path) == Replayed(x, path) # None
BothReplay(x, y, path) == Replayed(x, path) # None /\ Replayed(y, path) # None
TraitsDiffer(x, y, path) == At(x.deploy, path).traits # At(y.deploy, path).traits
DecisionDiffers(x, y, path) == BothReplay(x, y, path) /\ Replayed(x, path) # Replayed(y, path)

\* Mutant: a route is changed by its decision alone.
DecisionsOnly(x, y, path) == DecisionDiffers(x, y, path)
RouteChanged(x, y, path) == TraitsDiffer(x, y, path) \/ DecisionDiffers(x, y, path)

\* Of the manifests, only those both builds signed are compared.
Signed(c) == IF c.signed = None THEN <<>> ELSE c.signed.signed
Diff(x, y) ==
  [added |-> Paths(x.deploy) \ Paths(y.deploy), removed |-> Paths(y.deploy) \ Paths(x.deploy),
   changed |-> {p \in Paths(x.deploy) \cap Paths(y.deploy) : RouteChanged(x, y, p)},
   manifests |-> {k \in DOMAIN Signed(x) \cap DOMAIN Signed(y) : Signed(x)[k] # Signed(y)[k]}]

-----------------------------------------------------------------------------
\* A directory that one build wrote, or none.
Whole(b) == [deploy |-> b, rest |-> b, signed |-> b, examined |-> FALSE]
OneBuild == \A d \in Dirs : disk[d].deploy = disk[d].rest /\ disk[d].signed = disk[d].rest

Init ==
  /\ disk \in [Dirs -> {Whole(b) : b \in Builds \cup {None}}]
  /\ loads = <<>> /\ part = None /\ quiet = TRUE
  /\ bundles = [i \in Ids |-> None] /\ release = None /\ runs = 0

\* A developer's build: the deployment manifest after most of the others, then the
\* signatures and the governance audit.
Build(d, b) ==
  /\ runs < MaxBuilds /\ runs' = runs + 1
  /\ disk' = [disk EXCEPT ![d].rest = b] /\ quiet' = FALSE
  /\ UNCHANGED <<loads, part, bundles, release>>

Deploy(d) ==
  /\ disk[d].deploy # disk[d].rest
  /\ disk' = [disk EXCEPT ![d].deploy = disk[d].rest] /\ quiet' = FALSE
  /\ UNCHANGED <<loads, part, bundles, release, runs>>

Sign(d) ==
  /\ disk[d].deploy = disk[d].rest /\ disk[d].signed # disk[d].rest
  /\ disk' = [disk EXCEPT ![d].signed = disk[d].rest] /\ quiet' = FALSE
  /\ UNCHANGED <<loads, part, bundles, release, runs>>

\* The contexts of both directories, then their summaries, each loaded anew.
\* Mutant: both summaries are made of the first directory.
SummaryOfCurrent == <<"current", "baseline", "current", "current">>
LoadPlan == <<"current", "baseline", "current", "baseline">>
Loading == LoadPlan[Len(loads) + 1]

\* resolveDistRootCandidate finds a deployment manifest without asking the configuration;
\* elsewhere the doctor's report has to be there.
Found(d) == disk[d].deploy # None /\ (d \in Hidden => disk[d].examined)

\* loadInspectionContext: the deployment manifest and the doctor's report, then the rest, and
\* the signatures last.
LoadFirst ==
  /\ Len(loads) < Len(LoadPlan) /\ part = None /\ Found(Loading)
  /\ part' = [deploy |-> disk[Loading].deploy, rest |-> None, signed |-> None, built |-> FALSE]
  /\ UNCHANGED <<disk, loads, quiet, bundles, release, runs>>

\* Without a deployment manifest it builds and reads that; then, for want of a report, the
\* doctor builds again before the rest is read.
LoadBuilding ==
  /\ Len(loads) < Len(LoadPlan) /\ part = None /\ ~Found(Loading)
  /\ \E b \in IF disk[Loading].deploy = None THEN Builds ELSE {disk[Loading].deploy}, c \in Builds :
       /\ part' = [deploy |-> b, rest |-> None, signed |-> None, built |-> TRUE]
       /\ disk' = [disk EXCEPT ![Loading] = [Whole(c) EXCEPT !.examined = TRUE]]
  /\ UNCHANGED <<loads, quiet, bundles, release, runs>>

LoadRest ==
  /\ part # None /\ part.rest = None /\ part' = [part EXCEPT !.rest = disk[Loading].rest]
  /\ UNCHANGED <<disk, loads, quiet, bundles, release, runs>>

LoadSigned ==
  /\ part # None /\ part.rest # None /\ part' = None
  /\ loads' = Append(loads, [part EXCEPT !.signed = disk[Loading].signed])
  /\ UNCHANGED <<disk, quiet, bundles, release, runs>>

Again ==
  /\ Len(loads) = Len(LoadPlan) /\ loads' = <<>> /\ quiet' = OneBuild
  /\ UNCHANGED <<disk, part, bundles, release, runs>>

\* createReleaseEvidenceDiffReport: the entries whose status is not what it was.
StatusChanges(new, old) ==
  {e \in DOMAIN new.matrix \cap DOMAIN old.matrix : new.matrix[e] # old.matrix[e]}

\* Mutant: the index of a bundle keeps the paths of the output directory.
UnmovedPaths(i) == disk["current"].rest
BundledMatrix(i) == bundles'[i]

\* releaseApplication: what was verified is bundled, and then the baseline is read.
Release(i) ==
  /\ disk["current"].deploy # None /\ disk["current"].deploy = disk["current"].rest
  /\ disk["current"].signed = disk["current"].rest
  /\ LET b == disk["current"].rest IN
     /\ (i = b.id \/ bundles[i] # None)
     /\ bundles' = [bundles EXCEPT ![b.id] = b]
     /\ release' = [of |-> b, target |-> i, before |-> bundles[i],
                    shown |-> StatusChanges(b, BundledMatrix(i))]
  /\ UNCHANGED <<disk, loads, part, quiet, runs>>

\* A diff and a release share nothing but the directories: the releases follow the diffs.
Next ==
  \/ \E d \in Dirs : Deploy(d) \/ Sign(d) \/ \E b \in Builds : Build(d, b)
  \/ release = None /\ (LoadFirst \/ LoadBuilding \/ LoadRest \/ LoadSigned \/ Again)
  \/ loads = <<>> /\ part = None /\ \E i \in Ids : Release(i)

Spec == Init /\ [][Next]_vars

-----------------------------------------------------------------------------
Reported == Len(loads) = Len(LoadPlan)

(* A report is of two builds: unless a build ran meanwhile, the summaries  *)
(* and the diff are of the same manifests, one build in each directory;    *)
(* only the routes of a directory that the diff has built itself, and the  *)
(* doctor then again, are those of the first of the two.                   *)
ReportIsOfTwoBuilds ==
  Reported /\ quiet =>
    \A i \in {1, 2} :
      LET diff == loads[i]
          summary == loads[i + 2]
      IN  /\ diff.rest = summary.rest /\ diff.signed = summary.rest /\ summary.signed = summary.rest
          /\ summary.deploy = summary.rest /\ (diff.deploy = diff.rest \/ diff.built)

(* A diff read from the other side is the same diff: what one calls added  *)
(* the other calls removed, and they agree on what has changed, also where *)
(* only one of the builds replays the decision of a route.                 *)
DiffIsMirrored ==
  Reported => LET there == Diff(loads[1], loads[2])
                  back == Diff(loads[2], loads[1])
              IN  /\ there.added = back.removed /\ there.removed = back.added
                  /\ there.changed = back.changed /\ there.manifests = back.manifests

(* A page that differs is shown: unless another page has its pathname, of  *)
(* which the diff compares only the last.                                  *)
EveryChangedPageIsShown ==
  Reported =>
    LET x == loads[1].deploy
        y == loads[2].deploy
        Alone(b, p) == \A q \in ToSet(b.pages) : q.path = p.path => q = p
    IN  \A p \in ToSet(x.pages), q \in ToSet(y.pages) :
          p.path = q.path /\ Alone(x, p) /\ Alone(y, q) /\ p.traits # q.traits =>
            p.path \in Diff(loads[1], loads[2]).changed

(* Whatever invalidates an entry that `inspect` lists for a route, it lists *)
(* too: by the route, or by one of the tags that the entry is listed with. *)
InspectionFindsEveryInvalidation ==
  \A i \in DOMAIN loads : \A s \in PageIds(loads[i].deploy) \cup Paths(loads[i].deploy) :
    LET b == loads[i].rest
        p == FindRoute(loads[i].deploy, s)
    IN  \A e \in RouteEntries(b, p), l \in Links(b) :
          Invalidates(l, e) => l \in RouteLinks(b, p) \/ \E t \in e.tags : l \in TagLinks(b, t)

(* A release is compared with the release it names, as that was bundled;   *)
(* only a bundle of its own build id it has overwritten by then.           *)
ReleaseDiffIsOfTheBaseline ==
  release # None /\ release.target # release.of.id =>
    release.shown = StatusChanges(release.of, release.before)
-----------------------------------------------------------------------------
(* The strengthening of the properties above.                              *)
Maybe == Builds \cup {None}
Directories == [deploy : Maybe, rest : Maybe, signed : Maybe, examined : BOOLEAN]
Contexts == [deploy : Builds, rest : Maybe, signed : Maybe, built : BOOLEAN]

\* A directory that has a deployment manifest has the manifests before it.
DiskInv ==
  /\ disk \in [Dirs -> Directories]
  /\ \A d \in Dirs : disk[d].deploy # None => disk[d].rest # None

\* What is loaded is of a build, and while it is being loaded there is a build to load.
LoadsInv ==
  /\ loads \in Seq(Contexts) /\ Len(loads) <= Len(LoadPlan)
  /\ \A i \in DOMAIN loads : loads[i].rest # None
  /\ part # None => part \in Contexts /\ Len(loads) < Len(LoadPlan) /\ disk[Loading].rest # None

\* The i-th context is of what its directory holds, as far as it is loaded.
Kept(i, c) ==
  LET d == LoadPlan[i]
  IN  /\ Found(d) /\ (c.rest # None => c.rest = disk[d].rest)
      /\ c.deploy = disk[d].rest \/ (c.built /\ i <= 2)

\* While no build runs, whatever is loaded is what its directory still holds, apart from the
\* routes of one that had to be built; which after the first two none has.
QuietInv ==
  quiet =>
    /\ OneBuild
    /\ \A i \in DOMAIN loads : Kept(i, loads[i]) /\ loads[i].signed = loads[i].rest
    /\ part # None => Kept(Len(loads) + 1, part)

ReleasesInv == DOMAIN bundles = Ids /\ ReleaseDiffIsOfTheBaseline

Inv == DiskInv /\ LoadsInv /\ QuietInv /\ ReleasesInv
=============================================================================
