-------------------------------- MODULE Build --------------------------------
(***************************************************************************)
(* The compiler, from the analysis of an application to a release: the     *)
(* boundaries and manifests, the build and its verification, the commands  *)
(* that judge a project, and what is read out of two builds.  The initial  *)
(* states pick one of the four components, and the shared variables v1,    *)
(* v2, ... hold the state of the picked one.  The constants are those of   *)
(* the components, under names of their own.                               *)
(***************************************************************************)
EXTENDS Naturals, Sequences, FiniteSets, TLC

CONSTANTS
  None,
  Applications,                         \* RouteArtifacts
  Deployables, BuildRuns, MaxRewrites,  \* ReleaseVerification
  Flaws, Areas, CommandRuns, MaxEdits,  \* ReleaseEvidence
  Builds, MaxBuilds, Hidden             \* ArtifactInspection

VARIABLES
  which, v1, v2, v3, v4, v5, v6, v7, v8

shared == <<v1, v2, v3, v4, v5, v6, v7, v8>>
all == <<which, shared>>

\* The variables that a component does not use.
from6 == <<v6, v7, v8>>
\* And what they hold.
Unused8 == v8 = 0
Unused6 == v6 = 0 /\ v7 = 0 /\ Unused8

RA == INSTANCE RouteArtifacts WITH
  app <- v1, owners <- v2, queue <- v3, parsed <- v4, walk <- v5, Apps <- Applications
RV == INSTANCE ReleaseVerification WITH
  disk <- v1, pages <- v2, build <- v3, touched <- v4, deployed <- v5, server <- v6,
  ver <- v7, reports <- v8, Apps <- Deployables, MaxRuns <- BuildRuns
RE == INSTANCE ReleaseEvidence WITH
  ws <- v1, edits <- v2, dist <- v3, index <- v4, report <- v5, bundle <- v6,
  cmd <- v7, elsewhere <- v8, MaxRuns <- CommandRuns
AI == INSTANCE ArtifactInspection WITH
  disk <- v1, loads <- v2, part <- v3, quiet <- v4, bundles <- v5, release <- v6,
  runs <- v7

\* No file's content and no index is the value for a missing one.
ASSUME NoneAssumption ==
  /\ None \notin RV!Contents /\ None \notin Builds
  /\ \A names \in SUBSET RE!Names : None # names

\* The routes of an application are listed in some order, each has its own file and no file
\* twice, and what a file imports is a file.
ASSUME ApplicationsAssumption ==
  \A a \in Applications :
    /\ a.order \in Seq(DOMAIN a.routes) /\ \A r \in DOMAIN a.routes : \E i \in DOMAIN a.order : a.order[i] = r
    /\ \A r \in DOMAIN a.routes :
         LET owned == a.routes[r].owned
         IN  /\ owned \in Seq(DOMAIN a.imports) /\ owned # <<>>
             /\ \A i, j \in DOMAIN owned : owned[i] = owned[j] => i = j
    /\ \A f \in DOMAIN a.imports : {a.imports[f], a.edgeImports[f]} \subseteq Seq(DOMAIN a.imports)

\* The pages of a build are a sequence, and the id of a page is made of its pathname.
ASSUME BuildsAssumption ==
  \A b, c \in Builds :
    /\ Len(b.pages) \in Nat /\ DOMAIN b.pages = 1 .. Len(b.pages)
    /\ \A i \in DOMAIN b.pages, j \in DOMAIN c.pages :
         b.pages[i].id = c.pages[j].id => b.pages[i].path = c.pages[j].path

Init ==
  \/ which = "routes" /\ RA!Init /\ Unused6
  \/ which = "verify" /\ RV!ReleaseInit
  \/ which = "evidence" /\ RE!Init
  \/ which = "inspect" /\ AI!Init /\ Unused8

Next ==
  \/ which = "routes" /\ RA!Next /\ UNCHANGED <<which, from6>>
  \/ which = "verify" /\ RV!ReleaseNext /\ UNCHANGED <<which>>
  \/ which = "evidence" /\ RE!Next /\ UNCHANGED <<which>>
  \/ which = "inspect" /\ AI!Next /\ UNCHANGED <<which, v8>>

Spec == Init /\ [][Next]_all

\* The owners of a module are the routes that reach it.
RA_OwnersAreThoseWhoNeed == which = "routes" => RA!OwnersAreThoseWhoNeed
\* The two walks of a route see the same client files.
RA_WalksAgree == which = "routes" => RA!WalksAgree
\* The edge check misses only what its own reading of the sources does not see.
RA_EdgeCheckMissesTheUnseen == which = "routes" => RA!EdgeCheckMissesTheUnseen
\* Milestone 2 and check M3-001 depend on the compiler alone.
RA_MilestonesAskTheCompiler == which = "routes" => RA!MilestonesAskTheCompiler
\* No manifest names an asset that is not written.
RA_PreloadsAreWritten == which = "routes" => RA!PreloadsAreWritten
\* The scripts of a page hydrate what its boundaries declare.
RA_HydrationIsDeclared == which = "routes" => RA!HydrationIsDeclared
\* A client file has a chunk on every page that needs it.
RA_ReferencesHaveChunks == which = "routes" => RA!ReferencesHaveChunks
\* Pages and modules agree on the edge.
RA_EdgeSupportAgrees == which = "routes" => RA!EdgeSupportAgrees
\* Cache entries and actions name each other.
RA_LinksAreMutual == which = "routes" => RA!LinksAreMutual
\* What verifies are the files of one build.
RV_VerifiedIsOneBuild == which = "verify" => RV!VerifiedIsOneBuild
\* A directory that one build wrote to the end verifies.
RV_WholeBuildVerifies == which = "verify" => RV!WholeBuildVerifies
\* The prerender manifest lists pages of its own build.
RV_ListedPagesAreNew == which = "verify" => RV!ListedPagesAreNew
\* What was deployed is whole and within its budgets.
RV_DeployedIsWhole == which = "verify" => RV!DeployedIsWhole
\* The two verifiers agree on a build no one touched.
RV_TwoVerifiersAgree == which = "verify" => RV!TwoVerifiersAgree
\* A verification that passed leaves its reports and evidence.
RV_PassedIsWhole == which = "verify" => RV!PassedIsWhole
\* The evidence index names nothing that is not there.
RE_EvidenceIsThere == which = "evidence" => RE!EvidenceIsThere
\* A release bundles the artifacts of one build.
RE_BundleIsWhole == which = "evidence" => RE!BundleIsWhole
\* A release passed its gates.
RE_BundleIsHealthy == which = "evidence" => RE!BundleIsHealthy
\* A full examination finds what any narrower one finds.
RE_FullExaminationSpeaksForAll == which = "evidence" => RE!FullExaminationSpeaksForAll
\* A diff no build ran into compares the two builds.
AI_ReportIsOfTwoBuilds == which = "inspect" => AI!ReportIsOfTwoBuilds
\* The diff of the reverse direction is the mirror image.
AI_DiffIsMirrored == which = "inspect" => AI!DiffIsMirrored
\* Each page that changed is in the diff.
AI_EveryChangedPageIsShown == which = "inspect" => AI!EveryChangedPageIsShown
\* The inspection of a route names each action that invalidates it.
AI_InspectionFindsEveryInvalidation == which = "inspect" => AI!InspectionFindsEveryInvalidation
\* A release's diff tells the changes since its baseline.
AI_ReleaseDiffIsOfTheBaseline == which = "inspect" => AI!ReleaseDiffIsOfTheBaseline
-----------------------------------------------------------------------------
\* The walks over the imports agree on whose a module is, and the edge check misses only
\* what it reads otherwise than the analysis.
BoundariesAreFound ==
  /\ RA_OwnersAreThoseWhoNeed
  /\ RA_WalksAgree
  /\ RA_EdgeCheckMissesTheUnseen

\* The manifests of a build agree with the files it wrote and with each other: what a page
\* preloads, starts and hydrates, the chunks of its client files, where it may run, and
\* which cache entries its actions invalidate.
ManifestsAgree ==
  /\ RA_MilestonesAskTheCompiler
  /\ RA_PreloadsAreWritten
  /\ RA_HydrationIsDeclared
  /\ RA_ReferencesHaveChunks
  /\ RA_EdgeSupportAgrees
  /\ RA_LinksAreMutual

\* What verifies, or is deployed, is one whole build: a directory written to the end
\* verifies, and one that was cut short or mixed does not.
VerifiedIsWhole ==
  /\ RV_VerifiedIsOneBuild
  /\ RV_WholeBuildVerifies
  /\ RV_ListedPagesAreNew
  /\ RV_DeployedIsWhole
  /\ RV_TwoVerifiersAgree
  /\ RV_PassedIsWhole

\* The evidence of a release is there, is of one build that passed its gates, and a diff or
\* an inspection of it shows every page, action and change.
EvidenceIsOfTheBuild ==
  /\ RE_EvidenceIsThere
  /\ RE_BundleIsWhole
  /\ RE_BundleIsHealthy
  /\ RE_FullExaminationSpeaksForAll
  /\ AI_ReportIsOfTwoBuilds
  /\ AI_DiffIsMirrored
  /\ AI_EveryChangedPageIsShown
  /\ AI_InspectionFindsEveryInvalidation
  /\ AI_ReleaseDiffIsOfTheBaseline

-----------------------------------------------------------------------------
(* What the run gives the constants.                                       *)

\* Two pages and a handler over six modules: the pages share the layout lay, and the imports
\* i1 to i5, the directives q1 to q3 and the builtins b vary.  The edge check sees the imports
\* and builtins of the analysis, misses those of shop (it re-exports) or the builtin of lay (it
\* is not listed), or sees that the first page requires the handler, which needs "fs".
Modules == {"p1", "p2", "hand", "lay", "shop", "cart"}
Application(i1, i2, i3, i4, i5, q1, q2, q3, b, reading) ==
  [order |-> <<"r1", "r2", "r3">>, prerendered |-> {"r1"},
   routes |-> ("r1" :> [page |-> TRUE, owned |-> <<"p1", "lay">>, edge |-> TRUE]
               @@ "r2" :> [page |-> TRUE, owned |-> <<"p2", "lay">>, edge |-> FALSE]
               @@ "r3" :> [page |-> FALSE, owned |-> <<"hand">>, edge |-> FALSE]),
   imports |-> ("p1" :> i1 @@ "p2" :> i2 @@ "lay" :> i3 @@ "shop" :> i4 @@ "cart" :> i5 @@ "hand" :> <<"cart">>),
   directive |-> ("p1" :> q1 @@ "shop" :> q2 @@ "cart" :> q3
                  @@ "p2" :> "none" @@ "lay" :> "none" @@ "hand" :> "none"),
   exports |-> [f \in Modules |-> TRUE],
   builtins |-> [f \in Modules |-> f \in b],
   edgeImports |-> ("p1" :> IF reading = "require" THEN i1 \o <<"hand">> ELSE i1) @@ ("p2" :> i2) @@ ("lay" :> i3)
                   @@ ("shop" :> IF reading = "re-export" THEN <<>> ELSE i4) @@ ("cart" :> i5) @@ ("hand" :> <<"cart">>),
   listed |-> [f \in Modules |-> \/ f \in b /\ (reading = "unlisted" => f # "lay")
                                 \/ reading = "require" /\ f = "hand"]]
SomeApplications ==
  {Application(i1, i2, i3, i4, i5, q1, q2, q3, b, "same") :
     i1 \in {<<>>, <<"shop", "cart">>}, i2 \in {<<>>, <<"shop">>}, i3 \in {<<>>, <<"cart">>},
     i4 \in {<<"cart">>, <<"lay", "p2">>}, i5 \in {<<>>, <<"shop">>}, q1 \in {"none", "use-client"},
     q2 \in {"none", "use-client"}, q3 \in {"use-server", "both"}, b \in {{}, {"shop", "cart"}, {"lay"}}}
  \cup
  {Application(i1, <<>>, i3, i4, i5, "none", q2, "use-server", b, reading) :
     i1 \in {<<>>, <<"shop">>}, i3 \in {<<>>, <<"cart">>}, i4 \in {<<"cart">>, <<"lay", "p2">>},
     i5 \in {<<>>, <<"shop">>}, q2 \in {"none", "use-client"}, b \in {{"shop", "cart"}, {"lay"}},
     reading \in {"re-export", "unlisted", "require"}}

\* An application whose second budget is exceeded by one page alone, and one that is smaller.
SomeDeployables ==
  {[pages |-> ("a" :> 2 @@ "b" :> 2), allowed |-> TRUE, capable |-> TRUE,
    budgets |-> <<[matches |-> {"b"}, bytes |-> 2], [matches |-> {"a", "b"}, bytes |-> 1]>>],
   [pages |-> ("a" :> 1), allowed |-> TRUE, capable |-> TRUE,
    budgets |-> <<[matches |-> {"a"}, bytes |-> 1]>>]}

\* A build whose two pages share a path (a page and its slot), and two of another id.
SomeBuilds ==
  {[id |-> "b1",
    pages |-> <<[id |-> "home", path |-> "/", traits |-> "node", prerendered |-> TRUE, tags |-> {"t"}],
                [id |-> "slot", path |-> "/", traits |-> "node", prerendered |-> FALSE, tags |-> {}]>>,
    owners |-> ("a1" :> {"home"} @@ "a2" :> {"slot"}),
    replay |-> ("/" :> None), signed |-> ("m" :> 1), matrix |-> ("e" :> "stable")],
   [id |-> "b2",
    pages |-> <<[id |-> "home", path |-> "/", traits |-> "edge", prerendered |-> TRUE, tags |-> {"t"}],
                [id |-> "news", path |-> "/n", traits |-> "node", prerendered |-> TRUE, tags |-> {"t", "u"}]>>,
    owners |-> ("a1" :> {"home"} @@ "a2" :> {}),
    replay |-> ("/" :> "x" @@ "/n" :> "x"), signed |-> ("m" :> 2),
    matrix |-> ("e" :> "preview" @@ "f" :> "stable")],
   [id |-> "b2",
    pages |-> <<[id |-> "home", path |-> "/", traits |-> "node", prerendered |-> TRUE, tags |-> {}],
                [id |-> "news", path |-> "/n", traits |-> "edge", prerendered |-> FALSE, tags |-> {}]>>,
    owners |-> ("a1" :> {"news"} @@ "a2" :> {"news"}),
    replay |-> ("/" :> "y" @@ "/n" :> None), signed |-> ("m" :> 1),
    matrix |-> ("e" :> "stable" @@ "f" :> "preview")]}
================================================================================
