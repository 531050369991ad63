-------------------------- MODULE ReleaseVerification --------------------------
(***************************************************************************)
(* A production build and its verification.                                *)
(*                                                                         *)
(* The build writes its output directory file by file over what the builds *)
(* before it left there, signs what it wrote, and deploys it.  It may fail *)
(* or die between any two steps.  verifyArtifactIntegrity says whether a   *)
(* directory is whole.                                                     *)
(*                                                                         *)
(* A server that runs on the directory takes no notice of builds: it has   *)
(* the prerender manifest in memory, as it was when it loaded it last, and *)
(* writes it back with pages marked as invalidated or renewed, whatever is *)
(* there by then and while a build is at work.  It also renders pages      *)
(* anew.  One server writes one manifest at a time here, and one build     *)
(* runs on the directory at a time: nothing in the code sees to that, and  *)
(* two builds at once would mix their files.                               *)
(*                                                                         *)
(* `sourceog verify` (verifyApplication of verify.ts) builds, which        *)
(* deploys, reads the build's manifests, checks them against each other    *)
(* and against the hashes, runs the workspace's scripts, audits the        *)
(* workspace, writes its reports with the release evidence index into the  *)
(* directory it has just checked, and then applies the release gates.      *)
(* Other builds and a server on the directory go on meanwhile.             *)
(*                                                                         *)
(* disk has the content of each file, or of each group of files that are   *)
(* written one after another in the same way; pages the prerendered pages  *)
(* by pathname; build the step the build is at; server the manifest that   *)
(* the server has in memory, the one it is writing, and how often servers  *)
(* wrote it; touched says that a server has written the prerender manifest *)
(* since a build did.                                                      *)
(***************************************************************************)
EXTENDS Naturals, Sequences, FiniteSets

CONSTANTS
  Apps,      \* what there is to build: [pages (sizes by pathname), budgets, allowed, capable]
  MaxRuns,
  MaxRewrites,  \* how often servers write the prerender manifest
  None

VARIABLES
  disk, pages, build, touched, deployed,
  server,  \* [memory, writing, writes]
  ver,     \* the verification: [at, run, id, read (the manifests as it read them)]
  reports  \* the verification that wrote a report last, 0 for none

vars == <<disk, pages, build, touched, deployed, server>>

\* A file cut short, and the empty manifest of no build ("dev") that a server takes for one
\* that is missing.
Torn == [run |-> 0, id |-> None, renewed |-> FALSE, of |-> None]
Foreign == [Torn EXCEPT !.renewed = TRUE]

\* What is written, in the order of buildApplication, and whether by writeJsonAtomically.
\* "render" stands for the manifests from the render manifest to the action manifest,
\* "prerender" for those from the asset manifest to the consistency graph, "baseline" for
\* the doctor's and the policy replay's.
Plan == <<<<"assets", FALSE>>, <<"refs", TRUE>>, <<"pages", FALSE>>, <<"route", FALSE>>,
          <<"refs", TRUE>>, <<"client", TRUE>>, <<"render", TRUE>>, <<"prerender", TRUE>>,
          <<"tuner", FALSE>>, <<"baseline", TRUE>>, <<"deployment", TRUE>>,
          <<"signature", TRUE>>, <<"deploymentSignature", TRUE>>, <<"governance", TRUE>>,
          <<"evidence", FALSE>>>>

\* Mutant: the client references are given their build id when everything else is done.
RefsLast == SubSeq(Plan, 1, 4) \o SubSeq(Plan, 6, Len(Plan)) \o <<Plan[5]>>
Order == Plan

Files == {Plan[i][1] : i \in DOMAIN Plan} \ {"pages"}
\* The manifests that the deployment manifest names, and those of them (and itself) that
\* the artifact signature covers.
Named == Files \ {"assets", "deployment"}
Signed == (Named \ {"signature", "deploymentSignature", "governance", "evidence"}) \cup {"deployment"}

NoServer == [memory |-> None, writing |-> None, writes |-> 0]
Idle == [at |-> 0, run |-> 0, app |-> None, half |-> FALSE, listed |-> {}]

Init ==
  /\ disk = [f \in Files |-> None]
  /\ pages = [p \in UNION {DOMAIN a.pages : a \in Apps} |-> None]
  /\ build = Idle /\ touched = FALSE /\ deployed = None /\ server = NoServer

-----------------------------------------------------------------------------
\* The build.
Begin(app) ==
  /\ build.at = 0 /\ build.run < MaxRuns
  /\ build' = [Idle EXCEPT !.at = 1, !.run = build.run + 1, !.app = app]
  /\ UNCHANGED <<disk, pages, touched, deployed, server>>

\* It ends where it is: an error in the module boundaries, a capability the adapter lacks,
\* a render or a hook that throws, or the end of the process.
Stop == /\ build.at # 0 /\ build' = [Idle EXCEPT !.run = build.run]
        /\ UNCHANGED <<disk, pages, touched, deployed, server>>

File == Order[build.at][1]
Atomically == Order[build.at][2]

\* What a file says: the run (every manifest has the moment it was made, so two runs never
\* write the same bytes), the build id, which is made when the pages are there, for a signature what it
\* covers as it is on the disk, for the deployment's signature what the signature says, for
\* the governance audit the counts of what was built, which follow from the application.
GovernanceCounts == build.app
Content(f) ==
  [run |-> build.run, id |-> IF build.at > 4 THEN build.app ELSE None, renewed |-> FALSE,
   of |-> CASE f = "signature" -> [g \in Signed |-> disk[g]]
            [] f = "deploymentSignature" -> disk["signature"].of
            [] f = "governance" -> GovernanceCounts
            [] f \notin {"signature", "deploymentSignature", "governance"} -> None]

\* The gates before a step: the module boundaries before the first, the adapter's
\* capabilities before the manifests, and every signed file must be there to be hashed.
MayGoOn ==
  /\ File = "assets" => build.app.allowed
  /\ File = "render" => build.app.capable
  /\ File = "signature" => \A f \in Signed : disk[f] # None

\* A write's first half: writeFile has truncated the file, or writeJsonAtomically, with
\* the new content beside it, has removed the old.  Either half of the latter takes the place
\* of a file that a server is writing, whose rest then goes nowhere.
Replaced == IF File = "prerender" THEN [server EXCEPT !.writing = None] ELSE server
WriteHalf ==
  /\ build.at \in DOMAIN Order /\ ~build.half /\ File # "pages" /\ MayGoOn
  /\ disk' = [disk EXCEPT ![File] = IF Atomically THEN None ELSE Torn]
  /\ build' = [build EXCEPT !.half = TRUE]
  /\ server' = Replaced
  /\ UNCHANGED <<pages, touched, deployed>>

WriteRest ==
  /\ build.half
  /\ disk' = [disk EXCEPT ![File] = Content(File)]
  /\ build' = [build EXCEPT !.half = FALSE, !.at = @ + 1]
  /\ server' = Replaced
  /\ touched' = (touched /\ File # "prerender")
  /\ UNCHANGED <<pages, deployed>>

\* Mutant: a page that is there already is not rendered again.
RenderMissing(p) == IF pages[p] = None THEN [run |-> build.run] ELSE pages[p]
Rendered(p) == [run |-> build.run]

\* The pages one after another, each with its flight payload; those of routes that are
\* gone stay where they are.
Prerender(p) ==
  /\ build.at \in DOMAIN Order /\ File = "pages" /\ p \in DOMAIN build.app.pages \ build.listed
  /\ pages' = [pages EXCEPT ![p] = Rendered(p)]
  /\ build' = [build EXCEPT !.listed = @ \cup {p}]
  /\ UNCHANGED <<disk, touched, deployed, server>>

Prerendered ==
  /\ build.at \in DOMAIN Order /\ File = "pages" /\ build.listed = DOMAIN build.app.pages
  /\ build' = [build EXCEPT !.at = @ + 1]
  /\ UNCHANGED <<disk, pages, touched, deployed, server>>

\* evaluateBudgets: a page is held to the first budget whose pattern it matches.
First(p) == {i \in DOMAIN build.app.budgets :
              /\ p \in build.app.budgets[i].matches
              /\ \A j \in 1..(i - 1) : p \notin build.app.budgets[j].matches}
Violations == {p \in build.listed :
                 \E i \in First(p) : build.app.pages[p] > build.app.budgets[i].bytes}

\* verifyArtifactIntegrity: no error in what inspectArtifactSet reports, and no file it
\* reads that does not parse.
Parsed(f) == disk[f] \notin {None, Torn}
\* Mutant: a signed file has to be there.
IsThere(f) == disk[f] # None
Matches(f) == disk[f] = disk["signature"].of[f]

Verified ==
  /\ \A f \in {"deployment", "signature", "deploymentSignature", "baseline", "governance"} : Parsed(f)
  /\ \A f \in Named : disk[f] # None
  /\ \A f \in Signed : disk["signature"].of[f] # None /\ Matches(f)
  /\ disk["deploymentSignature"].of = disk["signature"].of

\* Mutant: the adapter deploys as soon as the deployment is signed.
OnceSigned == build.at = Len(Order) - 1
Over == build.at = Len(Order) + 1

\* The end: the adapter deploys what passes its budgets.
Deploy ==
  /\ Over /\ ~build.half /\ build.run \notin {d.run : d \in {deployed} \ {None}}
  /\ deployed' = IF Violations = {} THEN [run |-> build.run, whole |-> Verified, touched |-> touched]
                  ELSE deployed
  /\ build' = IF Violations = {} THEN build ELSE [Idle EXCEPT !.run = build.run]
  /\ UNCHANGED <<disk, pages, touched, server>>

-----------------------------------------------------------------------------
\* A server on the directory loads the prerender manifest, when it starts and after what it
\* writes; it throws on one that is being written.
loadPrerenderManifest == IF disk["prerender"] = None THEN Foreign ELSE disk["prerender"]

ServerLoads ==
  /\ server.writes < MaxRewrites /\ loadPrerenderManifest \notin {Torn, server.memory}
  /\ server' = [server EXCEPT !.memory = loadPrerenderManifest]
  /\ UNCHANGED <<disk, pages, build, touched, deployed>>

\* It marks pages as invalidated or renewed, in the manifest it has (the invalidations) or in
\* the one that is there (updatePrerenderEntry), and writes it with writeFile, which
\* truncates the file first.
Revalidated ==
  /\ server.writes < MaxRewrites /\ server.memory # None /\ server.writing = None
  /\ \E m \in {server.memory, loadPrerenderManifest} \ {Torn} :
       server' = [server EXCEPT !.writing = [m EXCEPT !.renewed = TRUE], !.writes = @ + 1]
  /\ disk' = [disk EXCEPT !["prerender"] = Torn]
  /\ touched' = TRUE
  /\ UNCHANGED <<pages, build, deployed>>

RevalidatedRest ==
  /\ server.writing # None
  /\ disk' = [disk EXCEPT !["prerender"] = server.writing]
  /\ server' = [server EXCEPT !.writing = None]
  /\ touched' = TRUE
  /\ UNCHANGED <<pages, build, deployed>>

\* It renders a page of its manifest anew, from the sources as it loaded them: a page of no
\* build.
Regenerated(p) ==
  /\ server.writes < MaxRewrites
  /\ server.memory \notin {None, Foreign} /\ p \in DOMAIN server.memory.id.pages
  /\ pages[p] # None
  /\ pages' = [pages EXCEPT ![p] = [run |-> 0]]
  /\ UNCHANGED <<disk, build, touched, deployed, server>>

ServerStops ==
  /\ server.memory # None /\ server' = [NoServer EXCEPT !.writes = server.writes]
  /\ UNCHANGED <<disk, pages, build, touched, deployed>>

-----------------------------------------------------------------------------
\* The verification.
rvars == <<vars, ver, reports>>

NotVerifying == [at |-> "off", run |-> 0, id |-> None, read |-> [f \in Files |-> None]]

ReleaseInit == Init /\ ver = NotVerifying /\ reports = [r \in {"audit", "scoreboard"} |-> 0]

Fail == ver' = [NotVerifying EXCEPT !.at = "failed", !.run = ver.run]

-----------------------------------------------------------------------------
\* verifyApplication begins with a build of its own; a build may also be made without it.
verifyApplication(app) ==
  /\ ver.at \in {"off", "passed", "failed"} /\ Begin(app)
  /\ ver' = [NotVerifying EXCEPT !.at = "build", !.run = build.run + 1]
  /\ UNCHANGED reports

OtherBuild(app) == ver.at \notin {"off", "build"} /\ Begin(app) /\ UNCHANGED <<ver, reports>>

BuildStep ==
  /\ WriteHalf \/ WriteRest \/ Prerendered \/ Deploy \/ \E p \in DOMAIN pages : Prerender(p)
  /\ UNCHANGED <<ver, reports>>

\* A build that throws, and a process that ends, takes its verification along.
BuildStops ==
  /\ Stop /\ IF ver.at = "build" THEN Fail ELSE UNCHANGED ver
  /\ UNCHANGED reports

OverBudget ==
  /\ ver.at = "build" /\ build.at = 0 /\ Fail
  /\ UNCHANGED <<vars, reports>>

-----------------------------------------------------------------------------
\* verifyBuildOutput, first all reads.
\* assertManifestShape: a manifest parses, and has the id of the build if it has one yet.
Shaped(f, d, id) == d[f] \notin {None, Torn, Foreign} /\ d[f].id \in {None, id}

ReadManifests ==
  /\ ver.at = "build" /\ Over /\ deployed # None /\ deployed.run = build.run
  /\ build' = [Idle EXCEPT !.run = build.run]
  /\ IF \A f \in Named \cup {"deployment"} : Shaped(f, disk, build.app)
     THEN ver' = [ver EXCEPT !.at = "read", !.id = build.app, !.read = disk]
     ELSE Fail
  /\ UNCHANGED <<disk, pages, touched, deployed, server, reports>>

\* Then the checks, of the files as they are now (d) against what was read.  The assets that
\* the manifests name are there.
AssetsThere(d) == d["assets"] # None

\* The signatures.
\* Mutant: the deployment's signature is not held against the artifacts' signature.
ArtifactsOnly(d, read) == \A f \in Signed : read["signature"].of[f] = d[f]
SignaturesMatch(d, read) ==
  /\ \A f \in Signed : read["signature"].of[f] = d[f]
  /\ read["deploymentSignature"].of = read["signature"].of

\* The governance audit counts what the other manifests list.
GovernanceAgrees(read) == read["governance"].of = read["deployment"].id

CheckManifests ==
  /\ ver.at = "read"
  /\ IF AssetsThere(disk) /\ SignaturesMatch(disk, ver.read) /\ GovernanceAgrees(ver.read)
     THEN ver' = [ver EXCEPT !.at = "checked", !.read = NotVerifying.read] ELSE Fail
  /\ UNCHANGED <<vars, reports>>

\* The workspace's own typecheck and tests, if it has them.
RunScripts ==
  /\ ver.at = "checked"
  /\ ver' = [ver EXCEPT !.at = "tested"] \/ Fail
  /\ UNCHANGED <<vars, reports>>

\* auditSourceogPublishReadiness writes its reports whatever it finds.
Audit ==
  /\ ver.at = "tested"
  /\ ver' = [ver EXCEPT !.at = "audited"]
  /\ reports' = [reports EXCEPT !["audit"] = ver.run]
  /\ UNCHANGED vars

\* writeVerificationArtifacts: scoreboard, dashboard and matrix, then the evidence index
\* anew, which names the reports that are there then.
WriteReports ==
  /\ ver.at = "audited"
  /\ ver' = [ver EXCEPT !.at = "evidence"]
  /\ reports' = [reports EXCEPT !["scoreboard"] = ver.run]
  /\ disk' = [disk EXCEPT !["evidence"] = Torn]
  /\ UNCHANGED <<pages, build, touched, deployed, server>>

\* Mutant: the index names what the audit wrote.
AuditOnly == [reports EXCEPT !["scoreboard"] = 0]
EvidenceArtifacts == reports

WriteEvidence ==
  /\ ver.at = "evidence"
  /\ ver' = [ver EXCEPT !.at = "reported"]
  /\ disk' = [disk EXCEPT !["evidence"] =
                [run |-> ver.run, id |-> ver.id, renewed |-> FALSE, of |-> EvidenceArtifacts]]
  /\ UNCHANGED <<pages, build, touched, deployed, server, reports>>

\* verifyAdosfReleaseGates reads the workspace again.
Gates ==
  /\ ver.at = "reported"
  /\ ver' = [ver EXCEPT !.at = "passed"] \/ Fail
  /\ UNCHANGED <<vars, reports>>

Crash ==
  /\ ver.at \notin {"off", "build", "passed", "failed"}
  /\ Fail /\ UNCHANGED <<vars, reports>>

-----------------------------------------------------------------------------
\* The server.
ServerStep ==
  /\ \/ ServerLoads \/ Revalidated \/ RevalidatedRest \/ ServerStops
     \/ \E p \in DOMAIN pages : Regenerated(p)
  /\ UNCHANGED <<ver, reports>>

ReleaseNext ==
  \/ \E a \in Apps : verifyApplication(a) \/ OtherBuild(a)
  \/ BuildStep \/ BuildStops \/ OverBudget
  \/ ReadManifests \/ CheckManifests \/ RunScripts \/ Audit \/ WriteReports \/ WriteEvidence
  \/ Gates \/ Crash
  \/ ServerStep

ReleaseSpec == ReleaseInit /\ [][ReleaseNext]_rvars

-----------------------------------------------------------------------------
\* A manifest is of the run, or a server has written it, perhaps from another build, or is
\* writing it.
IsOf(m, run) == m # None /\ (m.run = run \/ m.renewed \/ m = Torn)

\* A directory that verifies holds, of everything the signature is to cover, the files of
\* one build, whole, whatever was interrupted before, and whatever was left there; but the
\* prerender manifest may be a server's, if it wrote before the build took its hash.
VerifiedIsOneBuild ==
  Verified => \A f \in Signed :
    IF f = "prerender" THEN IsOf(disk[f], disk["deployment"].run)
    ELSE Parsed(f) /\ disk[f].run = disk["deployment"].run

\* A build that ran to its end leaves a directory that verifies, unless a server has
\* written the prerender manifest, which is signed, since the build did.
WholeBuildVerifies ==
  build.at = Len(Plan) + 1 /\ ~touched => Verified

\* Every page that the build lists is the page it rendered, or one that a server rendered
\* since.
ListedPagesAreNew ==
  build.at > 4 => \A p \in build.listed : pages[p].run \in {build.run, 0}

\* What is given to the adapter verifies at that moment, unless a server had written into it.
DeployedIsWhole == deployed # None => deployed.whole \/ deployed.touched

\* verifyBuildOutput of the directory as it is.
OutputPasses(id) ==
  /\ \A f \in Named \cup {"deployment"} : Shaped(f, disk, id)
  /\ AssetsThere(disk) /\ SignaturesMatch(disk, disk) /\ GovernanceAgrees(disk)

\* The two verifiers of a directory agree: what `sourceog verify` accepts, the integrity
\* check that a server or the doctor makes accepts too, however the directory came about.
TwoVerifiersAgree == \A a \in Apps : OutputPasses(a) => Verified

\* A verification that passed leaves a directory that both verifiers accept, though it wrote
\* into it after it had checked it, and the evidence names the reports it wrote; unless
\* somebody built there, or a server wrote the prerender manifest.
PassedIsWhole ==
  ver.at = "passed" /\ ver.run = build.run /\ ~touched =>
    /\ Verified /\ OutputPasses(ver.id)
    /\ disk["evidence"].of["audit"] = ver.run /\ disk["evidence"].of["scoreboard"] = ver.run

-----------------------------------------------------------------------------
\* What the proofs carry along: the files behind the build's step are what this build
\* wrote, but for what a server may write, a signature covers files of one build and
\* perhaps a server's, and what a verification has checked stays whole until another build
\* or a server comes.
Plain == [run : Nat, id : Apps \cup {None}, renewed : BOOLEAN, of : {None}]
Reports == [{"audit", "scoreboard"} -> Nat]
Contents == [run : Nat, id : Apps \cup {None}, renewed : BOOLEAN,
             of : {None} \cup Apps \cup [Signed -> Plain \cup {None}] \cup Reports]

Signatures == {"signature", "deploymentSignature"}
Wrote(d, f, run, app) ==
  IF f = "evidence" THEN d[f] # None
  ELSE d[f] = [run |-> run, id |-> IF f \in {"assets", "route"} THEN None ELSE app, renewed |-> FALSE,
               of |-> IF f \in Signatures THEN [g \in Signed |-> d[g]]
                      ELSE IF f = "governance" THEN app ELSE None]
\* What stays of it when a server comes.
Left(d, f, run, app) ==
  IF f = "prerender" THEN IsOf(d[f], run)
  ELSE IF f \in Signatures THEN d[f] # None /\ d[f].run = run
  ELSE Wrote(d, f, run, app)
Behind(f) == \A i \in DOMAIN Plan : Plan[i][1] = f => i < build.at

DiskInv ==
  /\ DOMAIN disk = Files /\ \A f \in Signed : disk[f] \in Plain \cup {None}
  /\ \A f \in Signatures :
       disk[f] \notin {None, Torn} => disk[f].of \in [Signed -> Plain \cup {None}]
  /\ disk["signature"] \notin {None, Torn} =>
       \E r \in 1 .. build.run : \A g \in Signed :
         /\ IsOf(disk["signature"].of[g], r)
         /\ g # "prerender" => disk["signature"].of[g].run = r
ServerInv == server \in [memory : Plain \cup {None}, writing : {m \in Plain : m.renewed} \cup {None},
                         writes : Nat]
BuildInv ==
  /\ build \in [at : 0 .. Len(Plan) + 1, run : Nat, app : Apps \cup {None}, half : BOOLEAN,
                listed : SUBSET DOMAIN pages]
  /\ build.half => build.at \in DOMAIN Plan /\ Plan[build.at][1] # "pages"
  /\ \A p \in build.listed : pages[p].run \in {build.run, 0}
  /\ build.at # 0 => build.app \in Apps /\ build.run > 0
  /\ build.at # 0 => \A f \in Files : Behind(f) =>
       /\ Left(disk, f, build.run, build.app)
       /\ touched \/ Wrote(disk, f, build.run, build.app)
VerificationInv ==
  /\ DOMAIN ver = {"at", "run", "id", "read"}
  /\ ver.run \in 0 .. build.run /\ (ver.at = "build" => ver.run = build.run)
  /\ ver.at \in {"read", "checked", "tested", "audited", "evidence", "reported", "passed"} =>
       /\ ver.id \in Apps /\ ver.run > 0
       /\ ver.run = build.run =>
            build.at = 0 /\ (~touched => \A f \in Files : Wrote(disk, f, ver.run, ver.id))
       /\ ver.at \notin {"read", "checked", "tested"} => reports["audit"] = ver.run
       /\ ver.at \notin {"read", "checked", "tested", "audited"} => reports["scoreboard"] = ver.run
       /\ ver.at \in {"reported", "passed"} /\ ver.run = build.run =>
            /\ disk["evidence"].of["audit"] = ver.run /\ disk["evidence"].of["scoreboard"] = ver.run
            /\ disk["evidence"] = [run |-> ver.run, id |-> ver.id, renewed |-> FALSE,
                                   of |-> disk["evidence"].of]
            /\ disk["evidence"].of \in Reports
Inv ==
  /\ touched \in BOOLEAN /\ reports \in Reports
  /\ deployed # None => deployed.whole \/ deployed.touched
  /\ DiskInv /\ ServerInv /\ BuildInv /\ VerificationInv
=============================================================================
