---------------------------- MODULE ReleaseEvidence ----------------------------
(***************************************************************************)
(* The commands that judge a project: build, verify, audit, doctor and     *)
(* release.  Each is a sequence of steps that reads the workspace,         *)
(* rebuilds the output directory or not, and leaves reports there with an  *)
(* index of the release evidence; a release copies what the index names    *)
(* into a bundle.                                                          *)
(* A command may be killed between any two steps, the workspace may be     *)
(* edited under it, a server that runs on the directory may rewrite a      *)
(* signed file, and another process may build there; of the commands, only *)
(* `build` runs beside another one, and its build is one step.             *)
(* The doctor that does not build, and so the release, looks into          *)
(* .sourceog, also where the configuration names another output directory. *)
(***************************************************************************)
EXTENDS Naturals, Sequences, FiniteSets

CONSTANTS
  Flaws,     \* what may be wrong with the workspace
  Areas,     \* the areas the doctor is asked for
  MaxRuns,   \* builds
  MaxEdits,  \* edits of the workspace
  None

VARIABLES
  ws, edits,  \* the flaws of the workspace, and how often it was edited
  dist,       \* the output directory: [run, fresh, files (what is there, and of which run)]
  index,      \* the release evidence index: the artifacts it names, None without one
  report,     \* the doctor's report: [area, run, found, saw (the workspace, if that did not
           \* change meanwhile)]
  bundle,     \* what the last release bundled
  cmd,        \* the command that runs
  elsewhere   \* the configuration names another output directory than the doctor's

vars == <<ws, edits, dist, index, report, bundle, cmd, elsewhere>>

\* "build" stands for the six artifacts of a build, "scoreboard" for the parity scoreboard
\* and the milestone dashboard, "audit" for the three reports of the audit, which lie beside
\* the output directory.
RequiredForRelease == {"build", "report", "remedies", "scoreboard", "matrix"}

\* built: the build it made; run: the build its doctor looks at; rewritten and edited: the
\* directory, or the workspace, changed under it.
Idle == [name |-> "none", at |-> "none", area |-> "all", built |-> 0, run |-> 0, verified |-> FALSE,
         found |-> {}, written |-> 0, rewritten |-> FALSE, edited |-> FALSE]

Init ==
  /\ ws = {} /\ edits = 0
  /\ dist = [run |-> 0, fresh |-> FALSE, files |-> <<>>]
  /\ index = None /\ report = None /\ bundle = None /\ cmd = Idle /\ elsewhere \in BOOLEAN

Present == DOMAIN dist.files
Holding(names, run) == [n \in names \cup Present |-> IF n \in names THEN run ELSE dist.files[n]]
\* What a command writes is of the build it looks at.
With(names) == [dist EXCEPT !.files = Holding(names, cmd.run)]

-----------------------------------------------------------------------------
\* The areas a finding belongs to, and how much it weighs.
AreasOf(f) == CASE f = "package"  -> {"all", "package"}
                [] f = "docs"     -> {"all", "docs"}
                [] f = "next"     -> {"all", "migration"}
                [] f = "security" -> {"all", "security"}
                [] OTHER          -> {}
Severity(f) == CASE f \in {"failed", "invalid", "package"} -> "error"
                 [] f = "docs" -> "warn"
                 [] OTHER -> "info"
Passed(found) == \A f \in found : Severity(f) # "error"

\* The doctor builds unless its area is one of those that only look at the workspace.
ShouldBuild(area) == area \notin {"docs", "examples", "package"}

\* Mutant: the audit of the packages is asked for by its own area only.
NarrowAudit(area) == {f \in ws : area \in (AreasOf(f) \ (IF f = "package" THEN {"all"} ELSE {}))}
InWorkspace(area) == {f \in ws : area \in AreasOf(f)}
Audits(area) == area \in {"all", "package"}
AsksForEvidence(area) == area \in {"all", "deployment", "benchmark", "package"}

\* main dispatches on the command; the doctor without a build loads the one that is there.
Begin(name, area) ==
  /\ cmd.at = "none"
  /\ cmd' = [Idle EXCEPT !.name = name, !.area = area,
               !.at = CASE name = "audit" -> "reports"
                        [] name = "doctor" /\ ~ShouldBuild(area) -> "load"
                        [] OTHER -> "build"]
  /\ UNCHANGED <<ws, edits, dist, index, report, bundle>>

\* It ends, of itself, by an error, or because its process is killed.
Ended == cmd' = Idle
Kill == cmd.at # "none" /\ Ended /\ UNCHANGED <<ws, edits, dist, index, report, bundle>>

\* buildApplication, which throws on a broken workspace and writes the index anew at its
\* end; what other commands left in the directory stays there.  build and verify refuse a
\* build over its budgets, the doctor does not.  Without a build the doctor reports to its own
\* directory.
BuildFails ==
  /\ cmd.at = "build" /\ "broken" \in ws
  /\ IF cmd.name = "doctor" /\ ~elsewhere
     THEN cmd' = [cmd EXCEPT !.at = "gather", !.found = {"failed"}] ELSE Ended
  /\ UNCHANGED <<ws, edits, dist, index, report, bundle>>

NewBuild ==
  /\ "broken" \notin ws /\ dist.run < MaxRuns
  /\ dist' = [run |-> dist.run + 1, fresh |-> TRUE, files |-> Holding({"build"}, dist.run + 1)]
  /\ index' = {"build"}

Build ==
  /\ cmd.at = "build" /\ NewBuild
  /\ \/ cmd.name = "doctor" /\ cmd' = [cmd EXCEPT !.at = "gather", !.run = dist'.run, !.verified = TRUE]
     \/ cmd.name = "build" /\ Ended
     \/ /\ cmd.name \in {"verify", "release"}
        /\ IF "budget" \in ws THEN Ended
           ELSE cmd' = [cmd EXCEPT !.at = "audit", !.built = dist'.run, !.run = dist'.run, !.rewritten = FALSE]
  /\ UNCHANGED <<ws, edits, report, bundle>>

\* auditSourceogPublishReadiness by itself.
Audit ==
  /\ cmd.at = "reports" /\ Ended /\ dist' = With({"audit"})
  /\ UNCHANGED <<ws, edits, index, report, bundle>>

-----------------------------------------------------------------------------
\* verifyApplication, once the build is checked: the audit, the reports, the index with
\* what is there of the doctor's, and the gates.  A script of the workspace may fail.
VerifyOutput ==
  /\ cmd.at = "audit"
  /\ IF dist.fresh THEN cmd' = [cmd EXCEPT !.at = "scores"] /\ dist' = With({"audit"})
     ELSE Ended /\ UNCHANGED dist
  /\ UNCHANGED <<ws, edits, index, report, bundle>>

WriteScores ==
  /\ cmd.at = "scores" /\ cmd' = [cmd EXCEPT !.at = "index"]
  /\ dist' = With({"scoreboard", "matrix"})
  /\ UNCHANGED <<ws, edits, index, report, bundle>>

VerifyIndex ==
  /\ cmd.at = "index" /\ cmd' = [cmd EXCEPT !.at = "gates"]
  /\ index' = {"build", "scoreboard", "matrix", "audit"} \cup ({"report", "remedies"} \cap Present)
  /\ UNCHANGED <<ws, edits, dist, report, bundle>>

\* Mutant: the gates ask nothing of the packages.
NoGates == TRUE
PassesGates == "package" \notin ws

\* A release goes on with the doctor, which does not build again.
Gates ==
  /\ cmd.at = "gates"
  /\ IF cmd.name = "release" /\ PassesGates THEN cmd' = [cmd EXCEPT !.at = "load"] ELSE Ended
  /\ UNCHANGED <<ws, edits, dist, index, report, bundle>>

-----------------------------------------------------------------------------
\* runDoctor without a build: what is there is verified, if anything is.
LoadExisting ==
  /\ cmd.at = "load" /\ ~elsewhere
  /\ cmd' = [cmd EXCEPT !.at = "gather", !.run = dist.run, !.verified = dist.run > 0 /\ dist.fresh,
                        !.found = IF dist.run > 0 /\ ~dist.fresh THEN {"invalid"} ELSE {}]
  /\ UNCHANGED <<ws, edits, dist, index, report, bundle>>

\* loadExistingBuildResult of .sourceog, whatever the output directory is: a release bundles
\* the older build that it finds there, or fails for want of one.  What it bundles, and what
\* the doctor writes there, is left out here.
LoadElsewhere ==
  /\ cmd.at = "load" /\ elsewhere /\ Ended
  /\ \/ bundle' = bundle
     \/ cmd.name = "release" /\ bundle' = [run |-> cmd.built, elsewhere |-> TRUE]
  /\ UNCHANGED <<ws, edits, dist, index, report>>

Gather ==
  /\ cmd.at = "gather"
  /\ cmd' = [cmd EXCEPT !.at = "write", !.written = 1, !.found = @ \cup InWorkspace(cmd.area)]
  /\ dist' = IF Audits(cmd.area) THEN With({"audit"}) ELSE dist
  /\ UNCHANGED <<ws, edits, index, report, bundle>>

\* Mutant: the index is written before the files it names.
IndexFirst == <<"index", "report", "remedies">>
DoctorWrites == <<"report", "remedies", "index", "report", "remedies">>

\* Mutant: the new index names what this doctor wrote.
OwnIndex == {"build", "report", "remedies"} \cup (IF Audits(cmd.area) THEN {"audit"} ELSE {})

\* The new index keeps what the old one said of the verification, and looks for the rest.
DoctorIndex ==
  {"build", "report", "remedies"}
    \cup (IF index # None THEN index \cap {"scoreboard", "matrix", "audit"} ELSE {})
    \cup ({"matrix"} \cap Present) \cup (IF Audits(cmd.area) THEN {"audit"} ELSE {})

Missing(names) ==
  IF AsksForEvidence(cmd.area) /\ RequiredForRelease \ names # {} THEN {"missing"} ELSE {}

\* The report and the remedies are written twice, the second time with what the index lacks.
WriteReport ==
  /\ DoctorWrites[cmd.written] = "report"
  /\ report' = [area |-> cmd.area, run |-> cmd.run, found |-> cmd.found,
                saw |-> IF cmd.edited THEN None ELSE ws]
  /\ dist' = With({"report"})
  /\ cmd' = [cmd EXCEPT !.written = @ + 1] /\ UNCHANGED index

WriteRemedies ==
  /\ DoctorWrites[cmd.written] = "remedies" /\ dist' = With({"remedies"})
  /\ cmd' = [cmd EXCEPT !.written = @ + 1] /\ UNCHANGED <<index, report>>

\* Only of a build that was verified.
WriteIndex ==
  /\ DoctorWrites[cmd.written] = "index" /\ UNCHANGED <<dist, report>>
  /\ IF cmd.verified
     THEN /\ index' = DoctorIndex
          /\ cmd' = [cmd EXCEPT !.written = @ + 1, !.found = @ \cup Missing(DoctorIndex)]
     ELSE cmd' = [cmd EXCEPT !.written = @ + 1] /\ UNCHANGED index

Write ==
  /\ cmd.at = "write" /\ cmd.written <= Len(DoctorWrites)
  /\ WriteReport \/ WriteRemedies \/ WriteIndex
  /\ UNCHANGED <<ws, edits, bundle>>

\* The doctor is done; main sets its exit code, a release goes on whatever it found.
DoctorDone ==
  /\ cmd.at = "write" /\ cmd.written > Len(DoctorWrites)
  /\ IF cmd.name = "release" THEN cmd' = [cmd EXCEPT !.at = "bundle"] ELSE Ended
  /\ UNCHANGED <<ws, edits, dist, index, report, bundle>>

\* bundleReleaseEvidence copies of what the index names that which is there.
Bundle ==
  /\ cmd.at = "bundle"
  /\ bundle' = [run |-> cmd.built, elsewhere |-> FALSE, passed |-> Passed(report.found),
                rewritten |-> cmd.rewritten, edited |-> cmd.edited,
                items |-> [n \in index \cap Present |-> dist.files[n]]]
  /\ Ended /\ UNCHANGED <<ws, edits, dist, index, report>>

-----------------------------------------------------------------------------
\* The world: an edit that makes a flaw or mends it, a server that rewrites a signed file of
\* the directory, and a build of another process.
Edit(f) ==
  /\ edits < MaxEdits /\ edits' = edits + 1
  /\ ws' = IF f \in ws THEN ws \ {f} ELSE ws \cup {f}
  /\ cmd' = IF cmd.at = "none" THEN cmd ELSE [cmd EXCEPT !.edited = TRUE]
  /\ UNCHANGED <<dist, index, report, bundle>>

ServerRewrites ==
  /\ dist.fresh /\ dist' = [dist EXCEPT !.fresh = FALSE]
  /\ cmd' = IF cmd.at = "none" THEN cmd ELSE [cmd EXCEPT !.rewritten = TRUE]
  /\ UNCHANGED <<ws, edits, index, report, bundle>>

OtherBuild ==
  /\ cmd.at # "none" /\ NewBuild /\ cmd' = [cmd EXCEPT !.rewritten = TRUE]
  /\ UNCHANGED <<ws, edits, report, bundle>>

Step ==
  \/ \E name \in {"build", "verify", "audit", "release"} : Begin(name, "all")
  \/ \E area \in Areas : Begin("doctor", area)
  \/ Kill \/ BuildFails \/ Build \/ Audit
  \/ VerifyOutput \/ WriteScores \/ VerifyIndex \/ Gates
  \/ LoadExisting \/ LoadElsewhere \/ Gather \/ Write \/ DoctorDone \/ Bundle
  \/ \E f \in Flaws : Edit(f)
  \/ ServerRewrites \/ OtherBuild

Next == Step /\ UNCHANGED elsewhere

Spec == Init /\ [][Next]_vars

-----------------------------------------------------------------------------
\* The index names nothing that is not there, whichever command wrote it last and wherever
\* a command was killed.
EvidenceIsThere == index # None => index \subseteq Present

\* A bundle of the output directory, which no server and no other build rewrote under the
\* release.
Undisturbed == bundle # None /\ ~bundle.elsewhere /\ ~bundle.rewritten

\* A release bundles every artifact that a release requires, all of them of the build it has
\* verified; unless the directory was rewritten under it, or is not the doctor's.
BundleIsWhole ==
  Undisturbed =>
    /\ RequiredForRelease \subseteq DOMAIN bundle.items
    /\ \A n \in DOMAIN bundle.items : bundle.items[n] = bundle.run

\* Nothing is released that the doctor of the release has found an error in, though the
\* release does not ask; unless the workspace or the directory changed under it, or the
\* directory is not the doctor's.
BundleIsHealthy ==
  Undisturbed /\ ~bundle.edited => bundle.passed

\* A full examination that passed speaks for each area: while the workspace stays as it
\* was, and the directory too, no narrower examination finds an error.
FullExaminationSpeaksForAll ==
  report # None /\ report.area = "all" /\ Passed(report.found)
    /\ report.saw # None /\ report.saw = ws /\ report.run = dist.run /\ dist.fresh =>
  \A area \in Areas : /\ Passed({f \in ws : area \in AreasOf(f)})
                      /\ ShouldBuild(area) => "broken" \notin ws

-----------------------------------------------------------------------------
\* What the proofs carry along: what a command has written so far is there and of the
\* build in the directory, and what it has found is what was wrong when it began.
Names == RequiredForRelease \cup {"audit"}
Commands ==
  [name : {"none", "build", "verify", "audit", "release", "doctor"},
   at : {"none", "reports", "build", "audit", "scores", "index", "gates", "load", "gather", "write", "bundle"},
   area : Areas \cup {"all"}, built : Nat, run : Nat, verified : BOOLEAN,
   found : SUBSET (Flaws \cup {"failed", "invalid", "missing"}),
   written : 0 .. 6, rewritten : BOOLEAN, edited : BOOLEAN]

\* It is there, and of the build that the command looks at.
Has(n) == n \in Present /\ dist.files[n] = cmd.run
\* A verification or a release that has built and is not at one of these steps.
Beyond(steps) == cmd.name \in {"verify", "release"} /\ cmd.at \notin {"none", "build"} \cup steps
\* A doctor, or the doctor of a release, that has begun to write.
Writing(n) == cmd.at \in {"write", "bundle"} /\ cmd.written >= n
Releasing(steps) == cmd.name = "release" /\ cmd.at \in steps

CommandInv ==
  /\ ws \subseteq Flaws /\ cmd \in Commands
  /\ cmd.at = "build" => cmd.name \in {"build", "verify", "release", "doctor"}
  /\ cmd.at \in {"audit", "scores", "index", "gates"} => cmd.name \in {"verify", "release"}
  /\ cmd.at \in {"load", "gather", "write", "bundle"} => cmd.name \in {"release", "doctor"}
  /\ cmd.at = "load" /\ cmd.name = "doctor" => ~ShouldBuild(cmd.area)
  /\ cmd.at = "bundle" => cmd.name = "release" /\ cmd.written = 6
  /\ cmd.at = "write" => cmd.written >= 1
  /\ cmd.name = "release" => cmd.area = "all"
\* What is there.
FilesInv ==
  /\ DOMAIN dist = {"run", "fresh", "files"} /\ dist.run \in Nat /\ Present \subseteq Names
  /\ dist.run > 0 => "build" \in Present
  /\ index # None => index \subseteq Present
  /\ cmd.verified => dist.run > 0
  /\ Beyond({}) => dist.run > 0
  /\ Beyond({"audit"}) => "audit" \in Present
  /\ Beyond({"audit", "scores"}) => {"scoreboard", "matrix"} \subseteq Present
  /\ Writing(1) /\ Audits(cmd.area) => "audit" \in Present
  /\ Writing(2) => "report" \in Present
  /\ Writing(3) => "remedies" \in Present

\* And of the build that is verified or released, unless the directory was rewritten.
OwnInv ==
  ~cmd.rewritten =>
    /\ Beyond({}) => dist.fresh /\ cmd.built = dist.run /\ cmd.run = dist.run /\ Has("build")
    /\ Beyond({"audit"}) => Has("audit")
    /\ Beyond({"audit", "scores"}) => Has("scoreboard") /\ Has("matrix")
    /\ Beyond({"audit", "scores", "index"}) => index # None /\ {"scoreboard", "matrix", "audit"} \subseteq index
    /\ Beyond({}) /\ Writing(2) => Has("report")
    /\ Beyond({}) /\ Writing(3) => Has("remedies")
    /\ Beyond({}) /\ Writing(4) /\ cmd.verified => index # None /\ {"build", "report", "remedies"} \subseteq index
FoundInv ==
  /\ Beyond({}) /\ ~cmd.edited => "broken" \notin ws
  /\ cmd.name = "doctor" /\ cmd.at \in {"gather", "write"} /\ cmd.area = "all" /\ "failed" \notin cmd.found
       /\ ~cmd.edited => "broken" \notin ws
  /\ Writing(1) /\ ~cmd.edited => InWorkspace(cmd.area) \subseteq cmd.found
  /\ Releasing({"load", "gather", "write", "bundle"}) /\ ~cmd.edited => "package" \notin ws
  /\ Releasing({"gather", "write", "bundle"}) /\ ~cmd.rewritten =>
       cmd.verified /\ (~cmd.edited => Passed(cmd.found) /\ (Writing(2) => Passed(report.found)))
  /\ report # None /\ report.area = "all" /\ Passed(report.found) /\ report.saw # None =>
       "broken" \notin report.saw /\ \A f \in report.saw : "all" \in AreasOf(f) => f \in report.found
Inv == CommandInv /\ FilesInv /\ OwnInv /\ FoundInv /\ BundleIsWhole /\ BundleIsHealthy
=============================================================================
