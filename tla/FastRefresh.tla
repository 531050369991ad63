----------------------------- MODULE FastRefresh -----------------------------
(***************************************************************************)
(* Fast refresh: from a changed file up the import edges to the component  *)
(* boundary to render again (detectMinimalBoundary), and the refresh of it *)
(* (applyBoundaryRefresh), which carries the state of the instances over.  *)
(*                                                                         *)
(* graph says of each file what it is and which files import it, in the    *)
(* order of the import set; walk is the queue of the search, the files it  *)
(* has seen and the importers left of the last of them; fiber is the state *)
(* of the boundary's instances in the registry, before what it was when    *)
(* the refresh began.                                                      *)
(***************************************************************************)
EXTENDS Naturals, Sequences, FiniteSets

CONSTANTS
  Graphs,     \* module graphs: [kind, importedBy]; a kind of "absent" is not in the map
  Changed,    \* the file that changed
  Instances,  \* instances of the boundary
  States,     \* what an instance's state may be
  None

VARIABLES graph, at, walk, boundary, mounted, saved, fiber, before, touched

vars == <<graph, at, walk, boundary, mounted, saved, fiber, before, touched>>

Reload == [id |-> None, full |-> TRUE]
Refresh(f) == [id |-> f, full |-> FALSE]

Init ==
  /\ graph \in Graphs
  /\ at = "walking" /\ boundary = Reload /\ mounted \in BOOLEAN
  /\ walk = [queue |-> <<Changed>>, seen |-> {}, rest |-> <<>>]
  /\ saved = None
  /\ fiber \in [Instances -> States] /\ before = fiber /\ touched = {}

-----------------------------------------------------------------------------
(* The breadth-first walk, one file or one of its importers at a time;     *)
(* nothing else runs meanwhile.                                            *)
Between == at = "walking" /\ walk.rest = <<>>
File == Head(walk.queue)
New == walk.queue # <<>> /\ File \notin walk.seen /\ graph.kind[File] # "absent"
Visited(rest) == walk' = [queue |-> Tail(walk.queue), seen |-> walk.seen \cup {File}, rest |-> rest]
OnlyWalks == UNCHANGED <<graph, at, boundary, mounted, saved, fiber, before, touched>>

\* A file that was visited, or that is not in the graph.
Pass == Between /\ walk.queue # <<>> /\ ~New /\ Visited(<<>>) /\ OnlyWalks

\* Any other file is left for those that import it.
Climb == /\ Between /\ New /\ graph.kind[File] = "plain"
         /\ Visited(graph.importedBy[File]) /\ OnlyWalks

\* Mutant: the walk goes deep first.
DeepFirst(queue, f) == <<f>> \o queue
Enqueued(queue, f) == Append(queue, f)

Importer ==
  /\ at = "walking" /\ walk.rest # <<>>
  /\ walk' = [walk EXCEPT !.rest = Tail(@),
                          !.queue = IF Head(walk.rest) \in walk.seen THEN @
                                    ELSE Enqueued(@, Head(walk.rest))]
  /\ OnlyWalks

\* The first boundary or root layout of the queue decides; without one everything is loaded again.
detectMinimalBoundary ==
  IF walk.queue # <<>> /\ graph.kind[File] = "boundary" THEN Refresh(File) ELSE Reload

\* The boundary is found and its state set aside, in one go; then the render is awaited.
Begin ==
  /\ Between /\ (walk.queue = <<>> \/ (New /\ graph.kind[File] \in {"boundary", "root"}))
  /\ boundary' = detectMinimalBoundary
  /\ IF boundary'.full THEN at' = "reloaded" /\ UNCHANGED saved
     ELSE /\ at' = "rendering"
          /\ saved' = IF mounted THEN <<fiber>> ELSE None
  /\ UNCHANGED <<graph, walk, mounted, fiber, before, touched>>

-----------------------------------------------------------------------------
\* The component goes on living while the refresh awaits.
Touch(i, s) ==
  /\ at \in {"rendering", "applied"}
  /\ fiber' = [fiber EXCEPT ![i] = s] /\ touched' = touched \cup {i}
  /\ UNCHANGED <<graph, at, walk, boundary, mounted, saved, before>>

\* The render or the apply fails: logged, and the page is loaded again.
Fails == /\ at \in {"rendering", "applied"} /\ at' = "reloaded"
         /\ UNCHANGED <<graph, walk, boundary, mounted, saved, fiber, before, touched>>

\* The stream is applied; React may keep the instances or mount them anew.
Apply(kept) ==
  /\ at = "rendering" /\ at' = "applied"
  /\ fiber' = [i \in Instances |-> IF i \in kept THEN fiber[i] ELSE CHOOSE s \in States : TRUE]
  /\ UNCHANGED <<graph, walk, boundary, mounted, saved, before, touched>>

\* Mutant: what React has after the apply is taken for the state to keep.
AsRendered(i) == fiber[i]
Preserved(i) == saved[1][i]

restoreRefreshBoundaryState ==
  /\ at = "applied" /\ at' = "done"
  /\ fiber' = IF saved = None THEN fiber ELSE [i \in Instances |-> Preserved(i)]
  /\ UNCHANGED <<graph, walk, boundary, mounted, saved, before, touched>>

Next == \/ \E i \in Instances, s \in States : Touch(i, s)
        \/ Pass \/ Climb \/ Importer \/ Begin
        \/ Fails \/ restoreRefreshBoundaryState
        \/ \E kept \in SUBSET Instances : Apply(kept)

Spec == Init /\ [][Next]_vars

-----------------------------------------------------------------------------
Files == DOMAIN graph.kind
Importers(f) == {graph.importedBy[f][i] : i \in DOMAIN graph.importedBy[f]}
\* The files n imports away from the changed one, through plain files alone.
Level[n \in Nat] ==
  IF n = 0 THEN {Changed}
  ELSE UNION {Importers(f) : f \in {g \in Level[n - 1] : graph.kind[g] = "plain"}}
Stops(n) == {f \in Level[n] : graph.kind[f] \in {"boundary", "root"}}

\* The boundary that is refreshed is no farther from the changed file than any other
\* boundary or the root layout, and the page is loaded whole only when the root layout is
\* that near or nothing encloses the file.
NearestBoundary ==
  at # "walking" =>
    LET levels == 0..Cardinality(Files)
        near == {n \in levels : Stops(n) # {} /\ \A m \in levels : m < n => Stops(m) = {}}
    IN  IF near = {} THEN boundary.full
        ELSE \A n \in near :
               IF boundary.full THEN \E f \in Stops(n) : graph.kind[f] = "root"
               ELSE boundary.id \in Stops(n) /\ graph.kind[boundary.id] = "boundary"

\* An instance of a registered boundary that nobody used during the refresh has the state
\* it had, whether or not React mounted it anew.  (One that was used loses that use.)
UntouchedStateSurvives ==
  at = "done" /\ mounted => \A i \in Instances \ touched : fiber[i] = before[i]

\* What the proofs carry along: the queue holds the files of one distance and then of the
\* next, every file seen is plain and has its importers among those to come, and what was
\* set aside is what the instances held.
Members(s) == {s[i] : i \in DOMAIN s}
Coming == walk.seen \cup Members(walk.queue) \cup Members(walk.rest)
Ordered(d, k) ==
  LET next == {walk.queue[i] : i \in k + 1 .. Len(walk.queue)} \cup Members(walk.rest)
  IN  /\ \A i \in 1..k : walk.queue[i] \in Level[d]
      /\ next \subseteq Level[d + 1] /\ (next # {} => d < Cardinality(walk.seen))
      /\ \A m \in 0..d : m < d => Level[m] \subseteq walk.seen
      /\ Level[d] \subseteq walk.seen \cup {walk.queue[i] : i \in 1..k}
WalkInv ==
  /\ walk \in [queue : Seq(Files), seen : SUBSET Files, rest : Seq(Files)]
  /\ \A f \in walk.seen : graph.kind[f] \in {"plain", "absent"}
  /\ Changed \in Coming
  /\ \A f \in walk.seen : graph.kind[f] = "plain" => Importers(f) \subseteq Coming
  /\ \E d \in 0..Cardinality(walk.seen), k \in 0..Len(walk.queue) : Ordered(d, k)
Inv ==
  /\ graph \in Graphs /\ fiber \in [Instances -> States] /\ before \in [Instances -> States]
  /\ mounted \in BOOLEAN /\ (~mounted => saved = None)
  /\ at \in {"walking", "rendering", "applied", "done", "reloaded"}
  /\ at = "walking" => WalkInv /\ fiber = before /\ touched = {}
  /\ at \in {"rendering", "applied"} /\ mounted =>
       \E f \in [Instances -> States] : saved = <<f>> /\ \A i \in Instances \ touched : f[i] = before[i]
  /\ NearestBoundary /\ UntouchedStateSurvives
=============================================================================
