------------------------------ MODULE PolicyMesh ------------------------------
(***************************************************************************)
(* The policy mesh: the heuristic decision for a route and a request, the  *)
(* hints the rule-based tuner draws from a route's metrics, the safety     *)
(* envelope over both, and the replay of an exported snapshot, which goes  *)
(* through a temporary file named after the process and the millisecond.   *)
(***************************************************************************)
EXTENDS Naturals, Sequences

CONSTANTS
  Replays,     \* calls of replay
  Metrics,     \* what is observed of the route: [slow, fast, hits, errors, queued]
  Objectives,
  MaxTime,     \* milliseconds
  MaxMade,     \* snapshots exported
  None

VARIABLES hints, mesh, made, now, file, replay, agreed

vars == <<hints, mesh, made, now, file, replay, agreed>>

RouteClasses == {"latency-critical", "mutation-heavy", "auth-sensitive", "edge-friendly",
                 "semi-static", "static"}
Requests == [degraded : BOOLEAN, bot : BOOLEAN, auth : BOOLEAN, hint : {None, "node", "edge"}]

Made(strategy, runtime, priority, ttl, profile, ladder) ==
  [strategy |-> strategy, runtime |-> runtime, priority |-> priority, ttl |-> ttl,
   profile |-> profile, ladder |-> ladder]

createHeuristicDecision(class, req) ==
  CASE req.degraded -> Made("cache", "node", "high", 120, "strict",
                            <<"cache-serve", "shell-only", "typed-error">>)
    [] ~req.degraded /\ (req.auth \/ class = "auth-sensitive") ->
         Made("stream", "node", "critical", None, "resilience-biased",
              <<"full-stream", "incremental-stream", "shell-only", "typed-error">>)
    [] ~req.degraded /\ ~req.auth /\ class = "latency-critical" ->
         Made("hybrid", IF req.hint = None THEN "node" ELSE req.hint, "critical", 30,
              "latency-biased", <<"full-stream", "hybrid-cache", "cache-serve", "shell-only">>)
    [] ~req.degraded /\ ~req.auth /\ class \notin {"auth-sensitive", "latency-critical"} ->
         IF class = "edge-friendly" \/ req.bot
         THEN Made("cache", "edge", "normal", 300, "balanced",
                   <<"cache-serve", "shell-only", "typed-error">>)
         ELSE Made("hybrid", "node", "normal", 60, "balanced",
                   <<"full-stream", "hybrid-cache", "cache-serve", "shell-only", "typed-error">>)

\* Mutant: the rule for errors comes before the rule for a well cached route.
ErrorsFirst(m) == IF m.hits /\ m.fast THEN "edge" ELSE IF m.errors THEN "node" ELSE None
\* The error rule runs after the cache rule and overrules it.
RuntimeHint(m) == IF m.errors THEN "node" ELSE IF m.hits /\ m.fast THEN "edge" ELSE None

\* The hints of one observation; those of the one before are dropped.
HintsOf(m) ==
  [ttl |-> IF m.hits /\ m.fast THEN 600 ELSE IF m.slow THEN 300 ELSE None,
   strategy |-> IF m.slow THEN "cache" ELSE None,
   runtime |-> RuntimeHint(m),
   degradeTo |-> IF m.errors THEN "hybrid-cache" ELSE None,
   priority |-> IF m.queued THEN "high" ELSE None]

Or(hint, base) == IF hint = None THEN base ELSE hint

applyHints(d, h) ==
  [d EXCEPT !.strategy = Or(h.strategy, @), !.runtime = Or(h.runtime, @),
            !.priority = Or(h.priority, @), !.ttl = Or(h.ttl, @)]

Has(ladder, stage) == \E i \in DOMAIN ladder : ladder[i] = stage

tighten(d, h) ==
  IF h.degradeTo = None THEN d
  ELSE [d EXCEPT !.ladder = IF Has(@, h.degradeTo) THEN @ ELSE Append(@, h.degradeTo),
                 !.profile = "strict"]

\* decide: without hints the heuristic decision stands.
Decision(class, req) ==
  LET base == createHeuristicDecision(class, req)
  IN  IF hints = None THEN base ELSE tighten(applyHints(base, hints), hints)

-----------------------------------------------------------------------------
Fresh == [objective |-> CHOOSE o \in Objectives : TRUE, frozen |-> {}]

Init ==
  /\ hints = None /\ mesh = Fresh /\ made = <<>> /\ now = 0
  /\ file = [t \in 0..MaxTime |-> None]
  /\ replay = [r \in Replays |-> [at |-> "idle", of |-> None, path |-> 0, alone |-> FALSE]]
  /\ agreed = None

Tick == /\ now < MaxTime /\ now' = now + 1
        /\ UNCHANGED <<hints, mesh, made, file, replay, agreed>>

\* Replays on their way are no longer alone with what they restore.
Disturbed == [q \in Replays |-> [replay[q] EXCEPT !.alone = FALSE]]

observe(m) == /\ hints' = HintsOf(m) /\ agreed' = None /\ replay' = Disturbed
              /\ UNCHANGED <<mesh, made, now, file>>

\* setObjective, freeze and rollback of the one loop that is followed here.
Steer == /\ \/ \E o \in Objectives : mesh' = [mesh EXCEPT !.objective = o]
            \/ \E f \in SUBSET {"RenderLoop"} : mesh' = [mesh EXCEPT !.frozen = f]
         /\ agreed' = None /\ replay' = Disturbed
         /\ UNCHANGED <<hints, made, now, file>>

exportSnapshot == /\ Len(made) < MaxMade
                  /\ made' = Append(made, [mesh |-> mesh, hints |-> hints])
                  /\ UNCHANGED <<hints, mesh, now, file, replay, agreed>>

Put(r, at) == replay' = [replay EXCEPT ![r].at = at]

\* The objective, the windows and the loops are replaced at once, and the file's name is
\* taken from the clock.
BeginReplay(r, s) ==
  /\ replay[r].at = "idle"
  /\ mesh' = s.mesh
  /\ replay' = [Disturbed EXCEPT ![r] = [at |-> "writing", of |-> s, path |-> now,
        alone |-> \A q \in Replays : replay[q].at \in {"idle", "done"}]]
  /\ agreed' = None
  /\ UNCHANGED <<hints, made, now, file>>

WriteTuner(r) == /\ replay[r].at = "writing" /\ Put(r, "loading")
                 /\ file' = [file EXCEPT ![replay[r].path] = <<replay[r].of.hints>>]
                 /\ UNCHANGED <<hints, mesh, made, now, agreed>>

\* Mutant: hints the snapshot does not have are kept.
Merged(h) == IF h = None THEN hints ELSE h
\* The tuner is cleared before the snapshot's hints are set.
Loaded(h) == h

\* A file that is gone is a cold start: the tuner keeps what it has, and nobody is told.
LoadTuner(r) ==
  /\ replay[r].at = "loading" /\ Put(r, "removing")
  /\ hints' = IF file[replay[r].path] = None THEN hints ELSE Loaded(file[replay[r].path][1])
  /\ agreed' = IF replay[r].alone THEN replay[r].of ELSE None
  /\ UNCHANGED <<mesh, made, now, file>>

RemoveTuner(r) == /\ replay[r].at = "removing" /\ Put(r, "done")
                  /\ file' = [file EXCEPT ![replay[r].path] = None]
                  /\ UNCHANGED <<hints, mesh, made, now, agreed>>

Next == \/ Tick \/ Steer \/ exportSnapshot
        \/ \E m \in Metrics : observe(m)
        \/ \E r \in Replays : \/ \E i \in DOMAIN made : BeginReplay(r, made[i])
                              \/ WriteTuner(r) \/ LoadTuner(r) \/ RemoveTuner(r)

Spec == Init /\ [][Next]_vars

-----------------------------------------------------------------------------
\* A route whose error rate is over the limit is decided strictly, on the node runtime,
\* with the degraded stage among its fallbacks, whatever else is known of the route or of
\* the request.
FailingRoutesAreContained ==
  hints # None /\ hints.degradeTo # None =>
    \A class \in RouteClasses, req \in Requests :
      LET d == Decision(class, req) IN
        d.profile = "strict" /\ d.runtime = "node" /\ Has(d.ladder, hints.degradeTo)

\* A replay with no other one beside it, and no change since it began, leaves the mesh
\* and the tuner as they were when the snapshot was made.
LoneReplayRestores ==
  agreed # None => mesh = agreed.mesh /\ hints = agreed.hints

\* What the proofs carry along: hints are of metrics, and a replay that is alone has the
\* file and the mesh as it made them.
AllHints == {None} \cup {HintsOf(m) : m \in Metrics}
Meshes == [objective : Objectives, frozen : SUBSET {"RenderLoop"}]
Snapshots == [mesh : Meshes, hints : AllHints]
Moving(r) == replay[r].at \notin {"idle", "done"}
Inv ==
  /\ hints \in AllHints /\ mesh \in Meshes /\ made \in Seq(Snapshots) /\ now \in 0..MaxTime
  /\ file \in [0..MaxTime -> {None} \cup {<<h>> : h \in AllHints}]
  /\ replay = [r \in Replays |-> [at |-> replay[r].at, of |-> replay[r].of, path |-> replay[r].path,
                                  alone |-> replay[r].alone]]
  /\ \A r \in Replays : Moving(r) => replay[r].path \in 0..MaxTime /\ replay[r].of \in Snapshots
  /\ \A r \in Replays : Moving(r) /\ replay[r].alone =>
       /\ \A q \in Replays \ {r} : ~Moving(q)
       /\ replay[r].at \in {"writing", "loading"} => mesh = replay[r].of.mesh
       /\ replay[r].at = "loading" => file[replay[r].path] = <<replay[r].of.hints>>
  /\ LoneReplayRestores
=============================================================================
