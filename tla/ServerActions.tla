----------------------------- MODULE ServerActions -----------------------------
(* Server actions as the production server runs them: handleServerActionRequest *)
(* of sourceog-server/src/server.ts, the tracking of revalidations by a stack   *)
(* of trackers in sourceog-runtime/src/revalidate.ts, and the invalidation of   *)
(* the targets the manifest links to an action.  Targets stand for tags,        *)
(* pathnames, route ids and cache keys alike.                                   *)
EXTENDS Naturals, Sequences, FiniteSets
CONSTANTS Actions,    \* invocations of server actions
          Targets,
          Linked,     \* action -> targets linked to it by the cache manifest
          Tracks,     \* actions with policy "track-runtime-revalidation"
          Closure     \* target -> what resolveCacheInvalidation makes of it

VARIABLES pc,        \* invocation -> where it is
          stack,     \* revalidationTrackingStack: the owners of the trackers
          tracked,   \* invocation -> contents of its tracker
          busy,      \* invocation -> cache -> targets the revalidation it awaits reaches
          summary,   \* invocation -> what it reports
          did,       \* invocation -> what it asked to revalidate
          owed,      \* invocation -> cache -> targets it wrote and nothing has reached since
          alone      \* invocations that overlapped no other
vars == <<pc, stack, tracked, busy, summary, did, owed, alone>>

\* The prerendered pages, the maps of the runtime and the persistent data cache.
Caches == {"pages", "maps", "store"}
Nothing == [c \in Caches |-> {}]
Resolve(ts) == UNION {Closure[t] : t \in ts}
LinkedTo(a) == IF a \in Tracks THEN Resolve(Linked[a]) ELSE {}
Bodies == {a \in Actions : pc[a] = "body"}
Running == {a \in Actions : pc[a] \notin {"new", "done", "refused"}}

Init == /\ pc = [a \in Actions |-> "new"] /\ stack = <<>>
        /\ tracked = [a \in Actions |-> {}] /\ busy = [a \in Actions |-> Nothing]
        /\ summary = [a \in Actions |-> {}] /\ did = [a \in Actions |-> {}]
        /\ owed = [a \in Actions |-> Nothing] /\ alone = Actions

\* Wrong method (405), foreign origin (403), wrong content type (400) or
\* unknown action (404).
Refuse(a) == /\ pc[a] = "new" /\ pc' = [pc EXCEPT ![a] = "refused"]
             /\ UNCHANGED <<stack, tracked, busy, summary, did, owed, alone>>

\* withRevalidationTracking pushes a tracker and calls the action.
Invoke(a) ==
  /\ pc[a] = "new"
  /\ pc' = [pc EXCEPT ![a] = "body"]
  /\ stack' = Append(stack, a)
  /\ alone' = IF Running = {} THEN alone ELSE alone \ (Running \cup {a})
  /\ UNCHANGED <<tracked, busy, summary, did, owed>>

\* The body writes the data its linked targets are made of.  What it has
\* revalidated before is not owed: the reply will not invalidate it again.
Write(a) ==
  /\ pc[a] = "body" /\ busy[a] = Nothing
  /\ owed' = [owed EXCEPT ![a] = [c \in Caches |-> @[c] \cup (LinkedTo(a) \ did[a])]]
  /\ UNCHANGED <<pc, stack, tracked, busy, summary, did, alone>>

\* An invalidation reaches targets in caches: no action owes these any more.
Invalidated(reached) ==
  owed' = [a \in Actions |-> [c \in Caches |-> owed[a][c] \ reached[c]]]

\* revalidateTag, revalidatePath: resolve and await the invalidation of every cache, which
\* has the store of the request's context.
Revalidate(a, t) ==
  /\ pc[a] = "body" /\ busy[a] = Nothing
  /\ busy' = [busy EXCEPT ![a] = [c \in Caches |-> Resolve({t})]]
  /\ did' = [did EXCEPT ![a] = @ \cup Resolve({t})]
  /\ UNCHANGED <<pc, stack, tracked, summary, owed, alone>>

\* invalidateResource: the server's handler drops the prerendered pages of the one target
\* and returns before anything is resolved, dropped elsewhere or tracked.
InvalidateResource(a, t) ==
  /\ pc[a] = "body" /\ busy[a] = Nothing
  /\ busy' = [busy EXCEPT ![a] = [Nothing EXCEPT !["pages"] = {t}]]
  /\ UNCHANGED <<pc, stack, tracked, summary, did, owed, alone>>

\* The await ends; targets that were resolved are added to the tracker on top.
Resolved(a) == busy[a]["store"]
Revalidated(a) ==
  /\ busy[a] # Nothing
  /\ Invalidated(busy[a])
  /\ tracked' = IF stack = <<>> THEN tracked
                ELSE [tracked EXCEPT ![stack[Len(stack)]] = @ \cup Resolved(a)]
  /\ busy' = [busy EXCEPT ![a] = Nothing]
  /\ UNCHANGED <<pc, stack, summary, did, alone>>

\* What the manifest links to the action and its tracker does not name, and
\* what the reply reports.
PendingUnlessTracked(a) == IF tracked[a] # {} THEN {} ELSE LinkedTo(a)
Pending(a) == LinkedTo(a) \ tracked[a]
TrackedOnly(a) == tracked[a]
Report(a) == tracked[a] \cup LinkedTo(a)

\* The body returns: its own tracker is summarised and the last one popped.
Pop == stack' = SubSeq(stack, 1, Len(stack) - 1)
BodyReturns(a) ==
  /\ pc[a] = "body" /\ busy[a] = Nothing
  /\ pc' = [pc EXCEPT ![a] = IF Pending(a) # {} THEN "linked" ELSE "reply"]
  /\ summary' = [summary EXCEPT ![a] = Report(a)]
  /\ Pop
  /\ UNCHANGED <<tracked, busy, did, owed, alone>>

\* It throws, also out of a revalidation: the reply is a 500 without a summary.
BodyThrowsUnpopped(a) ==
  /\ pc[a] = "body"
  /\ pc' = [pc EXCEPT ![a] = "refused"]
  /\ busy' = [busy EXCEPT ![a] = Nothing]
  /\ UNCHANGED <<stack, tracked, summary, did, owed, alone>>
BodyThrows(a) ==
  /\ pc[a] = "body"
  /\ pc' = [pc EXCEPT ![a] = "refused"]
  /\ busy' = [busy EXCEPT ![a] = Nothing]
  /\ Pop
  /\ UNCHANGED <<tracked, summary, did, owed, alone>>

\* The linked targets the tracker did not name are invalidated now, after the action's
\* request context has ended: the persistent store is not there to be reached.
ApplyLinked(a) ==
  /\ pc[a] = "linked"
  /\ Invalidated([c \in Caches |-> IF c = "store" THEN {} ELSE Pending(a)])
  /\ pc' = [pc EXCEPT ![a] = "reply"]
  /\ UNCHANGED <<stack, tracked, busy, summary, did, alone>>

\* Its error is replied as that of the body.
LinkedThrows(a) ==
  /\ pc[a] = "linked" /\ pc' = [pc EXCEPT ![a] = "refused"]
  /\ UNCHANGED <<stack, tracked, busy, summary, did, owed, alone>>

Reply(a) == /\ pc[a] = "reply" /\ pc' = [pc EXCEPT ![a] = "done"]
            /\ UNCHANGED <<stack, tracked, busy, summary, did, owed, alone>>

Step(a) == \/ Refuse(a) \/ Invoke(a) \/ Write(a) \/ (\E t \in Targets : Revalidate(a, t) \/ InvalidateResource(a, t))
           \/ Revalidated(a) \/ BodyReturns(a) \/ BodyThrows(a)
           \/ ApplyLinked(a) \/ LinkedThrows(a) \/ Reply(a)
Next == \E a \in Actions : Step(a)
Spec == Init /\ [][Next]_vars

------------------------------------------------------------------------------
\* There is one tracker for each body that runs, also when bodies overlap and
\* the wrong tracker is popped.
OneTrackerPerBody == Len(stack) = Cardinality(Bodies)

\* An action that overlapped no other reports exactly what it revalidated by path or tag
\* and what the manifest links to it: no more, which would refresh pages for nothing, and
\* no less.  (A resource it invalidated is never reported.)
AloneReportsItsOwn ==
  \A a \in alone : pc[a] \in {"reply", "done"} => summary[a] = did[a] \cup LinkedTo(a)

\* When the reply of an action that overlapped no other is sent, every target that it
\* wrote and the manifest links to it has been invalidated since, in the pages and the
\* maps; in the persistent store only those that the body revalidated itself.
AloneLeavesNothingStale ==
  \A a \in alone : pc[a] = "done" =>
    /\ owed[a]["pages"] = {} /\ owed[a]["maps"] = {}
    /\ owed[a]["store"] \subseteq LinkedTo(a) \ did[a]
------------------------------------------------------------------------------
TypeOK ==
  /\ pc \in [Actions -> {"new", "body", "linked", "reply", "done", "refused"}]
  /\ stack \in Seq(Actions) /\ alone \subseteq Actions
  /\ tracked \in [Actions -> SUBSET Targets] /\ busy \in [Actions -> [Caches -> SUBSET Targets]]
  /\ summary \in [Actions -> SUBSET Targets] /\ did \in [Actions -> SUBSET Targets]
  /\ owed \in [Actions -> [Caches -> SUBSET Targets]]

\* Why an action that overlapped no other is reported right: while its body runs the one
\* tracker is its own, and has what the body revalidated, but for what it still awaits.
TrackerIsItsOwn ==
  /\ \A i \in DOMAIN stack : pc[stack[i]] # "new"
  /\ \A a \in Actions :
       /\ pc[a] # "body" => busy[a] = Nothing
       /\ pc[a] = "new" => tracked[a] = {} /\ did[a] = {}
  /\ \A a \in alone :
       /\ a \in Running => Running = {a}
       /\ pc[a] = "body" => stack = <<a>>
       /\ pc[a] # "body" => \A i \in DOMAIN stack : stack[i] # a
       /\ pc[a] # "refused" => did[a] = tracked[a] \cup Resolved(a)
       /\ pc[a] \in {"linked", "reply", "done"} => summary[a] = did[a] \cup LinkedTo(a)

\* Why it leaves nothing stale: what it owes is linked to it and not in its tracker, and a
\* revalidation that is tracked reaches every cache.
OwedIsLinked ==
  /\ \A a \in Actions, c \in Caches :
       Resolved(a) \subseteq busy[a][c] /\ (pc[a] = "new" => owed[a][c] = {})
  /\ \A a \in alone, c \in Caches :
       /\ owed[a][c] \subseteq LinkedTo(a) \ tracked[a]
       /\ pc[a] \in {"reply", "done"} /\ c # "store" => owed[a][c] = {}
Inv == TypeOK /\ OneTrackerPerBody /\ TrackerIsItsOwn /\ OwedIsLinked
================================================================================
