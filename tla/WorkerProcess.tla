---------------------------- MODULE WorkerProcess ----------------------------
(***************************************************************************)
(* Inside a render worker: the router that dispatches the messages of the  *)
(* pool, the lifecycle that says whether it accepts work, the mutex around *)
(* a render, the globals a render sets and the health monitor's pongs.     *)
(* Message handlers interleave wherever one of them awaits.                *)
(***************************************************************************)
EXTENDS Naturals, Sequences, FiniteSets

CONSTANTS
  Requests,  \* render messages
  MaxPings

VARIABLES
  state,     \* the lifecycle
  drain,     \* the drain timeout: "off", "armed" or "fired"
  handler,   \* where the handler of each render message is
  mutex,     \* the renders chained on renderMutex, in order
  globals,   \* whose manifest is on globalThis, a sequence of what was saved
  replies,   \* what was posted for each request
  pings      \* pings and shutdown messages: received and answered

vars == <<state, drain, handler, mutex, globals, replies, pings>>

Init ==
  /\ state = "initializing" /\ drain = "off"
  /\ handler = [r \in Requests |-> "unsent"] /\ mutex = <<>> /\ globals = <<>>
  /\ replies = [r \in Requests |-> <<>>] /\ pings = [got |-> 0, back |-> 0]

\* The port is attached once the manifest is normalised; messages wait till then.
Ready ==
  /\ state = "initializing" /\ state' = "ready"
  /\ UNCHANGED <<drain, handler, mutex, globals, replies, pings>>

Post(r, what) == replies' = [replies EXCEPT ![r] = Append(@, what)]
Goto(r, where) == handler' = [handler EXCEPT ![r] = where]

IsAcceptingWork == state = "ready"

\* A render message: refused, or chained on the mutex after beginRender.
ReceiveRender(r) ==
  /\ state # "initializing" /\ handler[r] = "unsent"
  /\ IF IsAcceptingWork
       THEN /\ Goto(r, "waiting") /\ mutex' = Append(mutex, r)
            /\ state' = IF state = "ready" THEN "busy" ELSE state
            /\ UNCHANGED replies
       ELSE /\ Goto(r, "done") /\ Post(r, "unavailable") /\ UNCHANGED <<mutex, state>>
  /\ UNCHANGED <<drain, globals, pings>>

\* executeRender saves the globals, sets its own and imports the components of the route.
StartRender(r) ==
  /\ handler[r] = "waiting" /\ mutex # <<>> /\ Head(mutex) = r
  /\ Goto(r, "resolving") /\ globals' = Append(globals, r)
  /\ UNCHANGED <<state, drain, mutex, replies, pings>>

\* The components have come, and the render begins, under its timeout.  Nothing bounds the
\* import before it.
ResolveComponents(r) ==
  /\ handler[r] = "resolving" /\ Goto(r, "rendering")
  /\ UNCHANGED <<state, drain, mutex, globals, replies, pings>>

\* Mutant: a failed render never lets the next one past the mutex.
StuckAfter(r, what) == IF what = "error" THEN mutex ELSE Tail(mutex)
\* renderMutex goes on after a failed render too.
Released(r, what) == Tail(mutex)

\* Mutant: the end of a render always makes the worker ready.
AlwaysReady == "ready"
\* endRender: only a busy worker becomes ready again.
AfterRender == IF state = "busy" THEN "ready" ELSE state

\* Mutant: a render that fails leaves its globals behind.
RestoredOnSuccess(what) == IF what = "error" THEN globals ELSE SubSeq(globals, 1, Len(globals) - 1)
Restored(what) == SubSeq(globals, 1, Len(globals) - 1)

\* The render ends: the globals are restored, and the result is posted from
\* inside the mutex or the error by the router; endRender runs in between.
\* An import that fails ends it, too.
EndRender(r, what) ==
  /\ handler[r] = "rendering" \/ (handler[r] = "resolving" /\ what = "error")
  /\ globals' = Restored(what)
  /\ Post(r, what) /\ Goto(r, "done")
  /\ mutex' = Released(r, what) /\ state' = AfterRender
  /\ UNCHANGED <<drain, pings>>

ReceivePing ==
  /\ state # "initializing" /\ pings.got < MaxPings
  /\ pings' = [got |-> pings.got + 1, back |-> pings.back + 1]
  /\ UNCHANGED <<state, drain, handler, mutex, globals, replies>>

\* shutdown: no more work, and a timeout that makes the worker dead.
ReceiveShutdown ==
  /\ state # "initializing"
  /\ IF state \in {"shutting_down", "dead"} THEN UNCHANGED <<state, drain>>
     ELSE state' = "shutting_down" /\ drain' = "armed"
  /\ UNCHANGED <<handler, mutex, globals, replies, pings>>

DrainTimeout ==
  /\ drain = "armed" /\ drain' = "fired" /\ state' = "dead"
  /\ UNCHANGED <<handler, mutex, globals, replies, pings>>

Next ==
  \/ Ready \/ ReceivePing \/ ReceiveShutdown \/ DrainTimeout
  \/ \E r \in Requests :
       \/ ReceiveRender(r) \/ StartRender(r) \/ ResolveComponents(r)
       \/ EndRender(r, "result") \/ EndRender(r, "error")

\* The event loop runs a handler that is not waiting for another; a render ends
\* because its stream does or its timeout aborts it.  The import of the components may hang.
Ends(r) == handler[r] = "rendering" /\ (EndRender(r, "result") \/ EndRender(r, "error"))
Fairness == \A r \in Requests : WF_vars(StartRender(r)) /\ WF_vars(Ends(r))
Spec == Init /\ [][Next]_vars
FairSpec == Spec /\ Fairness

-----------------------------------------------------------------------------
(* The worker says it is free only if it is: while a render runs or waits  *)
(* for the mutex, the lifecycle is never "ready", and a worker that began  *)
(* to shut down never becomes ready again, whatever the renders in flight  *)
(* do when they end.                                                       *)
FreeMeansFree ==
  /\ state = "ready" => \A r \in Requests : handler[r] \notin {"waiting", "resolving", "rendering"}
  /\ drain # "off" => state \in {"shutting_down", "dead"}

\* A render is between setting the globals and restoring them.
Inside(r) == handler[r] \in {"resolving", "rendering"}

(* A render sees its own manifest on globalThis and leaves none behind: at *)
(* most one render is between setting the globals and restoring them.      *)
OneRenderAtATime ==
  /\ Len(globals) <= 1
  /\ (\A r \in Requests : ~Inside(r)) => globals = <<>>

(* Every render message that was taken comes to its turn, and is answered  *)
(* once its components are there, with its result or its error, in every   *)
(* order of renders, failures and shutdowns.                               *)
Waiting(r) == handler[r] = "waiting"
Rendering(r) == handler[r] = "rendering"
Answered(r) == Len(replies[r]) = 1
EveryRenderIsAnswered ==
  \A r \in Requests : (Waiting(r) ~> ~Waiting(r)) /\ (Rendering(r) ~> Answered(r))
-----------------------------------------------------------------------------
TypeOK ==
  /\ state \in {"initializing", "ready", "busy", "shutting_down", "dead"}
  /\ drain \in {"off", "armed", "fired"}
  /\ handler \in [Requests -> {"unsent", "waiting", "resolving", "rendering", "done"}]
  /\ mutex \in Seq(Requests) /\ globals \in Seq(Requests)
  /\ replies \in [Requests -> Seq({"unavailable", "result", "error"})]
  /\ pings \in [got : Nat, back : Nat]

(* Why both hold: a render is taken only by a ready worker, which is busy  *)
(* from then on, so one render at most is behind the mutex, and only the   *)
(* end of that render makes the worker ready again.                        *)
Taken(r) == Waiting(r) \/ Inside(r)
OneBehindTheMutex ==
  /\ \A r, s \in Requests : Taken(r) /\ Taken(s) => r = s
  /\ \A r \in Requests : Taken(r) => mutex = <<r>> /\ state \notin {"initializing", "ready"}
  /\ \A r \in Requests : Inside(r) => globals = <<r>>
  /\ (\A r \in Requests : ~Inside(r)) => globals = <<>>
  /\ (\A r \in Requests : ~Taken(r)) => mutex = <<>>
  /\ drain # "off" => state \in {"shutting_down", "dead"}
Inv == TypeOK /\ OneBehindTheMutex
=============================================================================
