------------------------------ MODULE Transpiler ------------------------------
(***************************************************************************)
(* How the workers get JavaScript: the pool detects a strategy once, and   *)
(* whatever that is, a worker bundles each module into a file that its     *)
(* import then reads.  Workers are threads: their writes interleave.       *)
(***************************************************************************)
EXTENDS Naturals, FiniteSets

CONSTANTS Callers, Workers, None

VARIABLES
  env,       \* what the process runs on and finds installed
  result,    \* detectionResult
  detecting, \* the detections under way
  caller,    \* each call of initialize: idle, waiting, ready or failed
  file,      \* the bundle's file, which the workers share: what is in it
  worker     \* where each worker is in loading the module

vars == <<env, result, detecting, caller, file, worker>>

Facts == {"bun", "deno", "tsx", "production", "node22", "esbuild", "sucrase"}

Init ==
  /\ env \in SUBSET Facts
  /\ result = None /\ detecting = {} /\ caller = [c \in Callers |-> "idle"]
  /\ file = "absent" /\ worker = [w \in Workers |-> "idle"]

\* Mutant: a process in production falls back to the inline transformers too.
AnyFallback == env \ {"production"}
Considered == env

\* detect: the runtime's own support, tsx, and outside production the inline
\* transformers; without any of them only a recent Node.js goes on.
Detected ==
  LET e == Considered IN
  CASE "bun" \in e -> "bun-native"
    [] "bun" \notin e /\ "deno" \in e -> "deno-native"
    [] {"bun", "deno"} \cap e = {} /\ "tsx" \in e -> "tsx"
    [] {"bun", "deno", "tsx"} \cap e = {} /\ "production" \in e -> None
    [] {"bun", "deno", "tsx", "production"} \cap e = {} ->
         IF "esbuild" \in e THEN "esbuild" ELSE IF "sucrase" \in e THEN "sucrase"
         ELSE IF "node22" \in e THEN "node-transform-types" ELSE None

\* Mutant: a call does not see the detection under way.
NeverShared == TRUE
StartsDetection == detecting = {}

\* initialize: the result, the detection under way, or a new one.
Initialize(c) ==
  /\ caller[c] \in {"idle", "failed"}
  /\ IF result # None THEN caller' = [caller EXCEPT ![c] = "ready"] /\ UNCHANGED detecting
     ELSE /\ caller' = [caller EXCEPT ![c] = "waiting"]
          /\ detecting' = IF StartsDetection THEN detecting \cup {c} ELSE detecting
  /\ UNCHANGED <<env, result, file, worker>>

\* The detection settles for everyone who waits for it, and is forgotten.
Detect(c) ==
  /\ c \in detecting /\ detecting' = detecting \ {c} /\ result' = Detected
  /\ caller' = [d \in Callers |-> IF caller[d] # "waiting" THEN caller[d]
                                  ELSE IF Detected = None THEN "failed" ELSE "ready"]
  /\ UNCHANGED <<env, file, worker>>

\* A package is installed or removed while the process runs.
Install(f) ==
  /\ f \in {"tsx", "esbuild", "sucrase"} \ env /\ env' = env \cup {f}
  /\ UNCHANGED <<result, detecting, caller, file, worker>>

Goto(w, where) == worker' = [worker EXCEPT ![w] = where]
Other(w) == UNCHANGED <<env, result, detecting, caller>>

\* bundleAndLoadModule, which every worker calls: the bundle, or the transform of
\* the file alone; when no transformer is there, or the one that is rejects the
\* file, the load fails before anything is written.
Bundlers == {"esbuild", "sucrase"} \cap env
Bundle(w) ==
  /\ worker[w] = "idle" /\ (\E c \in Callers : caller[c] = "ready")
  /\ \/ Bundlers # {} /\ Goto(w, "write")
     \/ Goto(w, "threw")
  /\ Other(w) /\ UNCHANGED file

\* Mutant: the import does not wait for the file to be written.
ImportAtOnce == "import"
AfterTruncate == "fill"

Truncate(w) == worker[w] = "write" /\ file' = "partial" /\ Goto(w, AfterTruncate) /\ Other(w)
Fill(w) == worker[w] = "fill" /\ file' = "whole" /\ Goto(w, "import") /\ Other(w)
\* A write that fails is tried again with the transform, and then the load fails.
FillFails(w) == worker[w] = "fill" /\ Goto(w, "unwritten") /\ Other(w) /\ UNCHANGED file
Import(w) ==
  /\ worker[w] = "import" /\ Goto(w, IF file = "whole" THEN "loaded" ELSE "broken")
  /\ Other(w) /\ UNCHANGED file

Next ==
  \/ \E c \in Callers : Initialize(c) \/ Detect(c)
  \/ \E f \in Facts : Install(f)
  \/ \E w \in Workers : Bundle(w) \/ Truncate(w) \/ Fill(w) \/ FillFails(w) \/ Import(w)
Spec == Init /\ [][Next]_vars

-----------------------------------------------------------------------------
(* The calls that overlap share one detection, and it leaves none of them *)
(* waiting: who waits does so for a detection that is under way.           *)
OneDetection ==
  /\ Cardinality(detecting) <= 1
  /\ (\E c \in Callers : caller[c] = "waiting") => detecting # {}

(* In production no pool starts without a native strategy or tsx, which    *)
(* should make the inline transforms needless.  They are not: the strategy *)
(* does not reach the loading (worker-entry.ts turns inline transforms on  *)
(* in each worker), so that whoever has a module had a bundler, there too. *)
Native == {"bun-native", "deno-native", "tsx"}
LoadingTakesBoth ==
  \A w \in Workers : worker[w] \notin {"idle", "threw"} =>
    Bundlers # {} /\ ("production" \in env => result \in Native)

(* A worker reads a bundle that is whole, unless another worker writes the *)
(* same file at that moment.                                               *)
WholeUnlessShared ==
  \A w \in Workers : worker[w] = "broken" =>
    \E v \in Workers \ {w} : worker[v] \in {"fill", "unwritten", "import", "loaded", "broken"}

\* What the proofs carry along: a detection goes on only while there is no result, a caller
\* that is ready has one, and a worker that is to import finds the file whole, or another one
\* is or was at it.
Writes(v) == worker[v] \in {"fill", "unwritten", "import", "loaded", "broken"}
Inv ==
  /\ env \in SUBSET Facts /\ detecting \in SUBSET Callers
  /\ caller \in [Callers -> {"idle", "waiting", "ready", "failed"}]
  /\ worker \in [Workers -> {"idle", "write", "threw", "fill", "unwritten", "import", "loaded", "broken"}]
  /\ detecting = {} \/ \E c \in Callers : detecting = {c}
  /\ (\E c \in Callers : caller[c] = "waiting") => detecting # {}
  /\ detecting # {} => result = None
  /\ "production" \in env => result \in Native \cup {None}
  /\ (\E c \in Callers : caller[c] = "ready") => result # None
  /\ \A w \in Workers : worker[w] # "idle" => \E c \in Callers : caller[c] = "ready"
  /\ \A w \in Workers : worker[w] \notin {"idle", "threw"} => Bundlers # {}
  /\ \A w \in Workers : worker[w] = "import" => file = "whole" \/ \E v \in Workers \ {w} : Writes(v)
  /\ \A w \in Workers : worker[w] = "broken" => \E v \in Workers \ {w} : Writes(v)
=============================================================================
