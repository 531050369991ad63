----------------------------- MODULE PoolRegistry -----------------------------
(***************************************************************************)
(* The worker pools of the process: a route is resolved to the manifest    *)
(* nearest to it, one pool is shared by the routes of a manifest, a sweep  *)
(* shuts down the pools unused for a time, and a signal shuts down all of  *)
(* them.  A pool is its number; WorkerPool says what happens inside.       *)
(***************************************************************************)
EXTENDS Naturals, Sequences

CONSTANTS
  Routes,     \* the routes rendered
  Dirs,       \* the directories above a route, nearest first: [Routes -> Seq]
  Default,    \* the key of the routes that have no manifest
  CacheMax,   \* MANIFEST_CACHE_MAX
  Ttl,        \* POOL_TTL_MS, in ticks
  MaxTime, MaxPools

VARIABLES
  disk,       \* the directories that hold a manifest
  cached,     \* manifestPathCache: <<route, key>> pairs, the least recent first
  registry,   \* sharedWorkerPools: manifest -> [pool, at]
  pools,      \* the state of each pool made so far
  render,     \* the render of each route: its pool, its start, its outcome
  now, exit,  \* the clock; the signals received and where the shutdown is
  sweepTimer  \* whether the timer of the sweep runs

vars == <<disk, cached, registry, pools, render, now, exit, sweepTimer>>

Folders == UNION {{Dirs[r][i] : i \in DOMAIN Dirs[r]} : r \in Routes}
NoRender == [is |-> "idle", pool |-> 0, at |-> 0]
Running == exit.is # "exited"

Init ==
  /\ disk \in SUBSET Folders /\ cached = <<>>
  /\ registry = [k \in {} |-> NoRender] /\ pools = <<>>
  /\ render = [r \in Routes |-> NoRender] /\ now = 0
  /\ exit = [is |-> "no", signals |-> 0, waits |-> {}, ran |-> {}]
  /\ sweepTimer = FALSE

\* The walk up the directories, and what the cache remembers of it.  A route
\* without a manifest is remembered too.
Nearest(r) ==
  LET found == SelectSeq(Dirs[r], LAMBDA d : d \in disk)
  IN  IF found = <<>> THEN Default ELSE Head(found)
Lookup(r) == SelectSeq(cached, LAMBDA e : e[1] = r)
Key(r) == IF Lookup(r) # <<>> THEN Lookup(r)[1][2] ELSE Nearest(r)

Bounded(s) == IF Len(s) > CacheMax THEN Tail(s) ELSE s
Remembered(r) ==
  Bounded(Append(SelectSeq(cached, LAMBDA e : e[1] # r), <<r, Key(r)>>))

\* Mutant: finding a pool does not count as using it.
FoundUnused(entry) == entry
Used(entry) == [entry EXCEPT !.at = now]

\* getSharedWorkerPool and the render it is for.  It starts the timer, also
\* once a shutdown has stopped it.
Get(r) ==
  /\ Running /\ render[r].is = "idle" /\ cached' = Remembered(r) /\ sweepTimer' = TRUE
  /\ LET k == Key(r) IN
     IF k \in DOMAIN registry
       THEN /\ registry' = [registry EXCEPT ![k] = Used(@)]
            /\ render' = [render EXCEPT ![r] = [is |-> "rendering", pool |-> registry[k].pool, at |-> now]]
            /\ UNCHANGED pools
       ELSE /\ Len(pools) < MaxPools /\ pools' = Append(pools, "running")
            /\ registry' = [j \in DOMAIN registry \cup {k} |->
                              IF j = k THEN [is |-> "pool", pool |-> Len(pools) + 1, at |-> now]
                              ELSE registry[j]]
            /\ render' = [render EXCEPT ![r] = [is |-> "rendering", pool |-> Len(pools) + 1, at |-> now]]
  /\ UNCHANGED <<disk, now, exit>>

\* The render of a pool that was shut down under it is rejected.
RenderEnds(r) ==
  /\ Running /\ render[r].is = "rendering"
  /\ render' = [render EXCEPT ![r] = IF pools[@.pool] = "running" THEN NoRender
                                     ELSE [@ EXCEPT !.is = "failed"]]
  /\ UNCHANGED <<disk, cached, registry, pools, now, exit, sweepTimer>>

Again(r) ==
  /\ Running /\ render[r].is = "failed" /\ render' = [render EXCEPT ![r] = NoRender]
  /\ UNCHANGED <<disk, cached, registry, pools, now, exit, sweepTimer>>

Stale == {k \in DOMAIN registry : now - registry[k].at > Ttl}
Stopped(ps, set) == [i \in DOMAIN ps |-> IF i \in set /\ ps[i] = "running" THEN "stopping" ELSE ps[i]]

\* Mutant: a pool that is shut down stays in the registry until it has ended.
KeptWhileStopping == registry
Swept == [k \in DOMAIN registry \ Stale |-> registry[k]]
Sweep ==
  /\ Running /\ sweepTimer /\ Stale # {}
  /\ registry' = Swept /\ pools' = Stopped(pools, {registry[k].pool : k \in Stale})
  /\ UNCHANGED <<disk, cached, render, now, exit, sweepTimer>>

PoolStops(i) ==
  /\ Running /\ pools[i] = "stopping" /\ pools' = [pools EXCEPT ![i] = "stopped"]
  /\ UNCHANGED <<disk, cached, registry, render, now, exit, sweepTimer>>

Tick == Running /\ now < MaxTime /\ now' = now + 1 /\ UNCHANGED <<disk, cached, registry, pools, render, exit, sweepTimer>>

\* A build or a developer adds or removes a manifest; the cache is not told.
DiskChanges ==
  /\ Running /\ \E d \in Folders : disk' = IF d \in disk THEN disk \ {d} ELSE disk \cup {d}
  /\ UNCHANGED <<cached, registry, pools, render, now, exit, sweepTimer>>

\* clearManifestCache
Clear == Running /\ cached # <<>> /\ cached' = <<>> /\ UNCHANGED <<disk, registry, pools, render, now, exit, sweepTimer>>

\* Mutant: the registry is emptied before it is read.
ReadAfterClear == {}
Registered == {registry[k].pool : k \in DOMAIN registry}

\* SIGTERM and SIGINT each shut everything down, once; the pools the shutdown
\* waits for are the ones that were registered.
Signal ==
  /\ exit.signals < 2 /\ Running
  /\ pools' = Stopped(pools, Registered) /\ registry' = [k \in {} |-> NoRender]
  /\ exit' = [is |-> "stopping", signals |-> exit.signals + 1, waits |-> Registered,
             ran |-> {i \in DOMAIN pools : pools[i] = "running"}]
  /\ sweepTimer' = FALSE /\ UNCHANGED <<disk, cached, render, now>>

Exit ==
  /\ exit.is = "stopping" /\ \A i \in exit.waits : pools[i] = "stopped"
  /\ exit' = [exit EXCEPT !.is = "exited"]
  /\ UNCHANGED <<disk, cached, registry, pools, render, now, sweepTimer>>

Next ==
  \/ \E r \in Routes : Get(r) \/ RenderEnds(r) \/ Again(r)
  \/ \E i \in DOMAIN pools : PoolStops(i)
  \/ Sweep \/ Tick \/ DiskChanges \/ Clear \/ Signal \/ Exit
Spec == Init /\ [][Next]_vars

-----------------------------------------------------------------------------
(* A pool in the registry can be used: nobody is handed a pool that was    *)
(* swept or shut down, and no two manifests share one.                     *)
RegisteredIsAlive ==
  /\ \A k \in DOMAIN registry : pools[registry[k].pool] = "running"
  /\ \A j, k \in DOMAIN registry : registry[j].pool = registry[k].pool => j = k

(* The sweep takes a pool from under a render, which then fails, only when *)
(* every render of that pool began longer than the time to live ago.  That *)
(* it does so then is the code's: last use is when a render begins, and a  *)
(* render may wait and run longer where the environment sets the times so. *)
SweepSparesTheRecent ==
  \A r \in Routes :
    render[r].is \in {"rendering", "failed"} /\ exit.signals = 0
      /\ pools[render[r].pool] # "running" => now - render[r].at > Ttl

(* One signal ends the process only when every pool that ran at the time   *)
(* has stopped.  A pool that was swept just before, or one that was made   *)
(* after it, is not waited for.                                            *)
OneSignalDrains ==
  exit.is = "exited" /\ exit.signals = 1 => \A i \in exit.ran : pools[i] = "stopped"

\* What the proofs carry along: the pools that run are the registered ones, an entry was
\* used no earlier than the renders of its pool began, and a signal waits for what ran.
PoolStates == {"running", "stopping", "stopped"}
Inv ==
  /\ now \in Nat /\ pools \in Seq(PoolStates)
  /\ registry \in [DOMAIN registry -> [is : {"pool"}, pool : DOMAIN pools, at : 0 .. now]]
  /\ render \in [Routes -> [is : {"idle", "rendering", "failed"}, pool : {0} \cup DOMAIN pools, at : 0 .. now]]
  /\ exit \in [is : {"no", "stopping", "exited"}, signals : 0 .. 2, waits : SUBSET DOMAIN pools,
               ran : SUBSET DOMAIN pools]
  /\ RegisteredIsAlive /\ \A i \in DOMAIN pools : pools[i] = "running" => i \in Registered
  /\ \A r \in Routes : render[r].is # "idle" =>
       /\ render[r].pool # 0
       /\ \A k \in DOMAIN registry : registry[k].pool = render[r].pool => render[r].at <= registry[k].at
       /\ exit.signals = 0 /\ pools[render[r].pool] # "running" => now - render[r].at > Ttl
  /\ exit.signals = 1 => exit.ran \subseteq exit.waits
  /\ exit.is = "exited" => \A i \in exit.waits : pools[i] = "stopped"
=============================================================================
