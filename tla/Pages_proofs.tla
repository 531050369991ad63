------------------------------ MODULE Pages_proofs ------------------------------
(***************************************************************************)
(* The properties of Pages for every value of its constants.  The proof    *)
(* about a component looks at its own steps alone: the variables that the  *)
(* others share with it are its own while it is the one picked.            *)
(***************************************************************************)
EXTENDS Pages, FiniteSetTheorems, SequenceTheorems, WellFoundedInduction, TLAPS

\* The components count as FiniteSets does.
LEMMA SameCardinality == \A S : TR!Cardinality(S) = Cardinality(S) /\ FR!Cardinality(S) = Cardinality(S)
BY Zenon DEF TR!Cardinality, FR!Cardinality, Cardinality

LEMMA LeastNumber ==
  ASSUME NEW T \in SUBSET Nat, T # {}
  PROVE  \E x \in T : \A y \in T : x <= y
<1> DEFINE R == OpToRel(<, Nat)
<1>1. IsWellFoundedOn(R, Nat)
  BY NatLessThanWellFounded
<1>2. R = {s \in Nat \X Nat : s[1] < s[2]}
  BY DEF OpToRel
<1> HIDE DEF R
<1>3. PICK x \in T : \A y \in T : ~(<<y, x>> \in R)
  BY <1>1, WFMin
<1>4. ASSUME NEW y \in T PROVE x <= y
  <2> SUFFICES ASSUME ~(x <= y) PROVE FALSE
    OBVIOUS
  <2>1. y < x /\ <<y, x>> \in Nat \X Nat
    OBVIOUS
  <2> QED BY <1>2, <1>3, <2>1
<1> QED BY <1>4

\* What is in a sequence, and in its tail and its extension.
Items(s) == {s[i] : i \in DOMAIN s}

LEMMA ItemsOfTail ==
  ASSUME NEW S, NEW s \in Seq(S), s # <<>>
  PROVE  /\ Head(s) \in S /\ Head(s) = s[1] /\ Tail(s) \in Seq(S) /\ Len(Tail(s)) = Len(s) - 1
         /\ Len(s) \in Nat \ {0} /\ \A i \in 1 .. Len(s) - 1 : Tail(s)[i] = s[i + 1]
         /\ Items(s) = {Head(s)} \cup Items(Tail(s)) /\ Items(s) \subseteq S
<1>1. /\ Len(s) \in Nat \ {0} /\ DOMAIN s = 1 .. Len(s) /\ \A i \in 1 .. Len(s) : s[i] \in S
  BY LenProperties, EmptySeq
<1>2. /\ Head(s) \in S /\ Head(s) = s[1] /\ Tail(s) \in Seq(S) /\ Len(Tail(s)) = Len(s) - 1
      /\ \A i \in 1 .. Len(s) - 1 : Tail(s)[i] = s[i + 1]
  BY <1>1, HeadTailProperties
<1>3. DOMAIN Tail(s) = 1 .. Len(s) - 1
  BY <1>2, LenProperties
<1>4. \A i \in 1 .. Len(s) : i = 1 \/ (i - 1 \in 1 .. Len(s) - 1 /\ s[i] = Tail(s)[i - 1])
  BY <1>1, <1>2
<1>5. Items(s) \subseteq {Head(s)} \cup Items(Tail(s))
  <2> SUFFICES ASSUME NEW i \in 1 .. Len(s) PROVE s[i] \in {Head(s)} \cup Items(Tail(s))
    BY <1>1 DEF Items
  <2> QED BY <1>2, <1>3, <1>4 DEF Items
<1>6. {Head(s)} \cup Items(Tail(s)) \subseteq Items(s)
  BY <1>1, <1>2, <1>3 DEF Items
<1> QED BY <1>1, <1>2, <1>5, <1>6 DEF Items

LEMMA ItemsOfAppend ==
  ASSUME NEW S, NEW s \in Seq(S), NEW e \in S
  PROVE  /\ Append(s, e) \in Seq(S) /\ Len(Append(s, e)) = Len(s) + 1 /\ Len(s) \in Nat
         /\ Append(s, e)[Len(s) + 1] = e /\ \A i \in 1 .. Len(s) : Append(s, e)[i] = s[i]
         /\ Items(Append(s, e)) = Items(s) \cup {e}
<1>1. /\ Append(s, e) \in Seq(S) /\ Len(Append(s, e)) = Len(s) + 1 /\ Len(s) \in Nat
      /\ Append(s, e)[Len(s) + 1] = e /\ \A i \in 1 .. Len(s) : Append(s, e)[i] = s[i]
  BY AppendProperties, LenProperties
<1>2. DOMAIN s = 1 .. Len(s) /\ DOMAIN Append(s, e) = 1 .. Len(s) + 1
  BY <1>1, LenProperties
<1> QED BY <1>1, <1>2 DEF Items

-----------------------------------------------------------------------------
(* The transpiler.                                                         *)
TranspilerInv == which = "transpiler" => TR!Inv
transpiler == <<v1, v2, v3, v4, v5, v6>>

LEMMA TranspilerSteps ==
  ASSUME [Next]_all, which' = "transpiler"
  PROVE  which = "transpiler" /\ [TR!Next]_transpiler
BY DEF Next, all, shared, transpiler

LEMMA TranspilerInit == Init => TranspilerInv
<1> SUFFICES ASSUME Init, which = "transpiler" PROVE TR!Inv
  BY DEF TranspilerInv
<1>1. TR!Init
  BY DEF Init
<1> QED BY <1>1 DEF TR!Init, TR!Inv

\* Outside production any strategy may be detected, in production a native one or tsx.
LEMMA TranspilerNext == TranspilerInv /\ [Next]_all => TranspilerInv'
<1> SUFFICES ASSUME TranspilerInv, [Next]_all, which' = "transpiler" PROVE TR!Inv'
  BY DEF TranspilerInv
<1>1. TR!Inv /\ [TR!Next]_transpiler
  BY TranspilerSteps DEF TranspilerInv
<1> USE DEF TR!Inv
<1>2. CASE UNCHANGED transpiler
  BY <1>1, <1>2 DEF transpiler, TR!Bundlers, TR!Writes
<1>3. ASSUME NEW c \in Callers, TR!Initialize(c) PROVE TR!Inv'
  <2>1. UNCHANGED <<v1, v2, v5, v6>>
    BY <1>3 DEF TR!Initialize
  <2>2. /\ v4' \in [Callers -> {"idle", "waiting", "ready", "failed"}] /\ v3' \in SUBSET Callers
        /\ v3' = {} \/ \E d \in Callers : v3' = {d}
        /\ (\E d \in Callers : v4'[d] = "waiting") => v3' # {}
        /\ v3' # {} => v2 = None
        /\ \A d \in Callers : v4'[d] = "ready" => v2 # None
        /\ \A d \in Callers : v4[d] = "ready" => v4'[d] = "ready"
    <3>1. CASE v2 # None
      BY <1>1, <1>3, <3>1 DEF TR!Initialize
    <3>2. CASE v2 = None
      BY <1>1, <1>3, <3>2 DEF TR!Initialize, TR!StartsDetection
    <3> QED BY <3>1, <3>2
  <2> QED BY <1>1, <2>1, <2>2 DEF TR!Bundlers, TR!Writes
<1>4. ASSUME NEW c \in Callers, TR!Detect(c) PROVE TR!Inv'
  <2>1. /\ v3 = {c} /\ v3' = {} /\ v2' = TR!Detected /\ UNCHANGED <<v1, v5, v6>>
        /\ v4' \in [Callers -> {"idle", "waiting", "ready", "failed"}]
        /\ \A d \in Callers : v4'[d] # "waiting" /\ v2 = None
        /\ \A d \in Callers : v4'[d] = "ready" => v4[d] = "ready" \/ TR!Detected # None
        /\ \A d \in Callers : v4[d] # "ready"
    BY <1>1, <1>4 DEF TR!Detect
  <2>2. "production" \in v1 => TR!Detected \in TR!Native \cup {None}
    BY DEF TR!Detected, TR!Considered, TR!Native
  <2> QED BY <1>1, <2>1, <2>2 DEF TR!Bundlers, TR!Writes
<1>5. ASSUME NEW f \in TR!Facts, TR!Install(f) PROVE TR!Inv'
  BY <1>1, <1>5 DEF TR!Install, TR!Bundlers, TR!Writes
<1>6. ASSUME NEW w \in Workers, TR!Bundle(w) PROVE TR!Inv'
  BY <1>1, <1>6 DEF TR!Bundle, TR!Goto, TR!Other, TR!Bundlers, TR!Writes
<1>7. ASSUME NEW w \in Workers, TR!Truncate(w) PROVE TR!Inv'
  BY <1>1, <1>7 DEF TR!Truncate, TR!AfterTruncate, TR!Goto, TR!Other, TR!Bundlers, TR!Writes
<1>8. ASSUME NEW w \in Workers, TR!Fill(w) \/ TR!FillFails(w) PROVE TR!Inv'
  BY <1>1, <1>8 DEF TR!Fill, TR!FillFails, TR!Goto, TR!Other, TR!Bundlers, TR!Writes
<1>9. ASSUME NEW w \in Workers, TR!Import(w) PROVE TR!Inv'
  BY <1>1, <1>9 DEF TR!Import, TR!Goto, TR!Other, TR!Bundlers, TR!Writes
<1> QED BY <1>1, <1>2, <1>3, <1>4, <1>5, <1>6, <1>7, <1>8, <1>9 DEF TR!Next

LEMMA TranspilerAlways == Spec => []TranspilerInv
BY TranspilerInit, TranspilerNext, PTL DEF Spec

LEMMA TranspilerSays ==
  TranspilerInv => TR_OneDetection /\ TR_LoadingTakesBoth /\ TR_WholeUnlessShared
<1> SUFFICES ASSUME which = "transpiler", TR!Inv
             PROVE  TR!OneDetection /\ TR!LoadingTakesBoth /\ TR!WholeUnlessShared
  BY DEF TranspilerInv, TR_OneDetection, TR_LoadingTakesBoth, TR_WholeUnlessShared
<1>1. Cardinality(v3) = 0 \/ Cardinality(v3) = 1
  <2>1. v3 = {} \/ \E c \in Callers : v3 = {c}
    BY DEF TR!Inv
  <2> QED BY <2>1, FS_EmptySet, FS_Singleton
<1>2. TR!OneDetection
  <2>1. TR!Cardinality(v3) <= 1
    BY <1>1, SameCardinality
  <2>2. (\E c \in Callers : v4[c] = "waiting") => v3 # {}
    BY DEF TR!Inv
  <2> QED BY <2>1, <2>2 DEF TR!OneDetection
<1>3. TR!LoadingTakesBoth
  BY DEF TR!Inv, TR!LoadingTakesBoth
<1>4. TR!WholeUnlessShared
  BY DEF TR!Inv, TR!WholeUnlessShared, TR!Writes
<1> QED BY <1>2, <1>3, <1>4

-----------------------------------------------------------------------------
(* The registry of pools.                                                  *)
RegistryInv == which = "registry" => PR!Inv
pooling == <<v1, v2, v3, v4, v5, v6, v7, v8>>

LEMMA RegistrySteps ==
  ASSUME [Next]_all, which' = "registry"
  PROVE  which = "registry" /\ [PR!Next]_pooling
BY DEF Next, all, shared, pooling

LEMMA RegistryInit == Init => RegistryInv
<1> SUFFICES ASSUME Init, which = "registry" PROVE PR!Inv
  BY DEF RegistryInv
<1>1. PR!Init
  BY DEF Init
<1> QED BY <1>1 DEF PR!Init, PR!Inv, PR!NoRender, PR!RegisteredIsAlive

LEMMA RegistryNext == RegistryInv /\ [Next]_all => RegistryInv'
<1> SUFFICES ASSUME RegistryInv, [Next]_all, which' = "registry" PROVE PR!Inv'
  BY DEF RegistryInv
<1>1. PR!Inv /\ [PR!Next]_pooling
  BY RegistrySteps DEF RegistryInv
<1>2. v4 \in Seq(PR!PoolStates) /\ DOMAIN v4 = 1 .. Len(v4) /\ Len(v4) \in Nat
  BY <1>1 DEF PR!Inv
<1> USE DEF PR!Inv, PR!RegisteredIsAlive, PR!Registered, PR!PoolStates
<1>3. CASE UNCHANGED pooling
  BY <1>1, <1>3 DEF pooling
\* A pool that is found was used now; one that is made is the registry's alone.
<1>4. ASSUME NEW r \in PoolRoutes, PR!Get(r) PROVE PR!Inv'
  <2> DEFINE k == PR!Key(r)
  <2> HIDE DEF k
  <2>1. CASE k \in DOMAIN v3
    <3>1. /\ v3' = [v3 EXCEPT ![k].at = v6] /\ UNCHANGED <<v1, v4, v6, v7>>
          /\ v5' = [v5 EXCEPT ![r] = [is |-> "rendering", pool |-> v3[k].pool, at |-> v6]]
      BY <1>4, <2>1 DEF PR!Get, PR!Used, k
    <3>2. /\ DOMAIN v3' = DOMAIN v3 /\ v3' \in [DOMAIN v3' -> [is : {"pool"}, pool : DOMAIN v4', at : 0 .. v6']]
          /\ \A j \in DOMAIN v3 : v3'[j].pool = v3[j].pool /\ v3[j].at <= v3'[j].at
          /\ v3'[k].at = v6
      <4>1. v3[k] \in [is : {"pool"}, pool : DOMAIN v4, at : 0 .. v6] /\ v6 \in 0 .. v6
        BY <1>1, <2>1
      <4>2. /\ DOMAIN v3' = DOMAIN v3 /\ v3'[k] = [v3[k] EXCEPT !.at = v6]
            /\ \A j \in DOMAIN v3 \ {k} : v3'[j] = v3[j]
        BY <2>1, <3>1
      <4>3. v3' = [j \in DOMAIN v3 |-> v3'[j]]
        BY <1>1, <3>1
      <4>4. \A j \in DOMAIN v3 : v3'[j] \in [is : {"pool"}, pool : DOMAIN v4, at : 0 .. v6]
        <5>1. v3'[k] \in [is : {"pool"}, pool : DOMAIN v4, at : 0 .. v6]
          BY <4>1, <4>2
        <5>2. \A j \in DOMAIN v3 : v3[j] \in [is : {"pool"}, pool : DOMAIN v4, at : 0 .. v6]
          BY <1>1
        <5> QED BY <4>2, <5>1, <5>2
      <4>5. v4' = v4 /\ v6' = v6
        BY <3>1
      <4>6. \A j \in DOMAIN v3 : v3'[j].pool = v3[j].pool /\ v3[j].at <= v3'[j].at
        BY <1>1, <4>1, <4>2
      <4> QED BY <4>1, <4>2, <4>3, <4>4, <4>5, <4>6
    <3>3. /\ v5' \in [PoolRoutes -> [is : {"idle", "rendering", "failed"}, pool : {0} \cup DOMAIN v4', at : 0 .. v6']]
          /\ v5'[r].pool = v3[k].pool /\ v5'[r].at = v6 /\ \A q \in PoolRoutes \ {r} : v5'[q] = v5[q]
      BY <1>1, <2>1, <3>1
    <3>4. v4[v3[k].pool] = "running" /\ v3[k].pool # 0
      BY <1>1, <1>2, <2>1
    <3>5. ASSUME NEW q \in PoolRoutes, v5'[q].is # "idle"
          PROVE  /\ v5'[q].pool # 0
                 /\ \A j \in DOMAIN v3' : v3'[j].pool = v5'[q].pool => v5'[q].at <= v3'[j].at
                 /\ v7'.signals = 0 /\ v4'[v5'[q].pool] # "running" => v6' - v5'[q].at > Ttl
      <4>1. CASE q = r
        BY <1>1, <2>1, <3>1, <3>2, <3>3, <3>4, <4>1
      <4>2. CASE q # r
        BY <1>1, <3>1, <3>2, <3>3, <3>5, <4>2
      <4> QED BY <4>1, <4>2
    <3> QED BY <1>1, <1>2, <2>1, <3>1, <3>2, <3>3, <3>5
  <2>2. CASE k \notin DOMAIN v3
    <3> DEFINE n == Len(v4) + 1
    <3>1. /\ v4' = Append(v4, "running") /\ UNCHANGED <<v1, v6, v7>>
          /\ v3' = [j \in DOMAIN v3 \cup {k} |-> IF j = k THEN [is |-> "pool", pool |-> n, at |-> v6] ELSE v3[j]]
          /\ v5' = [v5 EXCEPT ![r] = [is |-> "rendering", pool |-> n, at |-> v6]]
      BY <1>4, <2>2 DEF PR!Get, k
    <3>2. /\ v4' \in Seq(PR!PoolStates) /\ DOMAIN v4' = 1 .. n /\ v4'[n] = "running"
          /\ \A i \in DOMAIN v4 : i \in DOMAIN v4' /\ v4'[i] = v4[i]
      BY <1>2, <3>1, AppendProperties
    <3> QED BY <1>1, <1>2, <2>2, <3>1, <3>2
  <2> QED BY <2>1, <2>2
<1>5. ASSUME NEW r \in PoolRoutes, PR!RenderEnds(r) PROVE PR!Inv'
  BY <1>1, <1>2, <1>5 DEF PR!RenderEnds, PR!NoRender
<1>6. ASSUME NEW r \in PoolRoutes, PR!Again(r) PROVE PR!Inv'
  BY <1>1, <1>2, <1>6 DEF PR!Again, PR!NoRender
<1>7. ASSUME NEW i \in DOMAIN v4, PR!PoolStops(i) PROVE PR!Inv'
  BY <1>1, <1>2, <1>7 DEF PR!PoolStops
\* A sweep stops the pools of the entries that are stale, and no other one has them.
<1>8. CASE PR!Sweep
  <2> DEFINE gone == PR!Stale
             stopped == {v3[k].pool : k \in gone}
  <2>1. /\ UNCHANGED <<v1, v2, v5, v6, v7>>
        /\ v3' = [k \in DOMAIN v3 \ gone |-> v3[k]]
        /\ v4' = [i \in DOMAIN v4 |-> IF i \in stopped /\ v4[i] = "running" THEN "stopping" ELSE v4[i]]
    BY <1>8 DEF PR!Sweep, PR!Swept, PR!Stopped
  <2>2. /\ gone \subseteq DOMAIN v3 /\ \A k \in gone : v6 - v3[k].at > Ttl
    BY DEF PR!Stale
  <2>3. v4' \in Seq(PR!PoolStates) /\ DOMAIN v4' = DOMAIN v4
    BY <1>2, <2>1
  <2> HIDE DEF gone
  <2>4. \A i \in DOMAIN v4 : v4'[i] = "running" <=> v4[i] = "running" /\ i \notin stopped
    BY <2>1
  <2>5. /\ v3' \in [DOMAIN v3' -> [is : {"pool"}, pool : DOMAIN v4', at : 0 .. v6']]
        /\ DOMAIN v3' = DOMAIN v3 \ gone /\ \A k \in DOMAIN v3' : v3'[k] = v3[k]
    BY <1>1, <2>1, <2>3
  <2>6. /\ \A k \in DOMAIN v3' : v4'[v3'[k].pool] = "running"
        /\ \A i \in DOMAIN v4' : v4'[i] = "running" => i \in {v3'[k].pool : k \in DOMAIN v3'}
    BY <1>1, <2>2, <2>3, <2>4, <2>5
  <2>7. ASSUME NEW q \in PoolRoutes, v5[q].is # "idle", v4'[v5[q].pool] # "running", v7.signals = 0
        PROVE  v6 - v5[q].at > Ttl
    <3>1. CASE v4[v5[q].pool] # "running"
      BY <1>1, <2>7, <3>1
    <3>2. CASE v4[v5[q].pool] = "running"
      <4>1. v5[q].pool \in stopped
        BY <1>1, <2>4, <2>7, <3>2
      <4>2. PICK k \in gone : v5[q].pool = v3[k].pool
        BY <4>1
      <4>3. v5[q].at <= v3[k].at /\ v5[q].at \in Nat /\ v3[k].at \in Nat
        BY <1>1, <2>2, <2>7, <4>2
      <4> QED BY <1>1, <2>2, <4>3, PoolAssumption
    <3> QED BY <3>1, <3>2
  <2> QED BY <1>1, <2>1, <2>3, <2>5, <2>6, <2>7
<1>9. CASE PR!Tick
  BY <1>1, <1>2, <1>9, PoolAssumption DEF PR!Tick
<1>10. CASE PR!DiskChanges \/ PR!Clear
  <2>1. UNCHANGED <<v3, v4, v5, v6, v7>>
    BY <1>10 DEF PR!DiskChanges, PR!Clear
  <2> QED BY <1>1, <2>1
<1>11. CASE PR!Signal
  BY <1>1, <1>2, <1>11 DEF PR!Signal, PR!Stopped
<1>12. CASE PR!Exit
  BY <1>1, <1>2, <1>12 DEF PR!Exit
<1> QED BY <1>1, <1>3, <1>4, <1>5, <1>6, <1>7, <1>8, <1>9, <1>10, <1>11, <1>12 DEF PR!Next
LEMMA RegistryAlways == Spec => []RegistryInv
BY RegistryInit, RegistryNext, PTL DEF Spec

LEMMA RegistrySays ==
  RegistryInv => PR_RegisteredIsAlive /\ PR_SweepSparesTheRecent /\ PR_OneSignalDrains
<1> SUFFICES ASSUME which = "registry", PR!Inv
             PROVE  PR!RegisteredIsAlive /\ PR!SweepSparesTheRecent /\ PR!OneSignalDrains
  BY DEF RegistryInv, PR_RegisteredIsAlive, PR_SweepSparesTheRecent, PR_OneSignalDrains
<1> QED BY DEF PR!Inv, PR!SweepSparesTheRecent, PR!OneSignalDrains

\* The registry holds live pools alone, its sweep fails no render but one that has run longer
\* than the time to live, and one signal waits for every pool that ran.  Callers of the
\* transpiler share one detection; a worker loads a module only with a bundler to hand,
\* whatever the strategy, and what it imports is whole but where another one writes it too.
THEOREM SharedIsSafe == Spec => []PoolsAndModulesAreShared
<1>1. RegistryInv /\ TranspilerInv => PoolsAndModulesAreShared
  BY RegistrySays, TranspilerSays DEF PoolsAndModulesAreShared
<1> QED BY <1>1, RegistryAlways, TranspilerAlways, PTL
-----------------------------------------------------------------------------
(* Navigation.                                                             *)
NavigationInv == which = "navigation" => CN!Inv
navigating == <<v1, v2, v3, v4, v5, v6, v7>>

LEMMA NavigationSteps ==
  ASSUME [Next]_all, which' = "navigation"
  PROVE  which = "navigation" /\ [CN!Next]_navigating
BY DEF Next, all, shared, navigating

(* What a visit is. *)
Visit == [at : {"idle", "asked", "applying", "booting"}, url : CN!Names,
          replace : BOOLEAN, streamed : BOOLEAN, alone : BOOLEAN,
          boot : [url : CN!Names, key : CN!Names, same : BOOLEAN]]

LEMMA NavigationInit == Init => NavigationInv
<1> SUFFICES ASSUME Init, which = "navigation" PROVE CN!Inv
  BY DEF NavigationInv
<1>1. PICK u \in Urls :
        /\ v1 = <<u>> /\ v2 = 1 /\ v3 = [url |-> u, key |-> u] /\ v4 = [url |-> u, by |-> "server"]
        /\ \E first \in Visits :
             v6 = [v \in Visits |-> IF v = first THEN CN!Booting(CN!Idle, v3) ELSE CN!Idle]
        /\ v7 = FALSE
  BY DEF Init, CN!Init
<1>2. PICK first \in Visits :
        v6 = [v \in Visits |-> IF v = first THEN CN!Booting(CN!Idle, v3) ELSE CN!Idle]
  BY <1>1
<1>3. /\ CN!Booting(CN!Idle, v3).at = "booting"
      /\ CN!Booting(CN!Idle, v3).boot = [url |-> u, key |-> u, same |-> TRUE]
      /\ CN!Idle.at = "idle"
  BY <1>1 DEF CN!Booting, CN!Idle
<1>4. CN!InFlight = {first}
  BY <1>2, <1>3 DEF CN!InFlight
<1>5. \A v \in Visits : v6[v] \in Visit
  BY <1>1, <1>2 DEF CN!Booting, CN!Idle, CN!Names, Visit
<1>6. v1 \in Seq(CN!Names) /\ v2 \in DOMAIN v1 /\ v1[v2] = u
  <2>1. v1 = <<u>> /\ v2 = 1 /\ u \in CN!Names
    BY <1>1 DEF CN!Names
  <2> QED BY <2>1
<1>7. \A v \in Visits : CN!Alone(v) => v = first
  BY <1>4 DEF CN!Alone, CN!InFlight
<1>8. v3 \in CN!Contexts /\ v4 \in [url : CN!Names, by : {"server", "stream", "chunks", "markup"}]
  <2>1. u \in CN!Names /\ v3 = [url |-> u, key |-> u] /\ v4 = [url |-> u, by |-> "server"]
    BY <1>1 DEF CN!Names
  <2> QED BY <2>1 DEF CN!Contexts
<1>9. v6[first].at = "booting" /\ v6[first].boot = [url |-> u, key |-> u, same |-> TRUE]
  BY <1>2, <1>3
<1>10. CN!Agreed(u)
  BY <1>1, <1>6 DEF CN!Agreed
<1>11. v6 \in [Visits -> Visit]
  BY <1>2, <1>5 DEF Visit
<1> QED BY <1>1, <1>4, <1>6, <1>7, <1>8, <1>9, <1>10, <1>11 DEF CN!Inv, Visit

\* A visit that begins ends the solitude of the others, and no agreement is claimed.
LEMMA VisitBegins ==
  ASSUME CN!Inv, NEW v \in Visits, NEW url \in CN!Names, NEW replace \in BOOLEAN,
         CN!Begin(v, url, replace)
  PROVE  /\ v7' = FALSE /\ v6' \in [Visits -> Visit] /\ v6'[v].at = "asked"
         /\ \A w \in Visits : CN!Alone(w)' => w = v /\ (CN!InFlight)' = {v}
<1> DEFINE new == [CN!Idle EXCEPT !.at = "asked", !.url = url, !.replace = replace,
                                  !.alone = CN!InFlight = {}]
<1>1. /\ v7' = FALSE /\ v6[v].at = "idle"
      /\ v6' = [w \in Visits |-> IF w = v THEN new ELSE [v6[w] EXCEPT !.alone = (w \notin CN!InFlight)]]
  BY DEF CN!Begin
<1>2. new \in Visit /\ new.at = "asked" /\ new.alone = (CN!InFlight = {})
  BY DEF CN!Idle, CN!Names, Visit
<1>3. \A w \in Visits : v6[w] \in Visit
  BY DEF CN!Inv, Visit
<1> HIDE DEF new
<1>4. \A w \in Visits \ {v} :
        v6'[w] \in Visit /\ v6'[w].at = v6[w].at /\ v6'[w].alone = (w \notin CN!InFlight)
  BY <1>1, <1>3 DEF Visit
<1>5. \A w \in Visits : CN!Alone(w)' => w = v /\ CN!InFlight = {}
  BY <1>1, <1>2, <1>4 DEF CN!Alone, CN!InFlight
<1>6. CN!InFlight = {} => (CN!InFlight)' = {v}
  BY <1>1, <1>2, <1>4 DEF CN!InFlight
<1>7. v6' \in [Visits -> Visit] /\ v6'[v].at = "asked"
  BY <1>1, <1>2, <1>4
<1> QED BY <1>1, <1>5, <1>6, <1>7

\* Writing the history puts the url where the browser is.
LEMMA HistoryIsWritten ==
  ASSUME CN!Inv, NEW url \in CN!Names, CN!Pushed(url) \/ CN!Replaced(url)
  PROVE  v1' \in Seq(CN!Names) /\ v2' \in DOMAIN v1' /\ v1'[v2'] = url
<1>1. v1 \in Seq(CN!Names) /\ v2 \in 1 .. Len(v1) /\ Len(v1) \in Nat
  BY LenProperties DEF CN!Inv
<1>2. CASE CN!Replaced(url)
  BY <1>1, <1>2 DEF CN!Replaced
<1>3. CASE CN!Pushed(url)
  <2> DEFINE kept == SubSeq(v1, 1, v2)
  <2>1. kept \in Seq(CN!Names) /\ Len(kept) = v2
    BY <1>1, SubSeqProperties
  <2>2. v1' = Append(kept, url) /\ v2' = v2 + 1
    BY <1>3 DEF CN!Pushed
  <2> HIDE DEF kept
  <2> QED BY <1>1, <2>1, <2>2, AppendProperties
<1> QED BY <1>2, <1>3

LEMMA NavigationNext == NavigationInv /\ [Next]_all => NavigationInv'
<1> SUFFICES ASSUME NavigationInv, [Next]_all, which' = "navigation" PROVE CN!Inv'
  BY DEF NavigationInv
<1>1. CN!Inv /\ [CN!Next]_navigating
  BY NavigationSteps DEF NavigationInv
<1>2. /\ v1 \in Seq(CN!Names) /\ v2 \in DOMAIN v1 /\ v3 \in CN!Contexts
      /\ v4 \in [url : CN!Names, by : {"server", "stream", "chunks", "markup"}]
      /\ v6 \in [Visits -> Visit] /\ (v7 /\ CN!InFlight = {} => CN!Agreed(v4.url))
      /\ \A v \in Visits : CN!Alone(v) =>
           /\ CN!InFlight = {v}
           /\ v6[v].at = "applying" => v3 = CN!ContextOf(v)
           /\ v6[v].at = "booting" => CN!Agreed(v6[v].boot.url) /\ v6[v].boot.key = v6[v].boot.url
  BY <1>1 DEF CN!Inv, Visit
<1>3. ASSUME /\ v1' \in Seq(CN!Names) /\ v2' \in DOMAIN v1' /\ v3' \in CN!Contexts
             /\ v4' \in [url : CN!Names, by : {"server", "stream", "chunks", "markup"}]
             /\ v6' \in [Visits -> Visit],
             v7' /\ (CN!InFlight)' = {} => CN!Agreed(v4.url)',
             \A v \in Visits : CN!Alone(v)' =>
               /\ (CN!InFlight)' = {v}
               /\ v6'[v].at = "applying" => v3' = CN!ContextOf(v)'
               /\ v6'[v].at = "booting" => CN!Agreed(v6[v].boot.url)' /\ v6'[v].boot.key = v6'[v].boot.url
      PROVE  CN!Inv'
  BY <1>3 DEF CN!Inv, Visit
<1>4. CASE UNCHANGED navigating \/ (\E v \in Visits : CN!Failed(v)) \/ CN!Synced
  <2>1. UNCHANGED <<v1, v2, v3, v4, v6, v7>>
    BY <1>4 DEF navigating, CN!Failed, CN!Synced
  <2> QED BY <1>1, <2>1 DEF CN!Inv, CN!Alone, CN!InFlight, CN!ContextOf, CN!Agreed
\* A visit that begins is asked only; the address may change.
<1>5. ASSUME NEW v \in Visits, NEW url \in CN!Names, NEW replace \in BOOLEAN,
             CN!Begin(v, url, replace), v3' = v3, v4' = v4,
             v1' \in Seq(CN!Names), v2' \in DOMAIN v1'
      PROVE  CN!Inv'
  <2>1. /\ v7' = FALSE /\ v6' \in [Visits -> Visit] /\ v6'[v].at = "asked"
        /\ \A w \in Visits : CN!Alone(w)' => w = v /\ (CN!InFlight)' = {v}
    BY <1>1, <1>5, VisitBegins
  <2>2. \A w \in Visits : CN!Alone(w)' => (CN!InFlight)' = {w} /\ v6'[w].at = "asked"
    BY <2>1
  <2> QED BY <1>2, <1>3, <1>5, <2>1, <2>2
<1>6. ASSUME NEW v \in Visits, NEW u \in Urls, CN!Click(v, u) PROVE CN!Inv'
  BY <1>2, <1>5, <1>6 DEF CN!Click, CN!Names
<1>7. ASSUME NEW v \in Visits, NEW u \in Urls, NEW r \in BOOLEAN, CN!Route(v, u, r) PROVE CN!Inv'
  <2>1. u \in CN!Names /\ CN!Begin(v, u, r) /\ (CN!Replaced(u) \/ CN!Pushed(u)) /\ v3' = v3 /\ v4' = v4
    BY <1>7 DEF CN!Route, CN!Names
  <2> QED BY <1>1, <1>5, <2>1, HistoryIsWritten
<1>8. ASSUME NEW v \in Visits, NEW i \in DOMAIN v1, CN!Traverse(v, i) PROVE CN!Inv'
  <2>1. v1[i] \in CN!Names /\ v2' = i /\ v1' = v1 /\ v3' = v3 /\ v4' = v4 /\ CN!Begin(v, v1[i], TRUE)
    <3>1. v1[i] \in CN!Names
      BY <1>2
    <3>2. v2' = i /\ v1' = v1 /\ v3' = v3 /\ v4' = v4 /\ CN!Begin(v, v1[i], TRUE)
      BY <1>8 DEF CN!Traverse
    <3> QED BY <3>1, <3>2
  <2> QED BY <1>2, <1>5, <2>1
\* The context is the visit's from its answer on.
<1>9. ASSUME NEW v \in Visits, CN!Answered(v) PROVE CN!Inv'
  <2>1. PICK streamed \in BOOLEAN :
          v6' = [CN!Detached EXCEPT ![v].at = "applying", ![v].streamed = streamed]
    BY <1>9 DEF CN!Answered
  <2>2. v6[v].at = "asked" /\ v3' = CN!ContextOf(v) /\ UNCHANGED <<v1, v2, v4, v5, v7>>
    BY <1>9 DEF CN!Answered
  <2>3. CN!Detached \in [Visits -> Visit] /\ \A w \in Visits : 
          /\ CN!Detached[w].at = v6[w].at /\ CN!Detached[w].url = v6[w].url
          /\ CN!Detached[w].alone = v6[w].alone /\ CN!Detached[w].replace = v6[w].replace
    BY <1>2 DEF CN!Detached, Visit, CN!Contexts
  <2>4. /\ v6' \in [Visits -> Visit] /\ v6'[v].at = "applying"
        /\ \A w \in Visits : v6'[w].url = v6[w].url /\ v6'[w].alone = v6[w].alone
        /\ \A w \in Visits \ {v} : v6'[w].at = v6[w].at
    <3>1. /\ CN!Detached[v] \in Visit
          /\ v6' = [CN!Detached EXCEPT ![v] = [CN!Detached[v] EXCEPT !.at = "applying", !.streamed = streamed]]
      BY <2>1, <2>3
    <3> DEFINE new == [CN!Detached[v] EXCEPT !.at = "applying", !.streamed = streamed]
    <3>2. /\ new \in Visit /\ new.at = "applying" /\ new.url = CN!Detached[v].url
          /\ new.alone = CN!Detached[v].alone
      BY <3>1 DEF Visit
    <3> HIDE DEF new
    <3>3. /\ v6' \in [Visits -> Visit] /\ v6'[v] = new
          /\ \A w \in Visits \ {v} : v6'[w] = CN!Detached[w]
      BY <2>3, <3>1, <3>2 DEF new
    <3> QED BY <2>3, <3>2, <3>3
  <2>5. (CN!InFlight)' = CN!InFlight /\ v \in CN!InFlight
    BY <2>2, <2>4 DEF CN!InFlight
  <2>6. CN!ContextOf(v) \in CN!Contexts /\ CN!ContextOf(v)' = CN!ContextOf(v)
    BY <1>2, <2>4 DEF CN!ContextOf, CN!Contexts, Visit
  <2>7. \A w \in Visits : CN!Alone(w)' => w = v /\ CN!InFlight = {v}
    BY <1>2, <2>2, <2>4, <2>5 DEF CN!Alone, CN!InFlight
  <2> QED BY <1>2, <1>3, <2>2, <2>4, <2>5, <2>6, <2>7
\* What is shown is the visit's, and its page is bootstrapped from the context of then.
<1>10. ASSUME NEW v \in Visits, CN!Shown(v) PROVE CN!Inv'
  <2>1. /\ v6[v].at = "applying" /\ UNCHANGED <<v5, v7>>
        /\ v4' \in [url : {v6[v].url}, by : {"stream", "chunks", "markup"}]
        /\ v3' = v3 \/ v3' = [v3 EXCEPT !.key = v6[v].url]
        /\ CN!WriteHistory(v) /\ v6' = [v6 EXCEPT ![v] = CN!Booting(v6[v], v3')]
    BY <1>2, <1>10 DEF CN!Shown, Visit
  <2>2. v6[v].url \in CN!Names /\ v3' \in CN!Contexts /\ v4'.url = v6[v].url
    BY <1>2, <2>1 DEF Visit, CN!Contexts
  <2>3. v1' \in Seq(CN!Names) /\ v2' \in DOMAIN v1' /\ v1'[v2'] = v6[v].url
    BY <1>1, <2>1, <2>2, HistoryIsWritten DEF CN!WriteHistory
  <2>4. /\ CN!Booting(v6[v], v3') \in Visit /\ CN!Booting(v6[v], v3').at = "booting"
        /\ CN!Booting(v6[v], v3').alone = v6[v].alone
        /\ CN!Booting(v6[v], v3').boot = [url |-> v3'.url, key |-> v3'.key, same |-> TRUE]
    BY <1>2, <2>2 DEF CN!Booting, Visit, CN!Contexts
  <2>5. /\ v6' \in [Visits -> Visit] /\ v6'[v] = CN!Booting(v6[v], v3')
        /\ \A w \in Visits \ {v} : v6'[w] = v6[w]
    BY <1>2, <2>1, <2>4
  <2>6. (CN!InFlight)' = CN!InFlight /\ v \in CN!InFlight
    BY <2>1, <2>4, <2>5 DEF CN!InFlight
  <2>7. \A w \in Visits : CN!Alone(w)' => w = v /\ CN!InFlight = {v} /\ CN!Alone(v)
    BY <1>2, <2>1, <2>4, <2>5, <2>6 DEF CN!Alone, CN!InFlight
  <2>8. CN!Alone(v) => v3' = [url |-> v6[v].url, key |-> v6[v].url]
    BY <1>2, <2>1 DEF CN!ContextOf
  <2>9. CN!Alone(v) => CN!Agreed(v6[v].boot.url)' /\ v6'[v].boot.key = v6'[v].boot.url
    BY <2>2, <2>3, <2>4, <2>5, <2>8 DEF CN!Agreed
  <2>10. v4' \in [url : CN!Names, by : {"server", "stream", "chunks", "markup"}]
    BY <2>1, <2>2
  <2> QED BY <1>3, <2>2, <2>3, <2>4, <2>5, <2>6, <2>7, <2>9, <2>10
\* A visit that is alone bootstraps the page it has shown, from the context it has made.
<1>11. ASSUME NEW v \in Visits, CN!Bootstrapped(v) PROVE CN!Inv'
  <2>1. /\ v6[v].at = "booting" /\ v6' = [v6 EXCEPT ![v] = CN!Idle] /\ v7' = v6[v].alone
        /\ UNCHANGED <<v1, v2, v5>>
        /\ \/ v4' = [url |-> v6[v].boot.url, by |-> "chunks"]
              /\ v3' = [v3 EXCEPT !.key = IF v6[v].boot.same THEN v3.key ELSE v6[v].boot.key]
           \/ UNCHANGED <<v3, v4>>
    BY <1>11 DEF CN!Bootstrapped
  <2>2. v6[v] \in Visit /\ CN!Idle \in Visit /\ CN!Idle.at = "idle"
    BY <1>2 DEF CN!Idle, CN!Names, Visit
  <2>3. /\ v6' \in [Visits -> Visit] /\ v6'[v].at = "idle"
        /\ \A w \in Visits \ {v} : v6'[w] = v6[w]
    BY <1>2, <2>1, <2>2
  <2>4. /\ v3' \in CN!Contexts
        /\ v4' \in [url : CN!Names, by : {"server", "stream", "chunks", "markup"}]
    BY <1>2, <2>1, <2>2 DEF CN!Contexts, Visit
  <2>5. (CN!InFlight)' = CN!InFlight \ {v} /\ v \in CN!InFlight
    BY <2>1, <2>3 DEF CN!InFlight
  <2>6. \A w \in Visits : ~CN!Alone(w)'
    BY <1>2, <2>1, <2>3, <2>5 DEF CN!Alone, CN!InFlight
  <2>7. v7' => CN!Agreed(v4.url)'
    <3> SUFFICES ASSUME v6[v].alone PROVE CN!Agreed(v4.url)'
      BY <2>1
    <3> DEFINE boot == v6[v].boot
    <3>1. v1[v2] = boot.url /\ v4.url = boot.url /\ v3 = [url |-> boot.url, key |-> boot.url]
          /\ boot.key = boot.url
      BY <1>2, <2>1 DEF CN!Alone, CN!Agreed
    <3>2. v4'.url = boot.url
      BY <2>1, <3>1
    <3>3. v3' = [url |-> boot.url, key |-> boot.url]
      BY <2>1, <3>1
    <3>4. v1'[v2'] = boot.url
      BY <2>1, <3>1
    <3> QED BY <3>2, <3>3, <3>4 DEF CN!Agreed
  <2> QED BY <1>2, <1>3, <2>1, <2>3, <2>4, <2>6, <2>7
<1> QED BY <1>1, <1>4, <1>6, <1>7, <1>8, <1>9, <1>10, <1>11 DEF CN!Next

LEMMA NavigationAlways == Spec => []NavigationInv
BY NavigationInit, NavigationNext, PTL DEF Spec

LEMMA NavigationSays == NavigationInv => CN_LoneVisitAgrees
BY DEF NavigationInv, CN!Inv, CN_LoneVisitAgrees, CN!LoneVisitAgrees, CN!Agreed
-----------------------------------------------------------------------------
(* The reloads of the development server.                                  *)
ReloadInv == which = "reload" => DR!Inv
reloading == <<v1, v2, v3, v4, v5, v6>>

LEMMA ReloadSteps ==
  ASSUME [Next]_all, which' = "reload"
  PROVE  which = "reload" /\ [DR!Next]_reloading
BY DEF Next, all, shared, reloading

LEMMA ReloadInit == Init => ReloadInv
<1> SUFFICES ASSUME Init, which = "reload" PROVE DR!Inv
  BY DEF ReloadInv
<1>1. DR!Init
  BY DEF Init
<1> QED BY <1>1, NoneAssumption
     DEF DR!Init, DR!Inv, DR!Idle, DR!Versions, DR!Running, DR!LoneReloadIsServed,
         DR!LoneReloadIsTold, DR!Vars

Handler == [next : 0..4, seen : DR!Versions, plan : DR!Versions, alone : BOOLEAN]

LEMMA NewHandler ==
  ASSUME NEW alone \in BOOLEAN
  PROVE  LET new == [DR!Idle EXCEPT !.next = 1, !.alone = alone]
         IN  /\ new.next = 1 /\ new.seen = None /\ new.plan = None /\ new.alone = alone
             /\ new \in Handler
<1>1. DR!Idle = [next |-> 0, seen |-> None, plan |-> None, alone |-> FALSE]
  BY DEF DR!Idle
<1>2. DR!Idle \in Handler
  BY DEF DR!Idle, Handler, DR!Versions
<1> DEFINE first == [DR!Idle EXCEPT !.next = 1]
<1>3. first \in Handler /\ first.next = 1 /\ first.seen = None /\ first.plan = None
  <2>1. first.next = 1
    BY <1>2 DEF Handler
  <2>2. first.seen = None
    BY <1>1, <1>2 DEF Handler
  <2>3. first.plan = None
    BY <1>1, <1>2 DEF Handler
  <2>4. first \in Handler
    BY <1>2 DEF Handler
  <2> QED BY <2>1, <2>2, <2>3, <2>4
<1> HIDE DEF first
<1> QED BY <1>3 DEF Handler, first

LEMMA ReloadNext == ReloadInv /\ [Next]_all => ReloadInv'
<1> SUFFICES ASSUME ReloadInv, [Next]_all, which' = "reload" PROVE DR!Inv'
  BY DEF ReloadInv
<1>1. DR!Inv /\ [DR!Next]_reloading
  BY ReloadSteps DEF ReloadInv
<1>2. Len(DR!Vars) = 3 /\ DOMAIN DR!Vars = 1 .. 3
  BY DEF DR!Vars
<1> USE DEF DR!Inv, DR!Versions, DR!Running, Handler
<1>3. CASE UNCHANGED reloading
  BY <1>1, <1>3 DEF reloading, DR!LoneReloadIsServed, DR!LoneReloadIsTold
<1>4. ASSUME NEW r \in Reloads, DR!Change(r) PROVE DR!Inv'
  <2> DEFINE none == {q \in Reloads : v3[q].next # 0} = {}
             new == [DR!Idle EXCEPT !.next = 1, !.alone = none]
  <2>1. /\ v3[r] = DR!Idle /\ v1' = v1 + 1 /\ v6' = FALSE /\ UNCHANGED <<v2, v4, v5>>
        /\ v3' = [q \in Reloads |-> IF q = r THEN new ELSE [v3[q] EXCEPT !.alone = FALSE]]
    BY <1>4 DEF DR!Change
  <2> HIDE DEF none
  <2>2. /\ new.next = 1 /\ new.seen = None /\ new.plan = None /\ new.alone = none
        /\ new \in Handler
    <3>1. none \in BOOLEAN
      BY DEF none
    <3> QED BY <3>1, NewHandler DEF Handler
  <2> HIDE DEF new
  <2>3. v3'[r] = new /\ \A q \in Reloads \ {r} :
          /\ v3'[q] \in Handler
          /\ v3'[q].next = v3[q].next /\ v3'[q].seen = v3[q].seen /\ v3'[q].alone = FALSE
    <3>1. \A q \in Reloads : v3[q] \in Handler
      BY <1>1
    <3>2. \A q \in Reloads \ {r} : v3'[q] = [v3[q] EXCEPT !.alone = FALSE]
      BY <2>1
    <3>3. v3'[r] = new
      BY <2>1
    <3> QED BY <3>1, <3>2, <3>3
  <2>4. v3' \in [Reloads -> Handler]
    BY <2>1, <2>2, <2>3
  <2>5. v3'[r].alone => {q \in Reloads : v3'[q].next # 0} = {r}
    BY <2>2, <2>3 DEF none
  <2>6. \A q \in Reloads : v3'[q].seen # None => v3'[q].next \in 1..3
    BY <1>1, <2>2, <2>3
  <2>7. \A q \in Reloads : v3'[q].alone => q = r
    BY <2>3
  <2>8. v3'[r].seen = None /\ v3'[r].next = 1
    BY <2>2, <2>3
  <2>9. v1' \in Nat /\ v2' \in [1..3 -> Nat] /\ v6' = FALSE
    BY <1>1, <2>1
  <2>10. ASSUME NEW q \in Reloads, v3'[q].alone
         PROVE  /\ {p \in Reloads : v3'[p].next # 0} = {q} /\ v3'[q].seen \in {None, v1'}
                /\ \A i \in 1..3 : i < v3'[q].next => v2'[i] = v1'
                /\ v3'[q].next = 4 => v3'[q].plan = v1'
    BY <2>5, <2>7, <2>8, <2>10
  <2> QED BY <2>4, <2>6, <2>9, <2>10
<1>5. ASSUME NEW r \in Reloads, DR!Read(r) PROVE DR!Inv'
  BY <1>1, <1>2, <1>5, NoneAssumption DEF DR!Read, DR!LoneReloadIsServed, DR!LoneReloadIsTold
<1>6. ASSUME NEW r \in Reloads, DR!Assign(r) PROVE DR!Inv'
  BY <1>1, <1>2, <1>6, NoneAssumption
     DEF DR!Assign, DR!Assigned, DR!createDevDiagnostics
<1>7. ASSUME NEW r \in Reloads, DR!Tell(r) PROVE DR!Inv'
  BY <1>1, <1>2, <1>7, NoneAssumption
     DEF DR!Tell, DR!Idle, DR!LoneReloadIsServed, DR!LoneReloadIsTold
<1> QED BY <1>1, <1>3, <1>4, <1>5, <1>6, <1>7 DEF DR!Next

LEMMA ReloadAlways == Spec => []ReloadInv
BY ReloadInit, ReloadNext, PTL DEF Spec

LEMMA ReloadSays == ReloadInv => DR_LoneReloadIsServed /\ DR_LoneReloadIsTold
BY DEF ReloadInv, DR!Inv, DR_LoneReloadIsServed, DR_LoneReloadIsTold, DR!LoneReloadIsServed, DR!LoneReloadIsTold
-----------------------------------------------------------------------------
(* The walk of a refresh.                                                  *)
RefreshInv == which = "refresh" => FR!Inv
refreshing == <<v1, v2, v3, v4, v5, v6, v7, v8, v9>>

LEMMA RefreshSteps ==
  ASSUME [Next]_all, which' = "refresh"
  PROVE  which = "refresh" /\ [FR!Next]_refreshing
BY DEF Next, all, shared, refreshing

LEMMA GraphFacts ==
  ASSUME v1 \in Graphs
  PROVE  /\ IsFiniteSet(FR!Files) /\ Changed \in FR!Files
         /\ v1.kind \in [FR!Files -> {"plain", "boundary", "root", "absent"}]
         /\ v1.importedBy \in [FR!Files -> Seq(FR!Files)]
         /\ \A f \in FR!Files : FR!Importers(f) = Items(v1.importedBy[f]) /\ FR!Importers(f) \subseteq FR!Files
<1>1. /\ IsFiniteSet(FR!Files) /\ Changed \in FR!Files
      /\ v1.kind \in [FR!Files -> {"plain", "boundary", "root", "absent"}]
      /\ v1.importedBy \in [FR!Files -> Seq(FR!Files)]
  BY GraphAssumption DEF FR!Files
<1>2. ASSUME NEW f \in FR!Files
      PROVE  FR!Importers(f) = Items(v1.importedBy[f]) /\ FR!Importers(f) \subseteq FR!Files
  <2>1. v1.importedBy[f] \in Seq(FR!Files)
    BY <1>1
  <2> QED BY <2>1, LenProperties, ElementOfSeq DEF FR!Importers, Items
<1> QED BY <1>1, <1>2

\* The files of the next level import a plain one of this.
Above(set) == UNION {FR!Importers(f) : f \in {g \in set : v1.kind[g] = "plain"}}

\* Level is the function its equation describes: the ends of the paths of that length do it.
LEMMA LevelSteps ==
  ASSUME v1 \in Graphs
  PROVE  FR!Level[0] = {Changed} /\ \A n \in Nat : FR!Level[n + 1] = Above(FR!Level[n])
<1> DEFINE F == FR!Files
           Eq(l) == l = [n \in Nat |-> IF n = 0 THEN {Changed}
                                       ELSE UNION {FR!Importers(f) : f \in {g \in l[n - 1] : v1.kind[g] = "plain"}}]
           Goes(p, n) == /\ p \in [0 .. n -> F] /\ p[0] = Changed
                         /\ \A i \in 1 .. n : v1.kind[p[i - 1]] = "plain" /\ p[i] \in FR!Importers(p[i - 1])
           Ends(n) == {f \in F : \E p \in [0 .. n -> F] : Goes(p, n) /\ p[n] = f}
           ends == [n \in Nat |-> Ends(n)]
<1>1. Changed \in F /\ \A f \in F : FR!Importers(f) \subseteq F
  BY GraphFacts
<1> HIDE DEF F
<1>2. ends[0] = {Changed}
  <2>1. Goes([i \in 0 .. 0 |-> Changed], 0) /\ [i \in 0 .. 0 |-> Changed] \in [0 .. 0 -> F]
    BY <1>1
  <2>2. Changed \in ends[0]
    BY <1>1, <2>1
  <2>3. \A f \in ends[0] : f = Changed
    OBVIOUS
  <2> QED BY <2>2, <2>3
<1>3. ASSUME NEW n \in Nat PROVE ends[n + 1] = Above(ends[n])
  <2>1. ASSUME NEW f \in ends[n + 1] PROVE f \in Above(ends[n])
    <3>1. PICK p \in [0 .. n + 1 -> F] : Goes(p, n + 1) /\ p[n + 1] = f
      BY <2>1
    <3> DEFINE q == [i \in 0 .. n |-> p[i]]
    <3>2. q \in [0 .. n -> F] /\ q[0] = Changed /\ q[n] = p[n]
      BY <3>1
    <3>3. \A i \in 1 .. n : v1.kind[q[i - 1]] = "plain" /\ q[i] \in FR!Importers(q[i - 1])
      BY <3>1
    <3>4. p[n] \in ends[n]
      <4> HIDE DEF q
      <4>1. Goes(q, n) /\ q \in [0 .. n -> F] /\ q[n] \in F
        BY <3>2, <3>3
      <4>2. q[n] \in Ends(n)
        BY <4>1
      <4> QED BY <3>2, <4>2
    <3>5. v1.kind[p[n]] = "plain" /\ f \in FR!Importers(p[n])
      <4>1. n + 1 \in 1 .. n + 1 /\ (n + 1) - 1 = n
        OBVIOUS
      <4> QED BY <3>1, <4>1
    <3> QED BY <3>4, <3>5 DEF Above
  <2>2. ASSUME NEW f \in Above(ends[n]) PROVE f \in ends[n + 1]
    <3>1. PICK g \in ends[n] : v1.kind[g] = "plain" /\ f \in FR!Importers(g)
      BY <2>2 DEF Above
    <3>2. PICK p \in [0 .. n -> F] : Goes(p, n) /\ p[n] = g
      BY <3>1
    <3>3. g \in F /\ f \in F
      BY <1>1, <3>1
    <3> DEFINE q == [i \in 0 .. n + 1 |-> IF i = n + 1 THEN f ELSE p[i]]
    <3>4. q \in [0 .. n + 1 -> F] /\ q[0] = Changed /\ q[n + 1] = f
      BY <3>2, <3>3
    <3>5. ASSUME NEW i \in 1 .. n + 1
          PROVE  v1.kind[q[i - 1]] = "plain" /\ q[i] \in FR!Importers(q[i - 1])
      <4>1. CASE i = n + 1
        BY <3>1, <3>2, <4>1
      <4>2. CASE i \in 1 .. n
        BY <3>2, <4>2
      <4> QED BY <4>1, <4>2
    <3> HIDE DEF q
    <3>6. Goes(q, n + 1)
      BY <3>4, <3>5
    <3>7. f \in Ends(n + 1)
      <4> HIDE DEF Goes
      <4> QED BY <3>3, <3>4, <3>6
    <3> QED BY <3>7
  <2> QED BY <2>1, <2>2
<1> HIDE DEF ends
<1>4. Eq(ends)
  <2>1. ends = [n \in Nat |-> ends[n]]
    BY DEF ends
  <2>2. ASSUME NEW n \in Nat
        PROVE  ends[n] = IF n = 0 THEN {Changed}
                         ELSE UNION {FR!Importers(f) : f \in {g \in ends[n - 1] : v1.kind[g] = "plain"}}
    <3>1. CASE n = 0
      BY <1>2, <3>1
    <3>2. CASE n # 0
      <4>1. n - 1 \in Nat /\ (n - 1) + 1 = n
        BY <3>2
      <4> QED BY <1>3, <3>2, <4>1 DEF Above
    <3> QED BY <3>1, <3>2
  <2> QED BY <2>1, <2>2
<1>5. FR!Level = CHOOSE l : Eq(l)
  BY DEF FR!Level
<1>6. Eq(FR!Level)
  BY <1>4, <1>5
<1>7. FR!Level[0] = {Changed}
  BY <1>6
<1>8. ASSUME NEW n \in Nat PROVE FR!Level[n + 1] = Above(FR!Level[n])
  <2>1. FR!Level[n + 1] = UNION {FR!Importers(f) : f \in {g \in FR!Level[(n + 1) - 1] : v1.kind[g] = "plain"}}
    BY <1>6
  <2>2. (n + 1) - 1 = n
    OBVIOUS
  <2> QED BY <2>1, <2>2 DEF Above
<1> QED BY <1>7, <1>8

LEMMA LevelStays == ASSUME v1' = v1 PROVE FR!Level' = FR!Level
BY DEF FR!Level, FR!Importers
\* The parts of the walk's invariant, with the sets that the steps below look at.
LEMMA WalkFacts ==
  ASSUME v1 \in Graphs, FR!WalkInv
  PROVE  /\ v3.queue \in Seq(FR!Files) /\ v3.rest \in Seq(FR!Files) /\ v3.seen \in SUBSET FR!Files
         /\ v3 = [queue |-> v3.queue, seen |-> v3.seen, rest |-> v3.rest]
         /\ IsFiniteSet(v3.seen) /\ Cardinality(v3.seen) \in Nat
         /\ FR!Coming = v3.seen \cup Items(v3.queue) \cup Items(v3.rest)
         /\ Len(v3.queue) \in Nat /\ Items(v3.queue) = {v3.queue[i] : i \in 1 .. Len(v3.queue)}
<1>1. v3 \in [queue : Seq(FR!Files), seen : SUBSET FR!Files, rest : Seq(FR!Files)]
  BY DEF FR!WalkInv
<1>2. v3.queue \in Seq(FR!Files) /\ v3.rest \in Seq(FR!Files) /\ v3.seen \in SUBSET FR!Files
  BY <1>1
<1>3. IsFiniteSet(v3.seen) /\ Cardinality(v3.seen) \in Nat
  BY <1>2, GraphFacts, FS_Subset, FS_CardinalityType
<1>4. FR!Coming = v3.seen \cup Items(v3.queue) \cup Items(v3.rest)
  BY DEF FR!Coming, FR!Members, Items
<1>5. Len(v3.queue) \in Nat /\ Items(v3.queue) = {v3.queue[i] : i \in 1 .. Len(v3.queue)}
  BY <1>2, LenProperties DEF Items
<1> QED BY <1>1, <1>2, <1>3, <1>4, <1>5

\* Where the queue is divided, with Cardinality for the instance's.
Splits(level, queue, seen, rest, d, k) ==
  LET next == {queue[i] : i \in k + 1 .. Len(queue)} \cup Items(rest)
  IN  /\ \A i \in 1 .. k : queue[i] \in level[d]
      /\ next \subseteq level[d + 1] /\ (next # {} => d < Cardinality(seen))
      /\ \A m \in 0 .. d : m < d => level[m] \subseteq seen
      /\ level[d] \subseteq seen \cup {queue[i] : i \in 1 .. k}

LEMMA OrderedSplits ==
  ASSUME NEW d, NEW k
  PROVE  FR!Ordered(d, k) <=> Splits(FR!Level, v3.queue, v3.seen, v3.rest, d, k)
BY SameCardinality DEF FR!Ordered, Splits, FR!Members, Items

\* Between two files the head of the queue may be taken to be of the nearer distance.
LEMMA HeadIsNear ==
  ASSUME v1 \in Graphs, FR!WalkInv, v3.rest = <<>>, v3.queue # <<>>
  PROVE  \E d \in 0 .. Cardinality(v3.seen), k \in 1 .. Len(v3.queue) :
           Splits(FR!Level, v3.queue, v3.seen, v3.rest, d, k)
<1> DEFINE queue == v3.queue
           seen == v3.seen
           C == Cardinality(seen)
<1>1. PICK d \in 0 .. C, k \in 0 .. Len(queue) : Splits(FR!Level, queue, seen, v3.rest, d, k)
  BY SameCardinality, OrderedSplits DEF FR!WalkInv
<1>2. /\ Len(queue) \in Nat \ {0} /\ C \in Nat /\ Items(v3.rest) = {}
      /\ FR!Coming = seen \cup {queue[i] : i \in 1 .. Len(queue)}
      /\ \A i \in 1 .. Len(queue) : queue[i] \in Items(queue)
  <2>1. Len(queue) \in Nat \ {0}
    BY WalkFacts, ItemsOfTail
  <2>2. Items(v3.rest) = {}
    BY DEF Items
  <2> QED BY <2>1, <2>2, WalkFacts
<1> HIDE DEF queue, seen, C
<1>3. CASE k > 0
  BY <1>1, <1>2, <1>3 DEF queue, seen, C
<1>4. CASE k = 0
  <2> DEFINE N == Len(queue)
             next == {queue[i] : i \in k + 1 .. N} \cup Items(v3.rest)
  <2>1. next = {queue[i] : i \in 1 .. N} /\ queue[1] \in next
    BY <1>2, <1>4
  <2>2. next \subseteq FR!Level[d + 1] /\ d < C /\ FR!Level[d] \subseteq seen
    <3>1. /\ {queue[i] : i \in k + 1 .. Len(queue)} \cup Items(v3.rest) = next
          /\ next \subseteq FR!Level[d + 1] /\ (next # {} => d < C)
          /\ FR!Level[d] \subseteq seen \cup {queue[i] : i \in 1 .. k}
      BY <1>1 DEF Splits, C
    <3>2. {queue[i] : i \in 1 .. k} = {}
      BY <1>4
    <3> HIDE DEF next
    <3> QED BY <2>1, <3>1, <3>2
  <2>3. \A m \in 0 .. d + 1 : m < d + 1 => FR!Level[m] \subseteq seen
    BY <1>1, <2>2 DEF Splits
  <2>4. FR!Level[d + 1] \subseteq seen \cup {queue[i] : i \in 1 .. N}
    <3>1. FR!Level[d + 1] = Above(FR!Level[d])
      <4>1. d \in Nat
        BY <1>2
      <4>2. \A n \in Nat : FR!Level[n + 1] = Above(FR!Level[n])
        BY LevelSteps
      <4> HIDE DEF C
      <4> QED BY <4>1, <4>2
    <3>2. \A f \in seen : v1.kind[f] = "plain" => FR!Importers(f) \subseteq FR!Coming
      BY DEF FR!WalkInv, seen
    <3> QED BY <1>2, <2>2, <3>1, <3>2 DEF Above
  <2>5. {queue[i] : i \in N + 1 .. N} \cup Items(v3.rest) = {}
    BY <1>2
  <2>6. \A i \in 1 .. N : queue[i] \in FR!Level[d + 1]
    BY <2>1, <2>2
  <2>7. Splits(FR!Level, queue, seen, v3.rest, d + 1, N)
    BY <2>3, <2>4, <2>5, <2>6 DEF Splits
  <2>8. d + 1 \in 0 .. C /\ N \in 1 .. N
    BY <1>2, <2>2
  <2> QED BY <2>7, <2>8 DEF queue, seen, C
<1> QED BY <1>1, <1>3, <1>4, <1>2

\* The head leaves the queue: it is seen, and what imports it is a level farther.
LEMMA HeadIsSeen ==
  ASSUME v1 \in Graphs, FR!WalkInv, v3.rest = <<>>, v3.queue # <<>>, v1' = v1,
         NEW rest \in Seq(FR!Files),
         v3' = [queue |-> Tail(v3.queue), seen |-> v3.seen \cup {Head(v3.queue)}, rest |-> rest],
         \/ rest = <<>> /\ (Head(v3.queue) \in v3.seen \/ v1.kind[Head(v3.queue)] = "absent")
         \/ /\ Head(v3.queue) \notin v3.seen /\ v1.kind[Head(v3.queue)] = "plain"
            /\ rest = v1.importedBy[Head(v3.queue)]
  PROVE  FR!WalkInv'
<1> DEFINE queue == v3.queue
           f == Head(queue)
           tail == Tail(queue)
           seen == v3.seen
           N == Len(queue)
           C == Cardinality(seen)
           seen2 == seen \cup {f}
           C2 == Cardinality(seen2)
<1>1. /\ v3'.queue = tail /\ v3'.seen = seen2 /\ v3'.rest = rest
      /\ FR!Files' = FR!Files /\ FR!Level' = FR!Level /\ \A g : (FR!Importers(g))' = FR!Importers(g)
  BY LevelStays DEF FR!Files, FR!Importers
<1>2. /\ N \in Nat \ {0} /\ f \in FR!Files /\ f = queue[1] /\ tail \in Seq(FR!Files) /\ Len(tail) = N - 1
      /\ \A i \in 1 .. N - 1 : tail[i] = queue[i + 1]
      /\ Items(queue) = {f} \cup Items(tail)
  BY WalkFacts, ItemsOfTail
<1>3. /\ seen \in SUBSET FR!Files /\ IsFiniteSet(seen) /\ C \in Nat /\ FR!Coming = seen \cup Items(queue)
      /\ v1.kind \in [FR!Files -> {"plain", "boundary", "root", "absent"}]
      /\ \A g \in FR!Files : FR!Importers(g) = Items(v1.importedBy[g])
  <2>1. Items(<<>>) = {}
    BY DEF Items
  <2> QED BY <2>1, WalkFacts, GraphFacts
<1>4. C2 \in Nat /\ C <= C2 /\ (f \notin seen => C2 = C + 1)
  <2>1. CASE f \in seen
    <3>1. seen2 = seen
      BY <2>1
    <3>2. C2 = C /\ C \in Nat
      BY <1>3, <3>1
    <3> QED BY <2>1, <3>2
  <2>2. CASE f \notin seen
    <3>1. Cardinality(seen \cup {f}) = Cardinality(seen) + 1
      BY <1>3, <2>2, FS_AddElement
    <3> QED BY <1>3, <3>1
  <2> QED BY <2>1, <2>2
<1>5. (FR!Coming)' = seen2 \cup Items(tail) \cup Items(rest)
  BY <1>1 DEF FR!Coming, FR!Members, Items
<1>6. FR!Coming \subseteq (FR!Coming)' /\ Items(rest) \subseteq (FR!Coming)'
  BY <1>2, <1>3, <1>5
<1>7. PICK d \in 0 .. C, k \in 1 .. N : Splits(FR!Level, queue, seen, v3.rest, d, k)
  BY HeadIsNear
<1> HIDE DEF queue, f, tail, seen, N, C, seen2, C2
<1>8. v3' \in [queue : Seq(FR!Files), seen : SUBSET FR!Files, rest : Seq(FR!Files)]
  BY <1>2, <1>3 DEF queue, f, tail, seen
<1>9. \A g \in seen2 : v1.kind[g] \in {"plain", "absent"}
  <2>1. \A g \in seen : v1.kind[g] \in {"plain", "absent"}
    BY DEF FR!WalkInv, seen
  <2> QED BY <2>1 DEF seen2, f, queue, seen
<1>10. Changed \in (FR!Coming)'
  BY <1>6 DEF FR!WalkInv
<1>11. ASSUME NEW g \in seen2, v1.kind[g] = "plain" PROVE FR!Importers(g) \subseteq (FR!Coming)'
  <2>1. CASE g \in seen
    <3>1. FR!Importers(g) \subseteq FR!Coming
      BY <1>11, <2>1 DEF FR!WalkInv, seen
    <3> QED BY <1>6, <3>1
  <2>2. CASE g \notin seen
    <3>1. g = f /\ rest = v1.importedBy[f]
      BY <1>11, <2>2 DEF seen2, f, queue, seen
    <3> QED BY <1>2, <1>3, <1>6, <3>1
  <2> QED BY <2>1, <2>2
<1>12. Splits(FR!Level, tail, seen2, rest, d, k - 1)
  <2> DEFINE next == {queue[i] : i \in k + 1 .. N} \cup Items(v3.rest)
             next2 == {tail[i] : i \in (k - 1) + 1 .. Len(tail)} \cup Items(rest)
  <2>1. /\ \A i \in 1 .. k : queue[i] \in FR!Level[d]
        /\ next \subseteq FR!Level[d + 1] /\ (next # {} => d < C)
        /\ \A m \in 0 .. d : m < d => FR!Level[m] \subseteq seen
        /\ FR!Level[d] \subseteq seen \cup {queue[i] : i \in 1 .. k}
    BY <1>7 DEF Splits, N, C
  <2>2. \A i \in 1 .. k - 1 : tail[i] \in FR!Level[d]
    <3> SUFFICES ASSUME NEW i \in 1 .. k - 1 PROVE tail[i] \in FR!Level[d]
      OBVIOUS
    <3>1. i \in 1 .. N - 1 /\ i + 1 \in 1 .. k
      BY <1>2
    <3> QED BY <1>2, <2>1, <3>1
  <2>3. {tail[i] : i \in (k - 1) + 1 .. Len(tail)} \subseteq next
    <3> SUFFICES ASSUME NEW i \in (k - 1) + 1 .. Len(tail) PROVE tail[i] \in next
      OBVIOUS
    <3>1. i \in 1 .. N - 1 /\ i + 1 \in k + 1 .. N
      BY <1>2
    <3> QED BY <1>2, <3>1
  <2>4. f \in FR!Level[d]
    BY <1>2, <1>7, <2>1
  <2>5. Items(rest) # {} => f \notin seen /\ v1.kind[f] = "plain" /\ Items(rest) = FR!Importers(f)
    <3>1. Items(<<>>) = {}
      BY DEF Items
    <3> QED BY <1>2, <1>3, <3>1 DEF f, queue, seen
  <2>6. Items(rest) \subseteq FR!Level[d + 1]
    <3>1. FR!Level[d + 1] = Above(FR!Level[d])
      BY <1>3, LevelSteps
    <3> QED BY <2>4, <2>5, <3>1 DEF Above
  <2>7. next2 # {} => d < C2
    <3>1. next # {} => d < C2
      <4>1. C \in Nat /\ C2 \in Nat /\ C <= C2 /\ d \in Nat
        BY <1>3, <1>4
      <4>2. next # {} => d < C
        BY <2>1
      <4> HIDE DEF next
      <4> QED BY <4>1, <4>2
    <3>2. Items(rest) # {} => d < C2
      BY <1>3, <1>4, <2>5
    <3> HIDE DEF next
    <3> QED BY <2>3, <3>1, <3>2
  <2>8. \A m \in 0 .. d : m < d => FR!Level[m] \subseteq seen2
    BY <2>1 DEF seen2
  <2>9. FR!Level[d] \subseteq seen2 \cup {tail[i] : i \in 1 .. k - 1}
    <3> SUFFICES ASSUME NEW g \in FR!Level[d], g \notin seen2 PROVE g \in {tail[i] : i \in 1 .. k - 1}
      OBVIOUS
    <3>1. PICK i \in 1 .. k : g = queue[i]
      BY <2>1 DEF seen2
    <3>2. i # 1
      BY <1>2, <3>1 DEF seen2
    <3>3. i - 1 \in 1 .. k - 1 /\ i - 1 \in 1 .. N - 1 /\ (i - 1) + 1 = i
      BY <1>2, <3>2
    <3> QED BY <1>2, <3>1, <3>3
  <2> QED BY <2>1, <2>2, <2>3, <2>6, <2>7, <2>8, <2>9 DEF Splits, C2
<1>13. d \in 0 .. C2 /\ k - 1 \in 0 .. Len(tail)
  BY <1>2, <1>3, <1>4
<1>14. \E e \in 0 .. FR!Cardinality(seen2), l \in 0 .. Len(tail) : (FR!Ordered(e, l))'
  <2>1. (FR!Ordered(d, k - 1))' <=> Splits(FR!Level, tail, seen2, rest, d, k - 1)
    <3>1. (FR!Ordered(d, k - 1))' <=> Splits(FR!Level', v3'.queue, v3'.seen, v3'.rest, d, k - 1)
      BY SameCardinality DEF FR!Ordered, Splits, FR!Members, Items
    <3> QED BY <1>1, <3>1 DEF tail, seen2, queue, f, seen
  <2> QED BY <1>12, <1>13, <2>1, SameCardinality DEF C2
<1> QED BY <1>1, <1>8, <1>9, <1>10, <1>11, <1>14 DEF FR!WalkInv, tail, seen2, queue, f, seen
\* An importer joins the queue, or it was seen; the others are left.
LEMMA ImporterJoins ==
  ASSUME v1 \in Graphs, FR!WalkInv, FR!Importer
  PROVE  FR!WalkInv'
<1> DEFINE queue == v3.queue
           seen == v3.seen
           g == Head(v3.rest)
           rest == Tail(v3.rest)
           queue2 == IF g \in seen THEN queue ELSE Append(queue, g)
           N == Len(queue)
<1>1. v1' = v1 /\ v3.rest # <<>>
  BY DEF FR!Importer, FR!OnlyWalks
<1>2. v3' = [queue |-> queue2, seen |-> seen, rest |-> rest]
  <2>1. v3' = [v3 EXCEPT !.rest = rest, !.queue = queue2]
    BY DEF FR!Importer, FR!Enqueued
  <2>2. v3 = [queue |-> v3.queue, seen |-> v3.seen, rest |-> v3.rest]
    BY WalkFacts
  <2> HIDE DEF queue2, rest
  <2> QED BY <2>1, <2>2
<1>3. /\ v3'.queue = queue2 /\ v3'.seen = seen /\ v3'.rest = rest
      /\ FR!Files' = FR!Files /\ FR!Level' = FR!Level /\ \A f : (FR!Importers(f))' = FR!Importers(f)
  <2>1. v3'.queue = queue2 /\ v3'.seen = seen /\ v3'.rest = rest
    BY <1>2
  <2> QED BY <1>1, <2>1, LevelStays DEF FR!Files, FR!Importers
<1>4. /\ g \in FR!Files /\ rest \in Seq(FR!Files) /\ Items(v3.rest) = {g} \cup Items(rest)
  BY <1>1, WalkFacts, ItemsOfTail
<1>5. /\ queue \in Seq(FR!Files) /\ seen \in SUBSET FR!Files /\ N \in Nat
      /\ FR!Coming = seen \cup Items(queue) \cup Items(v3.rest)
      /\ Items(queue) = {queue[i] : i \in 1 .. N}
  BY WalkFacts
<1>6. /\ queue2 \in Seq(FR!Files) /\ Len(queue2) \in N .. N + 1 /\ \A i \in 1 .. N : queue2[i] = queue[i]
      /\ Len(queue2) = N + 1 => queue2[N + 1] = g
      /\ Items(queue2) = IF g \in seen THEN Items(queue) ELSE Items(queue) \cup {g}
  <2>1. CASE g \in seen
    BY <1>5, <2>1
  <2>2. CASE g \notin seen
    BY <1>4, <1>5, <2>2, ItemsOfAppend
  <2> QED BY <2>1, <2>2
<1> HIDE DEF queue, seen, g, rest, queue2, N
<1>7. (FR!Coming)' = FR!Coming
  <2>1. (FR!Coming)' = seen \cup Items(queue2) \cup Items(rest)
    BY <1>3 DEF FR!Coming, FR!Members, Items
  <2> QED BY <1>4, <1>5, <1>6, <2>1
<1>8. v3' \in [queue : Seq(FR!Files), seen : SUBSET FR!Files, rest : Seq(FR!Files)]
  BY <1>2, <1>4, <1>5, <1>6
<1>9. PICK d \in 0 .. Cardinality(seen), k \in 0 .. N : Splits(FR!Level, queue, seen, v3.rest, d, k)
  BY SameCardinality, OrderedSplits DEF FR!WalkInv, queue, seen, N
<1>10. Splits(FR!Level, queue2, seen, rest, d, k)
  <2> DEFINE next == {queue[i] : i \in k + 1 .. N} \cup Items(v3.rest)
             next2 == {queue2[i] : i \in k + 1 .. Len(queue2)} \cup Items(rest)
  <2>1. /\ \A i \in 1 .. k : queue[i] \in FR!Level[d]
        /\ next \subseteq FR!Level[d + 1] /\ (next # {} => d < Cardinality(seen))
        /\ \A m \in 0 .. d : m < d => FR!Level[m] \subseteq seen
        /\ FR!Level[d] \subseteq seen \cup {queue[i] : i \in 1 .. k}
    BY <1>9 DEF Splits, N
  <2>2. {queue2[i] : i \in k + 1 .. Len(queue2)} \subseteq next
    <3> SUFFICES ASSUME NEW i \in k + 1 .. Len(queue2) PROVE queue2[i] \in next
      OBVIOUS
    <3>1. CASE i \in 1 .. N
      BY <1>5, <1>6, <3>1
    <3>2. CASE i = N + 1
      BY <1>4, <1>5, <1>6, <3>2
    <3> QED BY <1>5, <1>6, <3>1, <3>2
  <2>3. next2 \subseteq next
    BY <1>4, <2>2
  <2>4. \A i \in 1 .. k : queue2[i] = queue[i]
    BY <1>5, <1>6
  <2>5. \A i \in 1 .. k : queue2[i] \in FR!Level[d]
    BY <2>1, <2>4
  <2>6. {queue2[i] : i \in 1 .. k} = {queue[i] : i \in 1 .. k}
    BY <2>4
  <2>7. next2 \subseteq FR!Level[d + 1] /\ (next2 # {} => d < Cardinality(seen))
    <3> HIDE DEF next, next2
    <3> QED BY <2>1, <2>3
  <2> QED BY <2>1, <2>5, <2>6, <2>7 DEF Splits
<1>11. k \in 0 .. Len(queue2)
  BY <1>5, <1>6
<1>12. \E e \in 0 .. FR!Cardinality(seen), l \in 0 .. Len(queue2) : (FR!Ordered(e, l))'
  <2>1. (FR!Ordered(d, k))' <=> Splits(FR!Level', v3'.queue, v3'.seen, v3'.rest, d, k)
    BY SameCardinality DEF FR!Ordered, Splits, FR!Members, Items
  <2> QED BY <1>3, <1>9, <1>10, <1>11, <2>1, SameCardinality
<1>13. /\ \A f \in seen : v1.kind[f] \in {"plain", "absent"}
       /\ Changed \in FR!Coming
       /\ \A f \in seen : v1.kind[f] = "plain" => FR!Importers(f) \subseteq FR!Coming
  BY DEF FR!WalkInv, seen
<1> QED BY <1>1, <1>3, <1>7, <1>8, <1>12, <1>13 DEF FR!WalkInv

\* What the walk decides is the nearest.
LEMMA WalkDecides ==
  ASSUME v1 \in Graphs, FR!WalkInv, FR!Begin
  PROVE  FR!NearestBoundary'
<1> DEFINE C == Cardinality(v3.seen)
           levels == 0 .. FR!Cardinality(FR!Files)
           near == {n \in levels : FR!Stops(n) # {} /\ \A m \in levels : m < n => FR!Stops(m) = {}}
<1>1. /\ v1' = v1 /\ v4' = FR!detectMinimalBoundary /\ v3.rest = <<>>
      /\ v3.queue = <<>> \/ (FR!New /\ v1.kind[FR!File] \in {"boundary", "root"})
  BY DEF FR!Begin, FR!Between
<1>2. /\ FR!Files' = FR!Files /\ \A n : (FR!Stops(n))' = FR!Stops(n)
  BY <1>1, LevelStays DEF FR!Files, FR!Stops
<1>3. /\ v3.seen \in SUBSET FR!Files /\ IsFiniteSet(FR!Files) /\ C \in Nat
      /\ \A f \in v3.seen : v1.kind[f] \notin {"boundary", "root"}
  BY WalkFacts, GraphFacts DEF FR!WalkInv
<1>4. C <= Cardinality(FR!Files) /\ Cardinality(FR!Files) \in Nat
  BY <1>3, FS_Subset, FS_CardinalityType
<1>5. levels \subseteq Nat /\ 0 .. C \subseteq levels
  BY <1>3, <1>4, SameCardinality
<1>6. ASSUME NEW n, FR!Level[n] \subseteq v3.seen PROVE FR!Stops(n) = {}
  BY <1>3, <1>6 DEF FR!Stops
<1> HIDE DEF C, levels
<1>7. SUFFICES IF near = {} THEN v4'.full
               ELSE \A n \in near :
                      IF v4'.full THEN \E f \in FR!Stops(n) : v1.kind[f] = "root"
                      ELSE v4'.id \in FR!Stops(n) /\ v1.kind[v4'.id] = "boundary"
  BY <1>1, <1>2, Zenon DEF FR!NearestBoundary, levels
\* Nothing is left to visit: every level has been seen.
<1>8. CASE v3.queue = <<>>
  <2>1. FR!Coming = v3.seen
    BY <1>1, <1>8 DEF FR!Coming, FR!Members
  <2>2. Changed \in v3.seen /\ \A f \in v3.seen : v1.kind[f] = "plain" => FR!Importers(f) \subseteq v3.seen
    BY <2>1 DEF FR!WalkInv
  <2> DEFINE T == {n \in Nat : ~(FR!Level[n] \subseteq v3.seen)}
  <2>3. T = {}
    <3> SUFFICES ASSUME T # {} PROVE FALSE
      OBVIOUS
    <3>1. PICK n \in T : \A m \in T : n <= m
      BY LeastNumber
    <3>2. n # 0
      BY <2>2, LevelSteps
    <3>3. n - 1 \in Nat /\ (n - 1) + 1 = n /\ n - 1 \notin T
      BY <3>1, <3>2
    <3>4. FR!Level[n - 1] \subseteq v3.seen
      BY <3>3
    <3>5. FR!Level[n] = Above(FR!Level[n - 1])
      BY <3>3, LevelSteps
    <3> QED BY <2>2, <3>4, <3>5 DEF Above
  <2>4. near = {}
    BY <1>5, <1>6, <2>3
  <2>5. v4'.full
    BY <1>1, <1>8 DEF FR!detectMinimalBoundary, FR!Reload
  <2> QED BY <2>4, <2>5
\* The head of the queue is on a level below which all has been seen.
<1>9. CASE v3.queue # <<>>
  <2> DEFINE f == Head(v3.queue)
  <2>1. v1.kind[f] \in {"boundary", "root"}
    BY <1>1, <1>9 DEF FR!File
  <2>2. PICK d \in 0 .. C, k \in 1 .. Len(v3.queue) : Splits(FR!Level, v3.queue, v3.seen, v3.rest, d, k)
    BY <1>1, <1>9, HeadIsNear DEF C
  <2>3. f \in FR!Level[d]
    <3>1. Len(v3.queue) \in Nat \ {0} /\ f = v3.queue[1]
      BY <1>9, WalkFacts, ItemsOfTail
    <3>2. 1 \in 1 .. k
      BY <3>1
    <3> QED BY <2>2, <3>1, <3>2 DEF Splits
  <2>4. f \in FR!Stops(d)
    BY <2>1, <2>3 DEF FR!Stops
  <2>5. \A m \in 0 .. d : m < d => FR!Stops(m) = {}
    BY <1>6, <2>2 DEF Splits
  <2>6. d \in levels /\ d \in Nat
    BY <1>3, <1>5
  <2>7. \A n \in near : n = d
    <3> SUFFICES ASSUME NEW n \in near, n # d PROVE FALSE
      OBVIOUS
    <3>1. n \in Nat /\ n \in levels
      BY <1>5
    <3>2. CASE n < d
      BY <2>5, <2>6, <3>1, <3>2
    <3>3. CASE d < n
      BY <2>4, <2>6, <3>3
    <3> QED BY <2>6, <3>1, <3>2, <3>3
  <2>8. d \in near
    <3>1. \A m \in levels : m < d => m \in 0 .. d
      BY <1>5, <2>6
    <3> QED BY <2>4, <2>5, <2>6, <3>1
  <2>9. v4' = IF v1.kind[f] = "boundary" THEN FR!Refresh(f) ELSE FR!Reload
    BY <1>1, <1>9 DEF FR!detectMinimalBoundary, FR!File
  <2> HIDE DEF near
  <2>10. CASE v1.kind[f] = "boundary"
    BY <2>4, <2>7, <2>8, <2>9, <2>10 DEF FR!Refresh
  <2>11. CASE v1.kind[f] = "root"
    BY <2>4, <2>7, <2>8, <2>9, <2>11 DEF FR!Reload
  <2> QED BY <2>1, <2>10, <2>11
<1> QED BY <1>8, <1>9

LEMMA RefreshInit == Init => RefreshInv
<1> SUFFICES ASSUME Init, which = "refresh" PROVE FR!Inv
  BY DEF RefreshInv
<1>1. FR!Init
  BY DEF Init
<1>2. /\ v1 \in Graphs /\ v2 = "walking" /\ v5 \in BOOLEAN /\ v6 = None
      /\ v7 \in [Instances -> States] /\ v8 = v7 /\ v9 = {}
      /\ v3 = [queue |-> <<Changed>>, seen |-> {}, rest |-> <<>>]
  BY <1>1 DEF FR!Init
<1>3. FR!WalkInv
  <2>1. v3.queue = <<Changed>> /\ v3.seen = {} /\ v3.rest = <<>>
    BY <1>2
  <2>2. Changed \in FR!Files /\ Cardinality({}) = 0
    BY <1>2, GraphFacts, FS_EmptySet
  <2>3. v3 \in [queue : Seq(FR!Files), seen : SUBSET FR!Files, rest : Seq(FR!Files)]
    BY <1>2, <2>2
  <2>4. Changed \in FR!Coming
    BY <2>1 DEF FR!Coming, FR!Members
  <2>5. Splits(FR!Level, v3.queue, v3.seen, v3.rest, 0, 1)
    <3>1. FR!Level[0] = {Changed}
      BY <1>2, LevelSteps
    <3>2. {<<Changed>>[i] : i \in 2 .. 1} \cup Items(<<>>) = {}
      BY DEF Items
    <3>3. {<<Changed>>[i] : i \in 1 .. 1} = {Changed} /\ Len(<<Changed>>) = 1 /\ 1 + 1 = 2
      OBVIOUS
    <3>4. \A m \in 0 .. 0 : ~(m < 0)
      OBVIOUS
    <3>5. {<<Changed>>[i] : i \in 1 + 1 .. Len(<<Changed>>)} \cup Items(<<>>) = {}
      BY <3>2, <3>3
    <3>6. \A i \in 1 .. 1 : <<Changed>>[i] \in FR!Level[0]
      BY <3>1
    <3>7. FR!Level[0] \subseteq {} \cup {<<Changed>>[i] : i \in 1 .. 1}
      BY <3>1, <3>3
    <3>8. Splits(FR!Level, <<Changed>>, {}, <<>>, 0, 1)
      BY <3>4, <3>5, <3>6, <3>7 DEF Splits
    <3> QED BY <2>1, <3>8
  <2>6. 0 \in 0 .. FR!Cardinality(v3.seen) /\ 1 \in 0 .. Len(v3.queue)
    BY <2>1, <2>2, SameCardinality
  <2>7. \E d \in 0 .. FR!Cardinality(v3.seen), k \in 0 .. Len(v3.queue) : FR!Ordered(d, k)
    BY <2>5, <2>6, OrderedSplits
  <2> QED BY <2>1, <2>3, <2>4, <2>7 DEF FR!WalkInv
<1> QED BY <1>2, <1>3 DEF FR!Inv, FR!NearestBoundary, FR!UntouchedStateSurvives

\* What was decided stays the nearest while the graph does.
LEMMA DecisionStays ==
  ASSUME FR!NearestBoundary, v2 # "walking", v1' = v1, v4' = v4
  PROVE  FR!NearestBoundary'
<1>1. FR!Files' = FR!Files /\ \A n : (FR!Stops(n))' = FR!Stops(n)
  BY LevelStays DEF FR!Files, FR!Stops
<1> QED BY <1>1, Zenon DEF FR!NearestBoundary

LEMMA RefreshNext == RefreshInv /\ [Next]_all => RefreshInv'
<1> SUFFICES ASSUME RefreshInv, [Next]_all, which' = "refresh" PROVE FR!Inv'
  BY DEF RefreshInv
<1>1. FR!Inv /\ [FR!Next]_refreshing
  BY RefreshSteps DEF RefreshInv
<1> DEFINE Held == \E f \in [Instances -> States] : v6 = <<f>> /\ \A i \in Instances \ v9 : f[i] = v8[i]
<1>2. /\ v1 \in Graphs /\ v7 \in [Instances -> States] /\ v8 \in [Instances -> States]
      /\ v5 \in BOOLEAN /\ (~v5 => v6 = None)
      /\ v2 \in {"walking", "rendering", "applied", "done", "reloaded"}
      /\ v2 = "walking" => FR!WalkInv /\ v7 = v8 /\ v9 = {}
      /\ v2 \in {"rendering", "applied"} /\ v5 => Held
      /\ FR!NearestBoundary /\ FR!UntouchedStateSurvives
  BY <1>1 DEF FR!Inv
<1>3. CASE UNCHANGED refreshing
  <2>1. /\ v1' = v1 /\ v2' = v2 /\ v3' = v3 /\ v4' = v4 /\ v5' = v5 /\ v6' = v6 /\ v7' = v7 /\ v8' = v8 /\ v9' = v9
    BY <1>3 DEF refreshing
  <2>2. CASE v2 = "walking"
    <3>1. FR!Level' = FR!Level
      BY <2>1, LevelStays
    <3>2. /\ FR!Coming' = FR!Coming /\ FR!Files' = FR!Files
          /\ \A f : (FR!Importers(f))' = FR!Importers(f)
      BY <2>1 DEF FR!Coming, FR!Members, FR!Files, FR!Importers
    <3>3. \A d, k : (FR!Ordered(d, k))' <=> FR!Ordered(d, k)
      <4> SUFFICES ASSUME NEW d, NEW k PROVE (FR!Ordered(d, k))' <=> FR!Ordered(d, k)
        OBVIOUS
      <4>1. (FR!Ordered(d, k))' <=> Splits(FR!Level', v3'.queue, v3'.seen, v3'.rest, d, k)
        BY SameCardinality DEF FR!Ordered, Splits, FR!Members, Items
      <4> QED BY <2>1, <3>1, <4>1, OrderedSplits
    <3>4. FR!WalkInv'
      BY <1>2, <2>1, <2>2, <3>2, <3>3 DEF FR!WalkInv
    <3> QED BY <1>2, <2>1, <2>2, <3>4 DEF FR!Inv, FR!NearestBoundary, FR!UntouchedStateSurvives
  <2>3. CASE v2 # "walking"
    <3>1. FR!NearestBoundary'
      BY <1>2, <2>1, <2>3, DecisionStays
    <3> QED BY <1>2, <2>1, <2>3, <3>1 DEF FR!Inv, FR!UntouchedStateSurvives
  <2> QED BY <2>2, <2>3
\* A step of the walk leaves the rest alone.
<1>4. ASSUME v2 = "walking", FR!OnlyWalks, FR!WalkInv' PROVE FR!Inv'
  BY <1>2, <1>4 DEF FR!OnlyWalks, FR!Inv, FR!NearestBoundary, FR!UntouchedStateSurvives
<1>5. CASE FR!Pass
  <2>1. v2 = "walking" /\ v3.rest = <<>> /\ v3.queue # <<>> /\ FR!OnlyWalks
    BY <1>5 DEF FR!Pass, FR!Between
  <2>2. v3' = [queue |-> Tail(v3.queue), seen |-> v3.seen \cup {Head(v3.queue)}, rest |-> <<>>]
    BY <1>5 DEF FR!Pass, FR!Visited, FR!File
  <2>3. Head(v3.queue) \in v3.seen \/ v1.kind[Head(v3.queue)] = "absent"
    BY <1>5 DEF FR!Pass, FR!New, FR!File
  <2>4. <<>> \in Seq(FR!Files) /\ v1' = v1
    BY <2>1 DEF FR!OnlyWalks
  <2>5. FR!WalkInv'
    BY <1>2, <2>1, <2>2, <2>3, <2>4, HeadIsSeen
  <2> QED BY <1>4, <2>1, <2>5
<1>6. CASE FR!Climb
  <2>1. v2 = "walking" /\ v3.rest = <<>> /\ v3.queue # <<>> /\ FR!OnlyWalks
    BY <1>6 DEF FR!Climb, FR!Between, FR!New
  <2> DEFINE rest == v1.importedBy[Head(v3.queue)]
  <2>2. v3' = [queue |-> Tail(v3.queue), seen |-> v3.seen \cup {Head(v3.queue)}, rest |-> rest]
    BY <1>6 DEF FR!Climb, FR!Visited, FR!File
  <2>3. Head(v3.queue) \notin v3.seen /\ v1.kind[Head(v3.queue)] = "plain"
    BY <1>6 DEF FR!Climb, FR!New, FR!File
  <2>4. rest \in Seq(FR!Files) /\ v1' = v1
    <3>1. Head(v3.queue) \in FR!Files
      BY <1>2, <2>1, WalkFacts, ItemsOfTail
    <3> QED BY <1>2, <2>1, <3>1, GraphFacts DEF FR!OnlyWalks
  <2> HIDE DEF rest
  <2>5. FR!WalkInv'
    BY <1>2, <2>1, <2>2, <2>3, <2>4, HeadIsSeen DEF rest
  <2> QED BY <1>4, <2>1, <2>5
<1>7. CASE FR!Importer
  <2>1. v2 = "walking" /\ FR!OnlyWalks
    BY <1>7 DEF FR!Importer
  <2> QED BY <1>2, <1>4, <1>7, <2>1, ImporterJoins
<1>8. CASE FR!Begin
  <2>1. FR!NearestBoundary'
    BY <1>2, <1>8, WalkDecides DEF FR!Begin, FR!Between
  <2>2. /\ v2 = "walking" /\ v2' \in {"reloaded", "rendering"}
        /\ v2' = "rendering" => v6' = IF v5 THEN <<v7>> ELSE None
        /\ v2' = "reloaded" => v6' = v6
        /\ v1' = v1 /\ v5' = v5 /\ v7' = v7 /\ v8' = v8 /\ v9' = v9
    BY <1>8 DEF FR!Begin, FR!Between
  <2> QED BY <1>2, <2>1, <2>2 DEF FR!Inv, FR!UntouchedStateSurvives
\* After the walk the decision stands.
<1>9. ASSUME v2 # "walking", v1' = v1, v4' = v4, v5' = v5, v6' = v6, v8' = v8,
             v2' \in {"rendering", "applied", "done", "reloaded"},
             v7' \in [Instances -> States],
             v2' \in {"rendering", "applied"} /\ v5 => Held',
             FR!UntouchedStateSurvives'
      PROVE  FR!Inv'
  <2>1. FR!NearestBoundary'
    BY <1>2, <1>9, DecisionStays
  <2> QED BY <1>2, <1>9, <2>1 DEF FR!Inv
<1>10. ASSUME NEW i \in Instances, NEW s \in States, FR!Touch(i, s) PROVE FR!Inv'
  <2>1. /\ v2 \in {"rendering", "applied"} /\ v2' = v2 /\ v1' = v1 /\ v4' = v4 /\ v5' = v5 /\ v6' = v6 /\ v8' = v8
        /\ v7' = [v7 EXCEPT ![i] = s] /\ v9' = v9 \cup {i}
    BY <1>10 DEF FR!Touch
  <2>2. v5 => Held'
    BY <1>2, <2>1
  <2> QED BY <1>2, <1>9, <2>1, <2>2 DEF FR!UntouchedStateSurvives
<1>11. CASE FR!Fails
  <2>1. /\ v2 \in {"rendering", "applied"} /\ v2' = "reloaded" /\ v1' = v1 /\ v4' = v4 /\ v5' = v5 /\ v6' = v6
        /\ v8' = v8 /\ v7' = v7
    BY <1>11 DEF FR!Fails
  <2> QED BY <1>2, <1>9, <2>1 DEF FR!UntouchedStateSurvives
<1>12. ASSUME NEW kept \in SUBSET Instances, FR!Apply(kept) PROVE FR!Inv'
  <2>1. /\ v2 = "rendering" /\ v2' = "applied" /\ v1' = v1 /\ v4' = v4 /\ v5' = v5 /\ v6' = v6
        /\ v8' = v8 /\ v9' = v9
        /\ v7' = [i \in Instances |-> IF i \in kept THEN v7[i] ELSE CHOOSE s \in States : TRUE]
    BY <1>12 DEF FR!Apply
  <2>2. v7' \in [Instances -> States]
    BY <1>2, <2>1, GraphAssumption
  <2>3. v5 => Held'
    BY <1>2, <2>1
  <2> QED BY <1>9, <2>1, <2>2, <2>3 DEF FR!UntouchedStateSurvives
<1>13. CASE FR!restoreRefreshBoundaryState
  <2>1. /\ v2 = "applied" /\ v2' = "done" /\ v1' = v1 /\ v4' = v4 /\ v5' = v5 /\ v6' = v6
        /\ v8' = v8 /\ v9' = v9
        /\ v7' = IF v6 = None THEN v7 ELSE [i \in Instances |-> v6[1][i]]
    BY <1>13 DEF FR!restoreRefreshBoundaryState, FR!Preserved
  <2>2. CASE v5
    <3>1. PICK f \in [Instances -> States] : v6 = <<f>> /\ \A i \in Instances \ v9 : f[i] = v8[i]
      BY <1>2, <2>1, <2>2
    <3>2. None # <<f>>
      BY NoneAssumption
    <3>3. v7' = [i \in Instances |-> f[i]]
      BY <2>1, <3>1, <3>2
    <3> QED BY <1>9, <2>1, <3>1, <3>3 DEF FR!UntouchedStateSurvives
  <2>3. CASE ~v5
    BY <1>2, <1>9, <2>1, <2>3 DEF FR!UntouchedStateSurvives
  <2> QED BY <1>2, <2>2, <2>3
<1> QED BY <1>1, <1>3, <1>5, <1>6, <1>7, <1>8, <1>10, <1>11, <1>12, <1>13 DEF FR!Next

LEMMA RefreshAlways == Spec => []RefreshInv
BY RefreshInit, RefreshNext, PTL DEF Spec

LEMMA RefreshSays == RefreshInv => FR_NearestBoundary /\ FR_UntouchedStateSurvives
BY DEF RefreshInv, FR!Inv, FR_NearestBoundary, FR_UntouchedStateSurvives

\* A visit, a refresh or a reload that overlaps no other leaves the browser with one page.
THEOREM BrowserAgrees == Spec => []BrowserIsUpToDate
<1>1. NavigationInv /\ ReloadInv /\ RefreshInv => BrowserIsUpToDate
  BY NavigationSays, ReloadSays, RefreshSays DEF BrowserIsUpToDate
<1> QED BY <1>1, NavigationAlways, ReloadAlways, RefreshAlways, PTL

-----------------------------------------------------------------------------
(* The consistency graph.                                                  *)
GraphInv == which = "graph" => CG!Inv
graphing == <<v1, v2, v3, v4, v5, v6>>

LEMMA GraphSteps ==
  ASSUME [Next]_all, which' = "graph"
  PROVE  which = "graph" /\ [CG!Next]_graphing
BY DEF Next, all, shared, graphing

LEMMA GraphInit == Init => GraphInv
<1> SUFFICES ASSUME Init, which = "graph" PROVE CG!Inv
  BY DEF GraphInv
<1>1. CG!Init
  BY DEF Init
<1>2. \A n \in CG!Nodes : v2[n] = <<>> /\ v3[n] = <<>>
  BY <1>1 DEF CG!Init
<1>3. Items(<<>>) = {}
  BY DEF Items
<1>4. CG!EndsAgree
  BY <1>2, <1>3 DEF CG!EndsAgree, CG!Listed, CG!Members, Items
<1>5. v2 \in [CG!Nodes -> Seq(CG!Nodes)] /\ v3 \in [CG!Nodes -> Seq(CG!Nodes)]
  BY <1>1 DEF CG!Init
<1> QED BY <1>1, <1>2, <1>4, <1>5 DEF CG!Init, CG!Inv, CG!InvalidationIsWhole

\* A list that a node is adjoined to has it besides what it had.
LEMMA Adjoined ==
  ASSUME NEW n \in CG!Nodes, NEW s \in Seq(CG!Nodes)
  PROVE  CG!Adjoin(n, s) \in Seq(CG!Nodes) /\ Items(CG!Adjoin(n, s)) = Items(s) \cup {n}
<1>1. CASE n \in Items(s)
  BY <1>1 DEF CG!Adjoin, CG!Listed, CG!Members, Items
<1>2. CASE n \notin Items(s)
  BY <1>2, ItemsOfAppend DEF CG!Adjoin, CG!Listed, CG!Members, Items
<1> QED BY <1>1, <1>2

\* A list is written with the members it has.
LEMMA SortedHasAll ==
  ASSUME NEW s \in Seq(CG!Nodes)
  PROVE  CG!Sorted(s) \in Seq(CG!Nodes) /\ Items(CG!Sorted(s)) = Items(s)
<1>1. /\ DOMAIN s = 1 .. Len(s) /\ Len(s) \in Nat /\ \A i \in 1 .. Len(s) : s[i] \in CG!Nodes
  BY LenProperties, ElementOfSeq
<1>2. s \in [DOMAIN s -> CG!Members(s)]
  BY <1>1 DEF CG!Members
<1>3. CG!Sorted(s) \in [DOMAIN s -> CG!Members(s)] /\ CG!Members(CG!Sorted(s)) = CG!Members(s)
  BY <1>2 DEF CG!Sorted
<1>4. CG!Members(s) \subseteq CG!Nodes
  BY <1>1 DEF CG!Members
<1>5. CG!Sorted(s) \in [1 .. Len(s) -> CG!Nodes]
  BY <1>1, <1>3, <1>4
<1> QED BY <1>1, <1>3, <1>5, SeqDef DEF CG!Members, Items

\* The walk of an invalidation, field by field.
LEMMA InvalidationFacts ==
  ASSUME CG!WalkInv
  PROVE  /\ v5 = [of |-> v5.of, queue |-> v5.queue, rest |-> v5.rest, affected |-> v5.affected,
                  serverRoutes |-> v5.serverRoutes, clientNodes |-> v5.clientNodes]
         /\ v5.of \in CG!Nodes /\ v5.queue \in Seq(CG!Nodes) /\ v5.rest \in Seq(CG!Nodes)
         /\ v5.affected \in Seq(CG!Nodes) /\ v5.serverRoutes \in Seq(CG!Nodes)
         /\ v5.clientNodes \in Seq(CG!Nodes)
         /\ CG!Reached = Items(v5.affected) \cup Items(v5.queue) \cup Items(v5.rest)
<1>1. v5 \in [of : CG!Nodes, queue : Seq(CG!Nodes), rest : Seq(CG!Nodes), affected : Seq(CG!Nodes),
              serverRoutes : Seq(CG!Nodes), clientNodes : Seq(CG!Nodes)]
  BY DEF CG!WalkInv
<1>2. CG!Reached = Items(v5.affected) \cup Items(v5.queue) \cup Items(v5.rest)
  BY DEF CG!Reached, CG!Members, Items
<1> QED BY <1>1, <1>2

Extends(before, queue, rest, affected) ==
  LET reached == Items(affected) \cup Items(queue) \cup Items(rest)
  IN  /\ before \subseteq reached /\ Items(affected) \subseteq before
      /\ \A n \in Items(affected) : n \in Items(v5.affected) \/ Items(v3[n]) \subseteq reached
      /\ reached \subseteq before \cup UNION {Items(v3[n]) : n \in Items(affected)}
Divides(affected, serverRoutes, clientNodes) ==
  /\ \A i, j \in 1 .. Len(affected) : affected[i] = affected[j] => i = j
  /\ Items(serverRoutes) = Items(affected) \cap Routes
  /\ Items(clientNodes) = Items(affected) \ Routes

LEMMA MembersAreItems == \A s : CG!Members(s) = Items(s)
BY DEF CG!Members, Items

LEMMA NowDivides == ASSUME CG!WalkInv PROVE Divides(v5.affected, v5.serverRoutes, v5.clientNodes)
<1>1. DOMAIN v5.affected = 1 .. Len(v5.affected)
  BY InvalidationFacts, LenProperties
<1> QED BY <1>1, MembersAreItems DEF CG!WalkInv, Divides

\* A step of the walk keeps its invariant when it forgets nothing that is reached, has the
\* dependents of what it visits and goes to nothing else.
LEMMA InvalidationGoesOn ==
  ASSUME CG!WalkInv, v3' = v3,
         NEW queue \in Seq(CG!Nodes), NEW rest \in Seq(CG!Nodes), NEW affected \in Seq(CG!Nodes),
         NEW serverRoutes \in Seq(CG!Nodes), NEW clientNodes \in Seq(CG!Nodes),
         v5' = [of |-> v5.of, queue |-> queue, rest |-> rest, affected |-> affected,
                serverRoutes |-> serverRoutes, clientNodes |-> clientNodes],
         Extends(CG!Reached, queue, rest, affected), Divides(affected, serverRoutes, clientNodes)
  PROVE  CG!WalkInv'
<1> DEFINE reached == Items(affected) \cup Items(queue) \cup Items(rest)
<1>1. /\ v5'.of = v5.of /\ v5'.affected = affected
      /\ v5'.serverRoutes = serverRoutes /\ v5'.clientNodes = clientNodes
      /\ v5'.queue = queue /\ v5'.rest = rest
  OBVIOUS
<1>2. v5.of \in CG!Nodes /\ CG!Reached = Items(v5.affected) \cup Items(v5.queue) \cup Items(v5.rest)
  BY InvalidationFacts
<1>3. (CG!Reached)' = reached
  BY <1>1 DEF CG!Reached, CG!Members, Items
<1>4. v5' \in [of : CG!Nodes, queue : Seq(CG!Nodes), rest : Seq(CG!Nodes), affected : Seq(CG!Nodes),
               serverRoutes : Seq(CG!Nodes), clientNodes : Seq(CG!Nodes)]
  BY <1>2
<1>5. /\ Items(v3[v5.of]) \subseteq CG!Reached
      /\ \A n \in Items(v5.affected) : Items(v3[n]) \subseteq CG!Reached
      /\ \A set \in SUBSET CG!Nodes : CG!Closed(set) => CG!Reached \subseteq set
  BY DEF CG!WalkInv, CG!Members, Items
<1>6. /\ Items(v3[v5.of]) \subseteq reached
      /\ \A n \in Items(affected) : Items(v3[n]) \subseteq reached
  <2>1. /\ CG!Reached \subseteq reached
        /\ \A n \in Items(affected) : n \in Items(v5.affected) \/ Items(v3[n]) \subseteq reached
    BY DEF Extends
  <2> HIDE DEF reached
  <2> QED BY <1>5, <2>1
<1>7. ASSUME NEW set \in SUBSET CG!Nodes, CG!Closed(set) PROVE reached \subseteq set
  <2>1. CG!Reached \subseteq set /\ \A n \in set : Items(v3[n]) \subseteq set
    BY <1>5, <1>7 DEF CG!Closed, CG!Members, Items
  <2>2. /\ Items(affected) \subseteq set
        /\ reached \subseteq CG!Reached \cup UNION {Items(v3[n]) : n \in Items(affected)}
    BY <2>1 DEF Extends
  <2> HIDE DEF reached
  <2>3. UNION {Items(v3[n]) : n \in Items(affected)} \subseteq set
    BY <2>1, <2>2
  <2> QED BY <2>1, <2>2, <2>3
<1>8. \A set : (CG!Closed(set))' <=> CG!Closed(set)
  BY <1>1 DEF CG!Closed, CG!Members
<1>9. DOMAIN affected = 1 .. Len(affected)
  BY LenProperties
<1> HIDE DEF reached
<1>10. \A set \in SUBSET CG!Nodes : (CG!Closed(set))' => (CG!Reached)' \subseteq set
  BY <1>3, <1>7, <1>8
<1>11. /\ CG!Members(v3'[v5'.of]) \subseteq (CG!Reached)'
       /\ \A n \in CG!Members(v5'.affected) : CG!Members(v3'[n]) \subseteq (CG!Reached)'
  BY <1>1, <1>3, <1>6, MembersAreItems
<1>12. \A i, j \in DOMAIN v5'.affected : v5'.affected[i] = v5'.affected[j] => i = j
  BY <1>1, <1>9 DEF Divides
<1>13. /\ CG!Members(v5'.serverRoutes) = CG!Members(v5'.affected) \cap Routes
       /\ CG!Members(v5'.clientNodes) = CG!Members(v5'.affected) \ Routes
  BY <1>1, MembersAreItems DEF Divides
<1> QED BY <1>1, <1>2, <1>4, <1>10, <1>11, <1>12, <1>13 DEF CG!WalkInv

LEMMA NodeIsVisited ==
  ASSUME CG!WalkInv, v3 \in [CG!Nodes -> Seq(CG!Nodes)], CG!Visit
  PROVE  CG!WalkInv'
<1> DEFINE n == Head(v5.queue)
           tail == Tail(v5.queue)
<1>1. v5.rest = <<>> /\ v5.queue # <<>> /\ v3' = v3
  BY DEF CG!Visit, CG!Walks
<1>2. /\ n \in CG!Nodes /\ tail \in Seq(CG!Nodes) /\ Items(v5.queue) = {n} \cup Items(tail)
  BY <1>1, InvalidationFacts, ItemsOfTail
<1>3. Items(v5.rest) = {} /\ Items(<<>>) = {}
  BY <1>1 DEF Items
<1>4. CG!Reached = Items(v5.affected) \cup {n} \cup Items(tail)
  BY <1>2, <1>3, InvalidationFacts
<1>5. Divides(v5.affected, v5.serverRoutes, v5.clientNodes)
  BY NowDivides
<1>6. CASE n \in Items(v5.affected)
  <2>1. v5' = [v5 EXCEPT !.queue = tail]
    BY <1>6 DEF CG!Visit, CG!Listed, CG!Members, Items
  <2> HIDE DEF tail
  <2>2. v5' = [of |-> v5.of, queue |-> tail, rest |-> v5.rest, affected |-> v5.affected,
               serverRoutes |-> v5.serverRoutes, clientNodes |-> v5.clientNodes]
    BY <2>1, InvalidationFacts
  <2>3. Extends(CG!Reached, tail, v5.rest, v5.affected)
    BY <1>3, <1>4, <1>6 DEF Extends
  <2> QED BY <1>1, <1>2, <1>5, <2>2, <2>3, InvalidationFacts, InvalidationGoesOn
<1>7. CASE n \notin Items(v5.affected)
  <2> DEFINE affected == Append(v5.affected, n)
             serverRoutes == IF n \in Routes THEN Append(v5.serverRoutes, n) ELSE v5.serverRoutes
             clientNodes == IF n \in Routes THEN v5.clientNodes ELSE Append(v5.clientNodes, n)
             rest == v3[n]
  <2>1. v5' = [v5 EXCEPT !.queue = tail, !.rest = rest, !.affected = affected,
                         !.serverRoutes = serverRoutes, !.clientNodes = clientNodes]
    BY <1>7 DEF CG!Visit, CG!Listed, CG!Members, Items
  <2>2. /\ affected \in Seq(CG!Nodes) /\ Items(affected) = Items(v5.affected) \cup {n}
        /\ Len(affected) = Len(v5.affected) + 1 /\ affected[Len(v5.affected) + 1] = n
        /\ Len(v5.affected) \in Nat
        /\ \A i \in 1 .. Len(v5.affected) : affected[i] = v5.affected[i]
    BY <1>2, InvalidationFacts, ItemsOfAppend
  <2>3. /\ serverRoutes \in Seq(CG!Nodes)
        /\ Items(serverRoutes) = Items(v5.serverRoutes) \cup ({n} \cap Routes)
    BY <1>2, InvalidationFacts, ItemsOfAppend
  <2>4. /\ clientNodes \in Seq(CG!Nodes)
        /\ Items(clientNodes) = Items(v5.clientNodes) \cup ({n} \ Routes)
    BY <1>2, InvalidationFacts, ItemsOfAppend
  <2>5. rest \in Seq(CG!Nodes)
    BY <1>2
  <2>6. \A i \in 1 .. Len(v5.affected) : v5.affected[i] # n
    <3>1. DOMAIN v5.affected = 1 .. Len(v5.affected)
      BY InvalidationFacts, LenProperties
    <3> QED BY <1>7, <3>1 DEF Items
  <2> HIDE DEF n, tail, affected, serverRoutes, clientNodes
  <2>7. \A i, j \in 1 .. Len(affected) : affected[i] = affected[j] => i = j
    <3>1. \A i \in 1 .. Len(affected) : i \in 1 .. Len(v5.affected) \/ i = Len(v5.affected) + 1
      BY <2>2
    <3> QED BY <1>5, <2>2, <2>6, <3>1 DEF Divides
  <2>8. v5' = [of |-> v5.of, queue |-> tail, rest |-> rest, affected |-> affected,
               serverRoutes |-> serverRoutes, clientNodes |-> clientNodes]
    BY <2>1, InvalidationFacts
  <2>9. /\ Items(serverRoutes) = Items(affected) \cap Routes
        /\ Items(clientNodes) = Items(affected) \ Routes
    BY <1>5, <2>2, <2>3, <2>4 DEF Divides
  <2>10. Divides(affected, serverRoutes, clientNodes)
    BY <2>7, <2>9 DEF Divides
  <2>11. Extends(CG!Reached, tail, rest, affected)
    <3>1. Items(rest) \subseteq UNION {Items(v3[m]) : m \in Items(affected)}
      BY <2>2
    <3>2. \A m \in Items(affected) : m \in Items(v5.affected) \/ Items(v3[m]) = Items(rest)
      BY <2>2
    <3> HIDE DEF rest
    <3> QED BY <1>4, <2>2, <3>1, <3>2 DEF Extends
  <2> HIDE DEF rest
  <2> QED BY <1>1, <1>2, <2>2, <2>3, <2>4, <2>5, <2>8, <2>10, <2>11, InvalidationGoesOn
<1> QED BY <1>6, <1>7

LEMMA DependentJoins ==
  ASSUME CG!WalkInv, CG!Dependent
  PROVE  CG!WalkInv'
<1> DEFINE n == Head(v5.rest)
           rest == Tail(v5.rest)
           queue == IF n \in Items(v5.affected) THEN v5.queue ELSE Append(v5.queue, n)
<1>1. v5.rest # <<>> /\ v3' = v3
  BY DEF CG!Dependent, CG!Walks
<1>2. n \in CG!Nodes /\ rest \in Seq(CG!Nodes) /\ Items(v5.rest) = {n} \cup Items(rest)
  BY <1>1, InvalidationFacts, ItemsOfTail
<1>3. v5' = [v5 EXCEPT !.queue = queue, !.rest = rest]
  BY DEF CG!Dependent, CG!Spread, CG!Listed, CG!Members, Items
<1>4. /\ queue \in Seq(CG!Nodes)
      /\ Items(queue) = IF n \in Items(v5.affected) THEN Items(v5.queue) ELSE Items(v5.queue) \cup {n}
  <2>1. CASE n \in Items(v5.affected)
    BY <2>1, InvalidationFacts
  <2>2. CASE n \notin Items(v5.affected)
    BY <1>2, <2>2, InvalidationFacts, ItemsOfAppend
  <2> QED BY <2>1, <2>2
<1> HIDE DEF n, rest, queue
<1>5. v5' = [of |-> v5.of, queue |-> queue, rest |-> rest, affected |-> v5.affected,
             serverRoutes |-> v5.serverRoutes, clientNodes |-> v5.clientNodes]
  BY <1>3, InvalidationFacts
<1>6. Divides(v5.affected, v5.serverRoutes, v5.clientNodes)
  BY NowDivides
<1>7. CG!Reached = Items(v5.affected) \cup Items(queue) \cup Items(rest)
  BY <1>2, <1>4, InvalidationFacts
<1>8. Extends(CG!Reached, queue, rest, v5.affected)
  BY <1>7 DEF Extends
<1> QED BY <1>1, <1>2, <1>4, <1>5, <1>6, <1>8, InvalidationFacts, InvalidationGoesOn

\* What the walk visited when nothing is left is what depends on the node.
LEMMA ReportIsWhole ==
  ASSUME CG!WalkInv, CG!EndsAgree, v3 \in [CG!Nodes -> Seq(CG!Nodes)], CG!Report
  PROVE  CG!InvalidationIsWhole'
<1> DEFINE affected == v5.affected
           done == [of |-> v5.of, affected |-> affected,
                    serverRoutes |-> v5.serverRoutes, clientNodes |-> v5.clientNodes]
           first == {e[1] : e \in {f \in CG!Edges : f[2] = v5.of}}
<1>1. v6' = done /\ v2' = v2 /\ v3' = v3 /\ v5.rest = <<>> /\ v5.queue = <<>>
  BY DEF CG!Report
<1>2. CG!Reached = Items(affected) /\ Items(affected) \subseteq CG!Nodes /\ v5.of \in CG!Nodes
  <2>1. Items(v5.rest) = {} /\ Items(v5.queue) = {}
    BY <1>1 DEF Items
  <2>2. Items(affected) \subseteq CG!Nodes
    BY InvalidationFacts, LenProperties, ElementOfSeq DEF Items
  <2> QED BY <2>1, <2>2, InvalidationFacts
<1>3. \A n, m \in CG!Nodes : <<n, m>> \in CG!Edges <=> n \in Items(v3[m])
  BY MembersAreItems DEF CG!Edges, CG!Listed, CG!EndsAgree
<1>4. CG!Edges \subseteq CG!Nodes \X CG!Nodes
  BY DEF CG!Edges
<1>5. \A m \in CG!Nodes : Items(v3[m]) \subseteq CG!Nodes
  BY LenProperties, ElementOfSeq DEF Items
<1>6. first = Items(v3[v5.of])
  <2>1. ASSUME NEW n \in first PROVE n \in Items(v3[v5.of])
    <3>1. PICK e \in CG!Edges : e[2] = v5.of /\ n = e[1]
      BY <2>1
    <3>2. e = <<n, v5.of>> /\ n \in CG!Nodes
      BY <1>4, <3>1
    <3> QED BY <1>2, <1>3, <3>2
  <2>2. ASSUME NEW n \in Items(v3[v5.of]) PROVE n \in first
    <3>1. n \in CG!Nodes
      BY <1>2, <1>5
    <3>2. <<n, v5.of>> \in CG!Edges
      BY <1>2, <1>3, <3>1
    <3> QED BY <3>2
  <2> QED BY <2>1, <2>2
<1> HIDE DEF first
<1>7. ASSUME NEW set \in SUBSET CG!Nodes
      PROVE  CG!Upward(set) <=> \A m \in set : Items(v3[m]) \subseteq set
  <2>1. ASSUME CG!Upward(set), NEW m \in set, NEW n \in Items(v3[m]) PROVE n \in set
    <3>1. <<n, m>> \in CG!Edges
      BY <1>3, <1>5, <2>1
    <3> QED BY <2>1, <3>1 DEF CG!Upward
  <2>2. ASSUME \A m \in set : Items(v3[m]) \subseteq set, NEW e \in CG!Edges, e[2] \in set PROVE e[1] \in set
    <3>1. e = <<e[1], e[2]>> /\ e[1] \in CG!Nodes /\ e[2] \in CG!Nodes
      BY <1>4
    <3> QED BY <1>3, <2>2, <3>1
  <2> QED BY <2>1, <2>2 DEF CG!Upward
<1>8. /\ Items(v3[v5.of]) \subseteq CG!Reached
      /\ \A n \in Items(affected) : Items(v3[n]) \subseteq CG!Reached
      /\ \A set \in SUBSET CG!Nodes : CG!Closed(set) => CG!Reached \subseteq set
  BY MembersAreItems DEF CG!WalkInv
<1>9. first \subseteq Items(affected) /\ CG!Upward(Items(affected))
  BY <1>2, <1>6, <1>7, <1>8
<1>10. ASSUME NEW set \in SUBSET CG!Nodes, first \subseteq set, CG!Upward(set)
       PROVE  Items(affected) \subseteq set
  <2>1. CG!Closed(set)
    BY <1>6, <1>7, <1>10, MembersAreItems DEF CG!Closed
  <2> QED BY <1>2, <1>8, <2>1
<1>11. Divides(affected, v5.serverRoutes, v5.clientNodes) /\ DOMAIN affected = 1 .. Len(affected)
  BY NowDivides, InvalidationFacts, LenProperties
<1>12. CG!Edges' = CG!Edges /\ \A set : (CG!Upward(set))' <=> CG!Upward(set)
  BY <1>1 DEF CG!Edges, CG!Upward, CG!Listed, CG!Members
<1>13. /\ v6'.of = v5.of /\ v6'.affected = affected
       /\ v6'.serverRoutes = v5.serverRoutes /\ v6'.clientNodes = v5.clientNodes
  BY <1>1
<1>14. {e[1] : e \in {f \in CG!Edges' : f[2] = v6'.of}} = first
  BY <1>12, <1>13 DEF first
<1> HIDE DEF affected, done
<1>15. \A i, j \in DOMAIN affected : affected[i] = affected[j] => i = j
  BY <1>11 DEF Divides
<1>16. /\ CG!Members(v5.serverRoutes) = CG!Members(affected) \cap Routes
       /\ CG!Members(v5.clientNodes) = CG!Members(affected) \ Routes
  BY <1>11, MembersAreItems DEF Divides
<1>17. CG!Members(affected) = Items(affected)
  BY MembersAreItems
<1> QED BY <1>9, <1>10, <1>12, <1>13, <1>14, <1>15, <1>16, <1>17 DEF CG!InvalidationIsWhole

LEMMA GraphNext == GraphInv /\ [Next]_all => GraphInv'
<1> SUFFICES ASSUME GraphInv, [Next]_all, which' = "graph" PROVE CG!Inv'
  BY DEF GraphInv
<1>1. CG!Inv /\ [CG!Next]_graphing
  BY GraphSteps DEF GraphInv
<1> DEFINE Nodes == CG!Nodes
<1>2. /\ v1 \subseteq Nodes /\ v2 \in [Nodes -> Seq(Nodes)] /\ v3 \in [Nodes -> Seq(Nodes)] /\ CG!EndsAgree
      /\ \A n, m \in Nodes : m \in Items(v2[n]) <=> n \in Items(v3[m])
      /\ \A n \in Nodes \ v1 : v2[n] = <<>> /\ v3[n] = <<>>
      /\ v4 # None => v4.nodes \subseteq Nodes /\ CG!ListsAgree(v4.nodes, v4.deps, v4.dependents)
      /\ v5 # None => CG!WalkInv /\ v6 = None
      /\ CG!InvalidationIsWhole
  BY <1>1, MembersAreItems DEF CG!Inv, CG!EndsAgree, CG!Listed
\* The lists and what is exported stay good while they stay.
<1>3. ASSUME v2' = v2, v3' = v3, v4' = v4, v1 \subseteq v1', v1' \subseteq Nodes,
             v5' # None => CG!WalkInv' /\ v6' = None, CG!InvalidationIsWhole'
      PROVE  CG!Inv'
  BY <1>2, <1>3 DEF CG!Inv, CG!EndsAgree, CG!Listed
<1>4. CASE UNCHANGED graphing
  <2>1. v1' = v1 /\ v2' = v2 /\ v3' = v3 /\ v4' = v4 /\ v5' = v5 /\ v6' = v6
    BY <1>4 DEF graphing
  <2>2. CG!InvalidationIsWhole'
    BY <1>2, <2>1 DEF CG!InvalidationIsWhole, CG!Edges, CG!Upward, CG!Listed
  <2>3. v5 # None => CG!WalkInv'
    BY <1>2, <2>1 DEF CG!WalkInv, CG!Reached, CG!Closed
  <2> QED BY <1>2, <1>3, <2>1, <2>2, <2>3
<1>5. ASSUME NEW from \in Nodes, NEW to \in Nodes, CG!link(from, to) PROVE CG!Inv'
  <2>1. /\ v5 = None /\ v1' = v1 \cup {from, to} /\ v4' = v4 /\ v5' = v5 /\ v6' = None
        /\ v2' = [v2 EXCEPT ![from] = CG!Adjoin(to, v2[from])]
        /\ v3' = [v3 EXCEPT ![to] = CG!Adjoin(from, v3[to])]
    BY <1>5 DEF CG!link, CG!BothEnds
  <2>2. /\ CG!Adjoin(to, v2[from]) \in Seq(Nodes) /\ CG!Adjoin(from, v3[to]) \in Seq(Nodes)
        /\ Items(CG!Adjoin(to, v2[from])) = Items(v2[from]) \cup {to}
        /\ Items(CG!Adjoin(from, v3[to])) = Items(v3[to]) \cup {from}
    BY <1>2, Adjoined
  <2>3. v2' \in [Nodes -> Seq(Nodes)] /\ v3' \in [Nodes -> Seq(Nodes)]
    BY <1>2, <2>1, <2>2
  <2>4. ASSUME NEW n \in Nodes, NEW m \in Nodes PROVE m \in Items(v2'[n]) <=> n \in Items(v3'[m])
    <3>1. Items(v2'[n]) = IF n = from THEN Items(v2[n]) \cup {to} ELSE Items(v2[n])
      BY <1>2, <2>1, <2>2
    <3>2. Items(v3'[m]) = IF m = to THEN Items(v3[m]) \cup {from} ELSE Items(v3[m])
      BY <1>2, <2>1, <2>2
    <3> QED BY <1>2, <3>1, <3>2
  <2>5. CG!EndsAgree'
    BY <2>4, MembersAreItems DEF CG!EndsAgree, CG!Listed
  <2>6. \A n \in Nodes \ v1' : v2'[n] = <<>> /\ v3'[n] = <<>>
    BY <1>2, <2>1
  <2> QED BY <1>2, <2>1, <2>3, <2>5, <2>6 DEF CG!Inv, CG!InvalidationIsWhole
<1>6. ASSUME NEW n \in Nodes, CG!invalidate(n) PROVE CG!Inv'
  <2>1. /\ v1' = v1 \cup {n} /\ v2' = v2 /\ v3' = v3 /\ v4' = v4 /\ v6' = None
        /\ v5' = [of |-> n, queue |-> v3[n], rest |-> <<>>, affected |-> <<>>,
                  serverRoutes |-> <<>>, clientNodes |-> <<>>]
    BY <1>6 DEF CG!invalidate
  <2>2. /\ v5'.of = n /\ v5'.queue = v3[n] /\ v5'.rest = <<>> /\ v5'.affected = <<>>
        /\ v5'.serverRoutes = <<>> /\ v5'.clientNodes = <<>>
    BY <2>1
  <2>3. v3[n] \in Seq(Nodes) /\ Items(<<>>) = {} /\ <<>> \in Seq(Nodes) /\ DOMAIN (<<>>) = {}
    BY <1>2 DEF Items
  <2>4. v5' \in [of : CG!Nodes, queue : Seq(CG!Nodes), rest : Seq(CG!Nodes), affected : Seq(CG!Nodes),
                 serverRoutes : Seq(CG!Nodes), clientNodes : Seq(CG!Nodes)]
    BY <2>1, <2>3
  <2>5. (CG!Reached)' = Items(v3[n])
    <3>1. (CG!Reached)' = Items(v5'.affected) \cup Items(v5'.queue) \cup Items(v5'.rest)
      BY MembersAreItems DEF CG!Reached
    <3> QED BY <2>2, <2>3, <3>1
  <2>6. \A set : (CG!Closed(set))' => Items(v3[n]) \subseteq set
    BY <2>1, <2>2, MembersAreItems DEF CG!Closed
  <2>7. CG!Members(v3'[v5'.of]) = Items(v3[n]) /\ CG!Members(<<>>) = {}
    BY <2>1, <2>2, <2>3, MembersAreItems
  <2>8. CG!WalkInv'
    BY <2>2, <2>3, <2>4, <2>5, <2>6, <2>7 DEF CG!WalkInv
  <2> QED BY <1>2, <1>3, <2>1, <2>8 DEF CG!InvalidationIsWhole
<1>7. CASE CG!Visit
  <2>1. v5 # None /\ v1' = v1 /\ v2' = v2 /\ v3' = v3 /\ v4' = v4 /\ v6' = v6
    BY <1>7 DEF CG!Visit, CG!Walks
  <2>2. CG!WalkInv'
    BY <1>2, <1>7, <2>1, NodeIsVisited
  <2> QED BY <1>2, <1>3, <2>1, <2>2 DEF CG!InvalidationIsWhole
<1>8. CASE CG!Dependent
  <2>1. v5 # None /\ v1' = v1 /\ v2' = v2 /\ v3' = v3 /\ v4' = v4 /\ v6' = v6
    BY <1>8 DEF CG!Dependent, CG!Walks
  <2>2. CG!WalkInv'
    BY <1>2, <1>8, <2>1, DependentJoins
  <2> QED BY <1>2, <1>3, <2>1, <2>2 DEF CG!InvalidationIsWhole
<1>9. CASE CG!Report
  <2>1. v5 # None /\ v5' = None /\ v1' = v1 /\ v2' = v2 /\ v3' = v3 /\ v4' = v4
    BY <1>9 DEF CG!Report
  <2>2. CG!InvalidationIsWhole'
    BY <1>2, <1>9, <2>1, ReportIsWhole
  <2> QED BY <1>2, <1>3, <2>1, <2>2
<1>10. CASE CG!toJSON
  <2> DEFINE to == [n \in v1 |-> CG!Sorted(v2[n])]
             from == [n \in v1 |-> CG!Sorted(v3[n])]
             edges == {e \in CG!Edges : e[1] \in v1}
  <2>1. /\ v4' = [nodes |-> v1, deps |-> to, dependents |-> from, edges |-> edges]
        /\ v5 = None /\ v5' = v5 /\ v6' = None /\ v1' = v1 /\ v2' = v2 /\ v3' = v3
    BY <1>10 DEF CG!toJSON
  <2>2. \A n \in v1 : /\ to[n] \in Seq(Nodes) /\ Items(to[n]) = Items(v2[n])
                      /\ from[n] \in Seq(Nodes) /\ Items(from[n]) = Items(v3[n])
    BY <1>2, SortedHasAll
  <2>3. to \in [v1 -> Seq(Nodes)] /\ from \in [v1 -> Seq(Nodes)]
    BY <2>2
  <2> HIDE DEF to, from, edges
  <2>4. ASSUME NEW n \in Nodes, NEW m \in Nodes
        PROVE  (n \in v1 /\ m \in Items(to[n])) <=> (m \in v1 /\ n \in Items(from[m]))
    <3>1. Items(<<>>) = {}
      BY DEF Items
    <3>2. n \in v1 \/ Items(v2[n]) = {}
      BY <1>2, <3>1
    <3>3. m \in v1 \/ Items(v3[m]) = {}
      BY <1>2, <3>1
    <3> QED BY <1>2, <2>2, <3>2, <3>3
  <2>5. CG!ListsAgree(v1, to, from)
    BY <2>3, <2>4, MembersAreItems DEF CG!ListsAgree
  <2>6. v4'.nodes = v1 /\ v4'.deps = to /\ v4'.dependents = from
    BY <2>1
  <2> QED BY <1>2, <2>1, <2>5, <2>6 DEF CG!Inv, CG!InvalidationIsWhole, CG!EndsAgree, CG!Listed, CG!ListsAgree
<1>11. CASE CG!fromJSON
  <2>1. /\ v4 # None /\ v5 = None /\ v1' = v4.nodes /\ v4' = v4 /\ v5' = v5 /\ v6' = None
        /\ v2' = [n \in Nodes |-> IF n \in v4.nodes THEN v4.deps[n] ELSE <<>>]
        /\ v3' = [n \in Nodes |-> IF n \in v4.nodes THEN v4.dependents[n] ELSE <<>>]
    BY <1>11 DEF CG!fromJSON
  <2>2. /\ v4.deps \in [v4.nodes -> Seq(Nodes)] /\ v4.dependents \in [v4.nodes -> Seq(Nodes)]
        /\ v4.nodes \subseteq Nodes
        /\ \A n, m \in Nodes : (n \in v4.nodes /\ m \in Items(v4.deps[n]))
                               <=> (m \in v4.nodes /\ n \in Items(v4.dependents[m]))
    BY <1>2, <2>1, MembersAreItems DEF CG!ListsAgree
  <2>3. v2' \in [Nodes -> Seq(Nodes)] /\ v3' \in [Nodes -> Seq(Nodes)]
    BY <2>1, <2>2
  <2>4. ASSUME NEW n \in Nodes, NEW m \in Nodes PROVE m \in Items(v2'[n]) <=> n \in Items(v3'[m])
    <3>1. Items(<<>>) = {}
      BY DEF Items
    <3>2. m \in Items(v2'[n]) <=> n \in v4.nodes /\ m \in Items(v4.deps[n])
      BY <2>1, <3>1
    <3>3. n \in Items(v3'[m]) <=> m \in v4.nodes /\ n \in Items(v4.dependents[m])
      BY <2>1, <3>1
    <3> QED BY <2>2, <3>2, <3>3
  <2>5. CG!EndsAgree'
    BY <2>4, MembersAreItems DEF CG!EndsAgree, CG!Listed
  <2>6. \A n \in Nodes \ v1' : v2'[n] = <<>> /\ v3'[n] = <<>>
    BY <2>1
  <2> QED BY <1>2, <2>1, <2>2, <2>3, <2>5, <2>6 DEF CG!Inv, CG!InvalidationIsWhole
<1>12. Data \subseteq Nodes /\ Components \subseteq Nodes /\ Routes \subseteq Nodes
  BY DEF CG!Nodes
<1> QED BY <1>1, <1>4, <1>5, <1>6, <1>7, <1>8, <1>9, <1>10, <1>11, <1>12 DEF CG!Next

LEMMA GraphAlways == Spec => []GraphInv
BY GraphInit, GraphNext, PTL DEF Spec

LEMMA GraphSays == GraphInv => CG_InvalidationIsWhole /\ CG_EndsAgree
BY DEF GraphInv, CG!Inv, CG_InvalidationIsWhole, CG_EndsAgree
-----------------------------------------------------------------------------
(* The optimistic engine.                                                  *)
EngineInv == which = "optimistic" => OE!Inv
applying == <<v1, v2, v3, v4, v5>>

LEMMA EngineSteps ==
  ASSUME [Next]_all, which' = "optimistic"
  PROVE  which = "optimistic" /\ [OE!Next]_applying
BY DEF Next, all, shared, applying

LEMMA EngineInit == Init => EngineInv
<1> SUFFICES ASSUME Init, which = "optimistic" PROVE OE!Inv
  BY DEF EngineInv
<1>1. OE!Init
  BY DEF Init
<1> QED BY <1>1 DEF OE!Init, OE!Inv, OE!Applied, OE!RollbacksTakeTheLater, OE!RolledBackIsNotPending

Entry == [id : Actions, status : {"pending", "resolved", "rolled-back"}]

\* A mark changes the status of the first entry of the action, and no entry's action.
LEMMA MarkOne ==
  ASSUME v2 \in Seq(Entry), NEW a \in Actions, NEW status \in {"resolved", "rolled-back"}, OE!mark(a, status)
  PROVE  /\ v2' \in Seq(Entry) /\ DOMAIN v2' = DOMAIN v2
         /\ \A i \in DOMAIN v2 : /\ v2'[i].id = v2[i].id
                                 /\ v2'[i].status = IF i \in OE!Marked(a) THEN status ELSE v2[i].status
<1>1. /\ DOMAIN v2 = 1 .. Len(v2) /\ Len(v2) \in Nat /\ \A i \in DOMAIN v2 : v2[i] \in Entry
  BY LenProperties, ElementOfSeq
<1> DEFINE marked(i) == [v2[i] EXCEPT !.status = status]
<1>2. \A i \in DOMAIN v2 : marked(i) \in Entry /\ marked(i).id = v2[i].id /\ marked(i).status = status
  BY <1>1 DEF Entry
<1>3. v2' = [i \in DOMAIN v2 |-> IF i \in OE!Marked(a) THEN marked(i) ELSE v2[i]]
  BY DEF OE!mark
<1> HIDE DEF marked
<1>4. DOMAIN v2' = DOMAIN v2 /\ \A i \in DOMAIN v2 : v2'[i] = IF i \in OE!Marked(a) THEN marked(i) ELSE v2[i]
  BY <1>3
<1>5. \A i \in DOMAIN v2 : v2'[i] \in Entry
  BY <1>1, <1>2, <1>4
<1>6. v2' \in [1 .. Len(v2) -> Entry]
  BY <1>1, <1>3, <1>5
<1>7. v2' \in Seq(Entry)
  BY <1>1, <1>6, SeqDef
<1> QED BY <1>2, <1>4, <1>7

LEMMA EngineNext == EngineInv /\ [Next]_all => EngineInv'
<1> SUFFICES ASSUME EngineInv, [Next]_all, which' = "optimistic" PROVE OE!Inv'
  BY DEF EngineInv
<1>1. OE!Inv /\ [OE!Next]_applying
  BY EngineSteps DEF EngineInv
<1>2. /\ v2 \in Seq(Entry) /\ DOMAIN v3 = Actions /\ v4 \subseteq Actions
      /\ \A a \in Actions : v3[a] # None => OE!Applied(a)
      /\ \A a \in v4 : OE!Applied(a)
      /\ OE!RollbacksTakeTheLater /\ OE!RolledBackIsNotPending
  BY <1>1 DEF OE!Inv, Entry
<1> DEFINE lost(a) == \E b \in v5 : OE!Precedes(b, a)
           kept(x, a) == /\ a \in v3[x][1] => OE!Precedes(a, x)
                         /\ a # x /\ a \notin v3[x][1] /\ a \notin v4 /\ OE!Applied(a)
                              => OE!Precedes(x, a) \/ lost(a)
<1>9. \A x, a \in Actions : v3[x] # None => kept(x, a)
  BY <1>1 DEF OE!Inv
<1>10. \A a \in Actions : /\ OE!Applied(a) /\ a \notin v4 /\ a \notin v1 => lost(a)
                          /\ a \in v1 => OE!Applied(a) /\ (a \in v4 => \E b \in v5 : OE!Precedes(a, b))
  BY <1>2 DEF OE!RollbacksTakeTheLater
<1>3. DOMAIN v2 = 1 .. Len(v2) /\ Len(v2) \in Nat /\ \A i \in DOMAIN v2 : v2[i] \in Entry
  BY <1>2, LenProperties, ElementOfSeq
<1>4. CASE UNCHANGED applying
  BY <1>1, <1>4 DEF applying, OE!Inv, OE!Applied, OE!Precedes, OE!RollbacksTakeTheLater, OE!RolledBackIsNotPending
<1>5. ASSUME NEW a \in Actions, OE!apply(a) PROVE OE!Inv'
  <2> DEFINE new == [id |-> a, status |-> "pending"]
  <2>1. /\ v3' = [v3 EXCEPT ![a] = <<v1>>] /\ v1' = v1 \cup {a} /\ v2' = Append(v2, new)
        /\ v4' = v4 \ {a} /\ v5' = v5
    BY <1>5 DEF OE!apply
  <2>2. new \in Entry /\ new.id = a
    BY DEF Entry
  <2> HIDE DEF new
  <2>3. /\ v2' \in Seq(Entry) /\ DOMAIN v2' = 1 .. Len(v2) + 1 /\ v2'[Len(v2) + 1].id = a
        /\ \A i \in DOMAIN v2 : v2'[i] = v2[i]
    <3>1. /\ v2' \in Seq(Entry) /\ Len(v2') = Len(v2) + 1 /\ v2'[Len(v2) + 1] = new
          /\ \A i \in 1 .. Len(v2) : v2'[i] = v2[i]
      BY <1>2, <2>1, <2>2, ItemsOfAppend
    <3> QED BY <1>3, <2>2, <3>1, LenProperties
  <2>4. \A i \in DOMAIN v2' : i \in DOMAIN v2 \/ i = Len(v2) + 1
    BY <1>3, <2>3
  <2>5. DOMAIN v2 \subseteq DOMAIN v2' /\ Len(v2) + 1 \in DOMAIN v2'
    BY <1>3, <2>3
  <2>6. \A b \in Actions : (OE!Applied(b))' <=> OE!Applied(b) \/ b = a
    BY <2>3, <2>4, <2>5 DEF OE!Applied
  <2>9. \A x, y : (OE!Precedes(x, y))' <=> OE!Precedes(x, y) \/ (y = a /\ OE!Applied(x))
    <3>1. \A i \in DOMAIN v2 : i < Len(v2) + 1
      BY <1>3
    <3>2. \A i, j \in DOMAIN v2' : i < j => i \in DOMAIN v2
      BY <1>3, <2>3
    <3>3. \A i, j \in DOMAIN v2' : i < j => i \in DOMAIN v2 /\ (j \in DOMAIN v2 \/ j = Len(v2) + 1)
      BY <2>4, <3>2
    <3> QED BY <2>3, <2>5, <3>1, <3>3 DEF OE!Precedes, OE!Applied
  <2>7. OE!RollbacksTakeTheLater'
    <3> SUFFICES ASSUME NEW b \in Actions
                 PROVE  /\ (OE!Applied(b))' /\ b \notin v4' /\ b \notin v1' => \E c \in v5' : (OE!Precedes(c, b))'
                        /\ b \in v1' => (OE!Applied(b))' /\ (b \in v4' => \E c \in v5' : (OE!Precedes(b, c))')
      BY DEF OE!RollbacksTakeTheLater
    <3>1. v5 \subseteq Actions
      BY <1>1 DEF OE!Inv
    <3>2. /\ OE!Applied(b) /\ b \notin v4 /\ b \notin v1 => lost(b)
          /\ b \in v1 => OE!Applied(b) /\ (b \in v4 => \E c \in v5 : OE!Precedes(b, c))
      BY <1>10
    <3> QED BY <2>1, <2>6, <2>9, <3>1, <3>2
  <2>10. ASSUME NEW x \in Actions, NEW b \in Actions, v3'[x] # None PROVE kept(x, b)'
    <3>1. v5 \subseteq Actions
      BY <1>1 DEF OE!Inv
    <3>2. CASE x = a
      <4>1. v3'[x][1] = v1
        BY <1>2, <2>1, <3>2
      <4>2. b \in v1 => OE!Applied(b)
        BY <1>10
      <4>3. b \in v1 => (OE!Precedes(b, x))'
        BY <2>9, <3>2, <4>2
      <4>4. b # x /\ b \notin v1 /\ b \notin v4' /\ (OE!Applied(b))' => lost(b)
        BY <1>10, <2>1, <2>6, <3>2
      <4>5. lost(b) => lost(b)'
        BY <2>1, <2>9, <3>1
      <4> QED BY <4>1, <4>3, <4>4, <4>5
    <3>3. CASE x # a
      <4>1. v3'[x] = v3[x] /\ kept(x, b)
        BY <1>2, <1>9, <2>1, <2>10, <3>3
      <4>2. lost(b) => lost(b)'
        BY <2>1, <2>9, <3>1
      <4>3. b \in v3'[x][1] => (OE!Precedes(b, x))'
        BY <2>9, <4>1
      <4>4. OE!Applied(x)
        BY <1>2, <2>10, <4>1
      <4>5. CASE b = a
        BY <2>9, <4>3, <4>4, <4>5
      <4>6. CASE b # a
        BY <2>1, <2>6, <2>9, <4>1, <4>2, <4>3, <4>6
      <4> QED BY <4>5, <4>6
    <3> QED BY <3>2, <3>3
  <2>8. OE!RolledBackIsNotPending'
    <3> SUFFICES ASSUME \A i, j \in DOMAIN v2' : v2'[i].id = v2'[j].id => i = j,
                        NEW b \in v4', NEW i \in DOMAIN v2', v2'[i].id = b
                 PROVE  v2'[i].status # "pending"
      BY DEF OE!RolledBackIsNotPending
    <3>1. \A k, j \in DOMAIN v2 : v2[k].id = v2[j].id => k = j
      BY <2>3, <2>5
    <3>2. b \in v4 /\ b # a /\ i \in DOMAIN v2 /\ v2[i].id = b
      BY <2>1, <2>3, <2>4
    <3> QED BY <1>2, <2>3, <3>1, <3>2 DEF OE!RolledBackIsNotPending
  <2> HIDE DEF kept
  <2>11. v5' \subseteq Actions
    BY <1>1, <2>1 DEF OE!Inv
  <2>12. \A x, b \in Actions : v3'[x] # None => kept(x, b)'
    BY <2>10
  <2>13. (\A x, b \in Actions : v3[x] # None => kept(x, b))'
    BY <2>12
  <2>14. v2' \in Seq(Entry) /\ DOMAIN v3' = Actions /\ (\A b \in Actions : v3'[b] # None => (OE!Applied(b))')
         /\ v4' \subseteq Actions /\ (\A b \in v4' : (OE!Applied(b))')
    BY <1>2, <2>1, <2>3, <2>6
  <2> QED BY <2>7, <2>8, <2>11, <2>13, <2>14 DEF OE!Inv, Entry, kept
\* An answer applies nothing and marks the entry of its action.
<1>6. ASSUME NEW a \in Actions, NEW status \in {"resolved", "rolled-back"}, OE!mark(a, status),
             v3[a] # None, v3' = v3,
             \/ v4' = v4 /\ v1' = v1 /\ v5' = v5
             \/ v4' = v4 \cup {a} /\ v1' = v1 \ {a} /\ v5' = v5
             \/ v4' = v4 \cup {a} /\ v1' = v3[a][1] /\ v5' = v5 \cup {a}
      PROVE  OE!Inv'
  <2>1. /\ v2' \in Seq(Entry) /\ DOMAIN v2' = DOMAIN v2
        /\ \A i \in DOMAIN v2 : /\ v2'[i].id = v2[i].id
                                /\ v2'[i].status = IF i \in OE!Marked(a) THEN status ELSE v2[i].status
    BY <1>2, <1>6, MarkOne
  <2>2. \A b : (OE!Applied(b))' <=> OE!Applied(b)
    BY <2>1 DEF OE!Applied
  <2>3. PICK k \in DOMAIN v2 : v2[k].id = a
    BY <1>2, <1>6 DEF OE!Applied
  <2>7. \A x, y : (OE!Precedes(x, y))' <=> OE!Precedes(x, y)
    BY <2>1 DEF OE!Precedes
  <2>8. v5 \subseteq v5' /\ v5' \subseteq Actions /\ v4 \subseteq v4'
    BY <1>1, <1>6 DEF OE!Inv
  <2>4. OE!RollbacksTakeTheLater'
    <3> SUFFICES ASSUME NEW b \in Actions
                 PROVE  /\ (OE!Applied(b))' /\ b \notin v4' /\ b \notin v1' => \E c \in v5' : (OE!Precedes(c, b))'
                        /\ b \in v1' => (OE!Applied(b))' /\ (b \in v4' => \E c \in v5' : (OE!Precedes(b, c))')
      BY DEF OE!RollbacksTakeTheLater
    <3>1. /\ OE!Applied(b) /\ b \notin v4 /\ b \notin v1 => lost(b)
          /\ b \in v1 => OE!Applied(b) /\ (b \in v4 => \E c \in v5 : OE!Precedes(b, c))
      BY <1>10
    <3>2. CASE v1' = v1 /\ v4' = v4
      BY <2>2, <2>7, <2>8, <3>1, <3>2
    <3>3. CASE v4' = v4 \cup {a} /\ v1' = v1 \ {a}
      BY <2>2, <2>7, <2>8, <3>1, <3>3
    <3>4. CASE v4' = v4 \cup {a} /\ v1' = v3[a][1] /\ v5' = v5 \cup {a}
      <4>1. kept(a, b)
        BY <1>6, <1>9
      <4>2. b \in v3[a][1] => OE!Applied(b)
        BY <4>1 DEF OE!Precedes, OE!Applied
      <4>3. a \in v5'
        BY <3>4
      <4> QED BY <2>2, <2>7, <2>8, <3>4, <4>1, <4>2, <4>3
    <3> QED BY <1>6, <3>2, <3>3, <3>4
  <2>9. ASSUME NEW x \in Actions, NEW b \in Actions, v3'[x] # None PROVE kept(x, b)'
    <3>1. v3'[x] = v3[x] /\ kept(x, b)
      BY <1>6, <1>9, <2>9
    <3> QED BY <2>2, <2>7, <2>8, <3>1
  <2>5. OE!RolledBackIsNotPending'
    <3> SUFFICES ASSUME \A i, j \in DOMAIN v2' : v2'[i].id = v2'[j].id => i = j,
                        NEW b \in v4', NEW i \in DOMAIN v2', v2'[i].id = b
                 PROVE  v2'[i].status # "pending"
      BY DEF OE!RolledBackIsNotPending
    <3>1. \A n, j \in DOMAIN v2 : v2[n].id = v2[j].id => n = j
      BY <2>1
    <3>2. CASE b = a
      <4>1. i \in DOMAIN v2 /\ v2[i].id = a /\ \A j \in DOMAIN v2 : v2[j].id = a => i <= j
        BY <1>3, <2>1, <3>1, <3>2
      <4>2. i \in OE!Marked(a)
        BY <4>1 DEF OE!Marked
      <4> QED BY <1>6, <2>1, <4>1, <4>2
    <3>3. CASE b # a
      BY <1>2, <1>6, <2>1, <3>1, <3>3 DEF OE!RolledBackIsNotPending
    <3> QED BY <3>2, <3>3
  <2>6. v4' \subseteq Actions /\ \A b \in v4' : (OE!Applied(b))'
    BY <1>2, <1>6, <2>2
  <2> HIDE DEF kept
  <2>10. (\A x, b \in Actions : v3[x] # None => kept(x, b))'
    BY <2>9
  <2>11. DOMAIN v3' = Actions /\ (\A b \in Actions : v3'[b] # None => (OE!Applied(b))')
    BY <1>2, <1>6, <2>2
  <2> QED BY <2>1, <2>4, <2>5, <2>6, <2>8, <2>10, <2>11 DEF OE!Inv, Entry, kept
<1>7. ASSUME NEW a \in Actions, OE!resolve(a) PROVE OE!Inv'
  BY <1>6, <1>7 DEF OE!resolve
<1>8. ASSUME NEW a \in Actions, OE!rollback(a) PROVE OE!Inv'
  BY <1>6, <1>8 DEF OE!rollback, OE!RolledBack
<1> QED BY <1>1, <1>4, <1>5, <1>7, <1>8 DEF OE!Next

LEMMA EngineAlways == Spec => []EngineInv
BY EngineInit, EngineNext, PTL DEF Spec

LEMMA EngineSays == EngineInv => OE_RollbacksTakeTheLater /\ OE_RolledBackIsNotPending
BY DEF EngineInv, OE!Inv, OE_RollbacksTakeTheLater, OE_RolledBackIsNotPending
-----------------------------------------------------------------------------
(* The policy mesh.                                                        *)
PolicyInv == which = "policy" => PM!Inv
deciding == <<v1, v2, v3, v4, v5, v6, v7>>

LEMMA PolicySteps ==
  ASSUME [Next]_all, which' = "policy"
  PROVE  which = "policy" /\ [PM!Next]_deciding
BY DEF Next, all, shared, deciding

LEMMA PolicyInit == Init => PolicyInv
<1> SUFFICES ASSUME Init, which = "policy" PROVE PM!Inv
  BY DEF PolicyInv
<1>1. PM!Init
  BY DEF Init
<1>2. /\ v1 = None /\ v2 = PM!Fresh /\ v3 = <<>> /\ v4 = 0 /\ v5 = [t \in 0..MeshTime |-> None] /\ v7 = None
      /\ v6 = [r \in Replays |-> [at |-> "idle", of |-> None, path |-> 0, alone |-> FALSE]]
  BY <1>1 DEF PM!Init
<1>3. \A r \in Replays : v6[r].at = "idle" /\ v6[r].of = None /\ v6[r].path = 0 /\ v6[r].alone = FALSE
  BY <1>2
<1>4. v6 = [r \in Replays |-> [at |-> v6[r].at, of |-> v6[r].of, path |-> v6[r].path, alone |-> v6[r].alone]]
  BY <1>2, <1>3
<1>5. v5 \in [0 .. MeshTime -> {None} \cup {<<h>> : h \in PM!AllHints}]
  BY <1>2
<1>6. v4 \in 0 .. MeshTime /\ v3 \in Seq(PM!Snapshots)
  BY <1>2, MeshAssumption
<1>7. v2 \in PM!Meshes
  BY <1>2, MeshAssumption DEF PM!Fresh, PM!Meshes
<1> QED BY <1>2, <1>3, <1>4, <1>5, <1>6, <1>7 DEF PM!Inv, PM!AllHints, PM!Moving, PM!LoneReplayRestores

\* The replays as records, whatever is changed in one of them.
Fields(w) == w = [at |-> w.at, of |-> w.of, path |-> w.path, alone |-> w.alone]

LEMMA Moved ==
  ASSUME NEW w, Fields(w), NEW new
  PROVE  LET moved == [w EXCEPT !.at = new]
         IN  Fields(moved) /\ moved.at = new /\ moved.of = w.of /\ moved.path = w.path /\ moved.alone = w.alone
<1> DEFINE of == w.of
           path == w.path
           alone == w.alone
           at == w.at
<1>1. w = [at |-> at, of |-> of, path |-> path, alone |-> alone]
  BY DEF Fields
<1> HIDE DEF of, path, alone, at
<1>2. [[at |-> at, of |-> of, path |-> path, alone |-> alone] EXCEPT !.at = new]
      = [at |-> new, of |-> of, path |-> path, alone |-> alone]
  OBVIOUS
<1>3. [w EXCEPT !.at = new] = [at |-> new, of |-> of, path |-> path, alone |-> alone]
  BY <1>1, <1>2
<1> QED BY <1>3 DEF Fields, of, path, alone

LEMMA NotAlone ==
  ASSUME NEW w, Fields(w)
  PROVE  LET other == [w EXCEPT !.alone = FALSE]
         IN  Fields(other) /\ other.at = w.at /\ other.of = w.of /\ other.path = w.path /\ other.alone = FALSE
<1> DEFINE at == w.at
           of == w.of
           path == w.path
           alone == w.alone
           no == FALSE
<1>1. w = [at |-> at, of |-> of, path |-> path, alone |-> alone]
  BY DEF Fields
<1> HIDE DEF at, of, path, alone, no
<1>2. [[at |-> at, of |-> of, path |-> path, alone |-> alone] EXCEPT !.alone = no]
      = [at |-> at, of |-> of, path |-> path, alone |-> no]
  OBVIOUS
<1>3. [w EXCEPT !.alone = no] = [at |-> at, of |-> of, path |-> path, alone |-> no]
  BY <1>1, <1>2
<1> QED BY <1>3 DEF Fields, at, of, path, no

LEMMA PolicyNext == PolicyInv /\ [Next]_all => PolicyInv'
<1> SUFFICES ASSUME PolicyInv, [Next]_all, which' = "policy" PROVE PM!Inv'
  BY DEF PolicyInv
<1>1. PM!Inv /\ [PM!Next]_deciding
  BY PolicySteps DEF PolicyInv
<1> DEFINE Kept == {None} \cup {<<h>> : h \in PM!AllHints}
           Times == 0 .. MeshTime
           Moves(r) == v6[r].at \notin {"idle", "done"}
\* What is known of a replay under way.
           Safe(r) == /\ v6[r].path \in Times /\ v6[r].of \in PM!Snapshots
                      /\ v6[r].alone => /\ \A q \in Replays \ {r} : ~Moves(q)
                                        /\ v6[r].at \in {"writing", "loading"} => v2 = v6[r].of.mesh
                                        /\ v6[r].at = "loading" => v5[v6[r].path] = <<v6[r].of.hints>>
<1>2. /\ v1 \in PM!AllHints /\ v2 \in PM!Meshes /\ v3 \in Seq(PM!Snapshots) /\ v4 \in Times
      /\ v5 \in [Times -> Kept] /\ DOMAIN v6 = Replays /\ (\A r \in Replays : Fields(v6[r]))
      /\ (\A r \in Replays : Moves(r) => Safe(r))
      /\ PM!LoneReplayRestores
  BY <1>1 DEF PM!Inv, PM!Moving, Fields
<1>3. ASSUME v1' \in PM!AllHints, v2' \in PM!Meshes, v3' \in Seq(PM!Snapshots), v4' \in Times,
             v5' \in [Times -> Kept], v6' = [r \in Replays |-> v6'[r]], \A r \in Replays : Fields(v6'[r]),
             \A r \in Replays : (Moves(r))' => (Safe(r))',
             PM!LoneReplayRestores'
      PROVE  PM!Inv'
  <2>1. v6' = [r \in Replays |-> [at |-> v6'[r].at, of |-> v6'[r].of, path |-> v6'[r].path, alone |-> v6'[r].alone]]
    BY <1>3 DEF Fields
  <2> QED BY <1>3, <2>1 DEF PM!Inv, PM!Moving
<1>4. v6 = [r \in Replays |-> v6[r]]
  BY <1>1 DEF PM!Inv
<1>5. CASE UNCHANGED deciding
  <2>1. v1' = v1 /\ v2' = v2 /\ v3' = v3 /\ v4' = v4 /\ v5' = v5 /\ v6' = v6 /\ v7' = v7
    BY <1>5 DEF deciding
  <2> QED BY <1>2, <1>3, <1>4, <2>1 DEF PM!LoneReplayRestores
<1>6. CASE PM!Tick
  <2>1. v1' = v1 /\ v2' = v2 /\ v3' = v3 /\ v4 < MeshTime /\ v4' = v4 + 1 /\ v5' = v5 /\ v6' = v6 /\ v7' = v7
    BY <1>6 DEF PM!Tick
  <2>2. v4' \in Times
    BY <1>2, <2>1, MeshAssumption
  <2> QED BY <1>2, <1>3, <1>4, <2>1, <2>2 DEF PM!LoneReplayRestores
\* Once disturbed, a replay has nothing to restore.
<1>7. ASSUME v6' = PM!Disturbed
      PROVE  /\ v6' = [r \in Replays |-> v6'[r]]
             /\ \A r \in Replays : /\ Fields(v6'[r]) /\ v6'[r].at = v6[r].at /\ v6'[r].of = v6[r].of
                                   /\ v6'[r].path = v6[r].path /\ v6'[r].alone = FALSE
  <2>1. \A r \in Replays : v6'[r] = [v6[r] EXCEPT !.alone = FALSE]
    BY <1>7 DEF PM!Disturbed
  <2> QED BY <1>2, <1>7, <2>1, NotAlone DEF PM!Disturbed
<1>8. ASSUME NEW m \in Metrics, PM!observe(m) PROVE PM!Inv'
  <2>1. /\ v1' = PM!HintsOf(m) /\ v7' = None /\ v6' = PM!Disturbed
        /\ v2' = v2 /\ v3' = v3 /\ v4' = v4 /\ v5' = v5
    BY <1>8 DEF PM!observe
  <2>2. v1' \in PM!AllHints
    BY <2>1 DEF PM!AllHints
  <2>3. \A r \in Replays : (Moves(r))' => (Safe(r))'
    BY <1>2, <1>7, <2>1
  <2> QED BY <1>2, <1>3, <1>7, <2>1, <2>2, <2>3 DEF PM!LoneReplayRestores
<1>9. CASE PM!Steer
  <2>1. /\ v7' = None /\ v6' = PM!Disturbed /\ v1' = v1 /\ v3' = v3 /\ v4' = v4 /\ v5' = v5
    BY <1>9 DEF PM!Steer
  <2>2. v2' \in PM!Meshes
    BY <1>2, <1>9 DEF PM!Steer, PM!Meshes
  <2>3. \A r \in Replays : (Moves(r))' => (Safe(r))'
    BY <1>2, <1>7, <2>1
  <2> QED BY <1>2, <1>3, <1>7, <2>1, <2>2, <2>3 DEF PM!LoneReplayRestores
<1>10. CASE PM!exportSnapshot
  <2>1. /\ v3' = Append(v3, [mesh |-> v2, hints |-> v1]) /\ v1' = v1 /\ v2' = v2 /\ v4' = v4 /\ v5' = v5
        /\ v6' = v6 /\ v7' = v7
    BY <1>10 DEF PM!exportSnapshot
  <2>2. [mesh |-> v2, hints |-> v1] \in PM!Snapshots
    BY <1>2 DEF PM!Snapshots
  <2>3. v3' \in Seq(PM!Snapshots)
    BY <1>2, <2>1, <2>2
  <2> QED BY <1>2, <1>3, <1>4, <2>1, <2>3 DEF PM!LoneReplayRestores
<1>11. ASSUME NEW r \in Replays, NEW s \in PM!Snapshots, PM!BeginReplay(r, s) PROVE PM!Inv'
  <2> DEFINE none == \A q \in Replays : v6[q].at \in {"idle", "done"}
             new == [at |-> "writing", of |-> s, path |-> v4, alone |-> none]
  <2>1. /\ v6[r].at = "idle" /\ v2' = s.mesh /\ v7' = None /\ v1' = v1 /\ v3' = v3 /\ v4' = v4 /\ v5' = v5
        /\ v6' = [PM!Disturbed EXCEPT ![r] = new]
    BY <1>11 DEF PM!BeginReplay
  <2> HIDE DEF none
  <2>2. Fields(new) /\ new.at = "writing" /\ new.of = s /\ new.path = v4 /\ (new.alone <=> none)
    BY DEF Fields
  <2> HIDE DEF new
  <2>3. v6' = [q \in Replays |-> v6'[q]] /\ v6'[r] = new /\ \A q \in Replays \ {r} : v6'[q] = [v6[q] EXCEPT !.alone = FALSE]
    BY <2>1 DEF PM!Disturbed
  <2>4. \A q \in Replays \ {r} : /\ Fields(v6'[q]) /\ v6'[q].at = v6[q].at /\ v6'[q].of = v6[q].of
                                 /\ v6'[q].path = v6[q].path /\ v6'[q].alone = FALSE
    <3> SUFFICES ASSUME NEW q \in Replays \ {r}
                 PROVE  /\ Fields(v6'[q]) /\ v6'[q].at = v6[q].at /\ v6'[q].of = v6[q].of
                        /\ v6'[q].path = v6[q].path /\ v6'[q].alone = FALSE
      OBVIOUS
    <3>1. Fields(v6[q]) /\ v6'[q] = [v6[q] EXCEPT !.alone = FALSE]
      BY <1>2, <2>3
    <3> QED BY <3>1, NotAlone
  <2>5. v2' \in PM!Meshes
    BY <2>1 DEF PM!Snapshots
  <2>6. (Safe(r))'
    <3>1. v6'[r].path \in Times /\ v6'[r].of \in PM!Snapshots
      BY <1>2, <2>2, <2>3
    <3>2. v6'[r].alone => \A q \in Replays \ {r} : ~(Moves(q))'
      BY <2>2, <2>3, <2>4 DEF none
    <3> QED BY <2>1, <2>2, <2>3, <3>1, <3>2
  <2>7. \A q \in Replays \ {r} : (Moves(q))' => (Safe(q))'
    BY <1>2, <2>1, <2>4
  <2>8. \A q \in Replays : Fields(v6'[q])
    BY <2>2, <2>3, <2>4
  <2> QED BY <1>2, <1>3, <2>1, <2>3, <2>5, <2>6, <2>7, <2>8 DEF PM!LoneReplayRestores
\* One replay takes a step of its own; it was alone if it is.
<1>12. ASSUME NEW r \in Replays, NEW at, Moves(r), PM!Put(r, at)
       PROVE  /\ v6' = [q \in Replays |-> v6'[q]] /\ \A q \in Replays : Fields(v6'[q])
              /\ v6'[r].at = at /\ v6'[r].of = v6[r].of /\ v6'[r].path = v6[r].path /\ v6'[r].alone = v6[r].alone
              /\ \A q \in Replays \ {r} : v6'[q] = v6[q] /\ (Moves(q) => ~v6[q].alone)
  <2>1. v6'[r] = [v6[r] EXCEPT !.at = at] /\ v6' = [q \in Replays |-> v6'[q]] /\ \A q \in Replays \ {r} : v6'[q] = v6[q]
    BY <1>2, <1>12 DEF PM!Put
  <2>2. \A q \in Replays \ {r} : Moves(q) => ~v6[q].alone
    BY <1>2, <1>12
  <2>3. Fields(v6'[r]) /\ v6'[r].at = at /\ v6'[r].of = v6[r].of /\ v6'[r].path = v6[r].path /\ v6'[r].alone = v6[r].alone
    <3>1. Fields(v6[r])
      BY <1>2
    <3> QED BY <2>1, <3>1, Moved
  <2> QED BY <1>2, <2>1, <2>2, <2>3
<1>13. ASSUME NEW r \in Replays, PM!WriteTuner(r) PROVE PM!Inv'
  <2>1. /\ v6[r].at = "writing" /\ PM!Put(r, "loading") /\ v5' = [v5 EXCEPT ![v6[r].path] = <<v6[r].of.hints>>]
        /\ v1' = v1 /\ v2' = v2 /\ v3' = v3 /\ v4' = v4 /\ v7' = v7
    BY <1>13 DEF PM!WriteTuner
  <2>2. Moves(r) /\ Safe(r)
    BY <1>2, <2>1
  <2>3. v5' \in [Times -> Kept] /\ v5'[v6[r].path] = <<v6[r].of.hints>>
    BY <1>2, <2>1, <2>2 DEF PM!Snapshots
  <2>4. \A q \in Replays : (Moves(q))' => (Safe(q))'
    BY <1>2, <1>12, <2>1, <2>2, <2>3
  <2> QED BY <1>2, <1>3, <1>12, <2>1, <2>2, <2>3, <2>4 DEF PM!LoneReplayRestores
<1>14. ASSUME NEW r \in Replays, PM!LoadTuner(r) PROVE PM!Inv'
  <2> DEFINE found == v5[v6[r].path]
  <2>1. /\ v6[r].at = "loading" /\ PM!Put(r, "removing")
        /\ v1' = IF found = None THEN v1 ELSE found[1]
        /\ v7' = IF v6[r].alone THEN v6[r].of ELSE None
        /\ v2' = v2 /\ v3' = v3 /\ v4' = v4 /\ v5' = v5
    BY <1>14 DEF PM!LoadTuner, PM!Loaded
  <2>2. Moves(r) /\ Safe(r)
    BY <1>2, <2>1
  <2>3. v1' \in PM!AllHints
    BY <1>2, <2>1, <2>2
  <2>4. \A q \in Replays : (Moves(q))' => (Safe(q))'
    BY <1>2, <1>12, <2>1, <2>2
  <2>5. PM!LoneReplayRestores'
    <3>1. CASE v6[r].alone
      <4>1. v6[r].of.hints \in PM!AllHints
        BY <2>2 DEF PM!Snapshots
      <4>2. found = <<v6[r].of.hints>> /\ found # None /\ v2 = v6[r].of.mesh
        BY <2>1, <2>2, <3>1, <4>1, NoneAssumption
      <4> QED BY <2>1, <3>1, <4>2 DEF PM!LoneReplayRestores
    <3>2. CASE ~v6[r].alone
      BY <2>1, <3>2 DEF PM!LoneReplayRestores
    <3> QED BY <3>1, <3>2
  <2> QED BY <1>2, <1>3, <1>12, <2>1, <2>2, <2>3, <2>4, <2>5
<1>15. ASSUME NEW r \in Replays, PM!RemoveTuner(r) PROVE PM!Inv'
  <2>1. /\ v6[r].at = "removing" /\ PM!Put(r, "done") /\ v5' = [v5 EXCEPT ![v6[r].path] = None]
        /\ v1' = v1 /\ v2' = v2 /\ v3' = v3 /\ v4' = v4 /\ v7' = v7
    BY <1>15 DEF PM!RemoveTuner
  <2>2. Moves(r) /\ Safe(r)
    BY <1>2, <2>1
  <2>3. v5' \in [Times -> Kept]
    BY <1>2, <2>1
  <2>4. \A q \in Replays : (Moves(q))' => (Safe(q))'
    BY <1>2, <1>12, <2>1, <2>2
  <2> QED BY <1>2, <1>3, <1>12, <2>1, <2>2, <2>3, <2>4 DEF PM!LoneReplayRestores
<1>16. \A i \in DOMAIN v3 : v3[i] \in PM!Snapshots
  BY <1>2, LenProperties, ElementOfSeq
<1> QED BY <1>1, <1>5, <1>6, <1>8, <1>9, <1>10, <1>11, <1>13, <1>14, <1>15, <1>16 DEF PM!Next

LEMMA PolicyAlways == Spec => []PolicyInv
BY PolicyInit, PolicyNext, PTL DEF Spec

\* The stages of the ladders.
Stages == {"full-stream", "incremental-stream", "hybrid-cache", "cache-serve", "shell-only", "typed-error"}

\* A decision has a ladder of stages whatever it is made from.
LEMMA DecisionHasLadder ==
  ASSUME NEW class \in PM!RouteClasses, NEW req \in PM!Requests
  PROVE  LET d == PM!createHeuristicDecision(class, req)
         IN  /\ d = [strategy |-> d.strategy, runtime |-> d.runtime, priority |-> d.priority, ttl |-> d.ttl,
                     profile |-> d.profile, ladder |-> d.ladder]
             /\ d.ladder \in Seq(Stages)
<1>1. ASSUME NEW s, NEW u, NEW p, NEW t, NEW f, NEW l \in Seq(Stages),
             PM!createHeuristicDecision(class, req) = PM!Made(s, u, p, t, f, l)
      PROVE  LET d == PM!createHeuristicDecision(class, req)
             IN  /\ d = [strategy |-> d.strategy, runtime |-> d.runtime, priority |-> d.priority, ttl |-> d.ttl,
                         profile |-> d.profile, ladder |-> d.ladder]
                 /\ d.ladder \in Seq(Stages)
  BY <1>1 DEF PM!Made
<1>2. req.degraded \in BOOLEAN /\ req.auth \in BOOLEAN /\ req.bot \in BOOLEAN
  BY DEF PM!Requests
<1>3. CASE req.degraded
  <2> DEFINE ladder == <<"cache-serve", "shell-only", "typed-error">>
  <2>1. PM!createHeuristicDecision(class, req)
        = PM!Made("cache", "node", "high", 120, "strict", ladder)
    BY <1>3 DEF PM!createHeuristicDecision
  <2>2. ladder \in Seq(Stages)
    BY DEF Stages
  <2> HIDE DEF ladder
  <2> QED BY <1>1, <2>1, <2>2
<1>4. CASE ~req.degraded /\ (req.auth \/ class = "auth-sensitive")
  <2> DEFINE ladder == <<"full-stream", "incremental-stream", "shell-only", "typed-error">>
  <2>1. PM!createHeuristicDecision(class, req)
        = PM!Made("stream", "node", "critical", None, "resilience-biased", ladder)
    BY <1>4 DEF PM!createHeuristicDecision
  <2>2. ladder \in Seq(Stages)
    BY DEF Stages
  <2> HIDE DEF ladder
  <2> QED BY <1>1, <2>1, <2>2
<1>5. CASE ~req.degraded /\ ~req.auth /\ class = "latency-critical"
  <2> DEFINE ladder == <<"full-stream", "hybrid-cache", "cache-serve", "shell-only">>
  <2>1. PM!createHeuristicDecision(class, req)
        = PM!Made("hybrid", IF req.hint = None THEN "node" ELSE req.hint, "critical", 30, "latency-biased", ladder)
    BY <1>5 DEF PM!createHeuristicDecision
  <2>2. ladder \in Seq(Stages)
    BY DEF Stages
  <2> HIDE DEF ladder
  <2> QED BY <1>1, <2>1, <2>2
<1>6. CASE ~req.degraded /\ ~req.auth /\ class \notin {"auth-sensitive", "latency-critical"}
  <2>1. CASE class = "edge-friendly" \/ req.bot
    <3> DEFINE ladder == <<"cache-serve", "shell-only", "typed-error">>
    <3>1. PM!createHeuristicDecision(class, req)
          = PM!Made("cache", "edge", "normal", 300, "balanced", ladder)
      BY <1>6, <2>1 DEF PM!createHeuristicDecision
    <3>2. ladder \in Seq(Stages)
      BY DEF Stages
    <3> HIDE DEF ladder
    <3> QED BY <1>1, <3>1, <3>2
  <2>2. CASE ~(class = "edge-friendly" \/ req.bot)
    <3> DEFINE ladder == <<"full-stream", "hybrid-cache", "cache-serve", "shell-only", "typed-error">>
    <3>1. PM!createHeuristicDecision(class, req)
          = PM!Made("hybrid", "node", "normal", 60, "balanced", ladder)
      BY <1>6, <2>2 DEF PM!createHeuristicDecision
    <3>2. ladder \in Seq(Stages)
      BY DEF Stages
    <3> HIDE DEF ladder
    <3> QED BY <1>1, <3>1, <3>2
  <2> QED BY <2>1, <2>2
<1> QED BY <1>2, <1>3, <1>4, <1>5, <1>6

LEMMA PolicySays == PolicyInv => PM_FailingRoutesAreContained /\ PM_LoneReplayRestores
<1> SUFFICES ASSUME PolicyInv, which = "policy"
             PROVE  PM!FailingRoutesAreContained /\ PM!LoneReplayRestores
  BY DEF PM_FailingRoutesAreContained, PM_LoneReplayRestores
<1>1. v1 \in PM!AllHints /\ PM!LoneReplayRestores
  BY DEF PolicyInv, PM!Inv
<1>2. ASSUME v1 # None, v1.degradeTo # None, NEW class \in PM!RouteClasses, NEW req \in PM!Requests
      PROVE  LET d == PM!Decision(class, req)
             IN  d.profile = "strict" /\ d.runtime = "node" /\ PM!Has(d.ladder, v1.degradeTo)
  <2> DEFINE base == PM!createHeuristicDecision(class, req)
             hinted == PM!applyHints(base, v1)
             stage == v1.degradeTo
  <2>1. PICK m \in Metrics : v1 = PM!HintsOf(m)
    BY <1>1, <1>2 DEF PM!AllHints
  <2>2. v1.degradeTo = "hybrid-cache" /\ v1.runtime = "node"
    BY <1>2, <2>1 DEF PM!HintsOf, PM!RuntimeHint
  <2>3. /\ base = [strategy |-> base.strategy, runtime |-> base.runtime, priority |-> base.priority, ttl |-> base.ttl,
                   profile |-> base.profile, ladder |-> base.ladder]
        /\ base.ladder \in Seq(Stages)
    BY DecisionHasLadder
  <2>4. PM!Decision(class, req) = PM!tighten(hinted, v1)
    BY <1>2 DEF PM!Decision
  <2> HIDE DEF base
  <2>5. PM!Or(v1.runtime, base.runtime) = "node"
    BY <2>2, NoneAssumption DEF PM!Or
  <2> DEFINE strategy == PM!Or(v1.strategy, base.strategy)
             priority == PM!Or(v1.priority, base.priority)
             ttl == PM!Or(v1.ttl, base.ttl)
             ladder == base.ladder
             profile == base.profile
  <2>6. hinted = [base EXCEPT !.strategy = strategy, !.runtime = "node", !.priority = priority, !.ttl = ttl]
    BY <2>5 DEF PM!applyHints
  <2> HIDE DEF hinted, strategy, priority, ttl
  <2>7. hinted = [strategy |-> strategy, runtime |-> "node", priority |-> priority, ttl |-> ttl,
                  profile |-> profile, ladder |-> ladder]
    BY <2>3, <2>6
  <2> DEFINE longer == IF PM!Has(ladder, stage) THEN ladder ELSE Append(ladder, stage)
  <2>8. PM!tighten(hinted, v1) = [hinted EXCEPT !.ladder = IF PM!Has(hinted.ladder, stage) THEN hinted.ladder
                                                            ELSE Append(hinted.ladder, stage),
                                                !.profile = "strict"]
    BY <1>2 DEF PM!tighten
  <2> HIDE DEF ladder, profile
  <2>9. hinted.ladder = ladder
    BY <2>7
  <2>10. PM!tighten(hinted, v1) = [hinted EXCEPT !.ladder = longer, !.profile = "strict"]
    BY <2>8, <2>9
  <2>11. PM!Has(longer, stage)
    <3>1. CASE PM!Has(ladder, stage)
      BY <3>1
    <3>2. CASE ~PM!Has(ladder, stage)
      <4>1. ladder \in Seq(Stages)
        BY <2>3 DEF ladder
      <4>4. stage \in Stages
        BY <2>2 DEF Stages
      <4>2. /\ Append(ladder, stage) \in Seq(Stages) /\ Len(ladder) \in Nat
            /\ Len(Append(ladder, stage)) = Len(ladder) + 1 /\ Append(ladder, stage)[Len(ladder) + 1] = stage
        BY <4>1, <4>4, ItemsOfAppend
      <4>3. Len(ladder) + 1 \in DOMAIN Append(ladder, stage)
        BY <4>2, LenProperties
      <4> QED BY <3>2, <4>2, <4>3 DEF PM!Has
    <3> QED BY <3>1, <3>2
  <2> HIDE DEF longer, stage
  <2>12. PM!tighten(hinted, v1) = [strategy |-> strategy, runtime |-> "node", priority |-> priority, ttl |-> ttl,
                                   profile |-> "strict", ladder |-> longer]
    BY <2>7, <2>10
  <2> QED BY <2>4, <2>11, <2>12 DEF stage
<1> QED BY <1>1, <1>2 DEF PM!FailingRoutesAreContained

\* What is invalidated is what depends on the data; a rollback takes its own patch, or with a
\* snapshot those applied after it too, and brings back refused ones before it; what was rolled
\* back is not pending; a failing route is contained; a replay restores what it loaded.
THEOREM PatchesHold == Spec => []PatchesAndPoliciesHold
<1>1. GraphInv /\ EngineInv /\ PolicyInv => PatchesAndPoliciesHold
  BY GraphSays, EngineSays, PolicySays DEF PatchesAndPoliciesHold
<1> QED BY <1>1, GraphAlways, EngineAlways, PolicyAlways, PTL

-----------------------------------------------------------------------------
(* A page: what was made of it so far, and from what.                      *)

PageInv == which = "page" => RP!Inv
rendering == <<v1, v2, v3, v4, v5, v6, v7, v8, v9>>

LEMMA PageSteps ==
  ASSUME [Next]_all, which' = "page"
  PROVE  which = "page" /\ [RP!Next]_rendering
BY DEF Next, all, shared, rendering

LEMMA PageInit == Init => PageInv
<1> SUFFICES ASSUME Init, which = "page" PROVE RP!Inv
  BY DEF PageInv
<1>1. RP!Init
  BY DEF Init
<1> QED BY <1>1 DEF RP!Init, RP!Inv

LEMMA PageNext == PageInv /\ [Next]_all => PageInv'
<1> SUFFICES ASSUME PageInv, [Next]_all, which' = "page" PROVE RP!Inv'
  BY DEF PageInv
<1>1. RP!Inv /\ [RP!Next]_rendering
  BY PageSteps DEF PageInv
<1>2. ASSUME UNCHANGED <<v1, v2, v3, v4>>
      PROVE  RP!Elements' = RP!Elements /\ (RP!ResolvedEntry(v4))' = RP!ResolvedEntry(v4')
  BY <1>2 DEF RP!Elements, RP!Wrapped, RP!Nested, RP!Without, RP!Rendered, RP!ResolvedEntry, RP!Candidates
<1>10. ASSUME UNCHANGED v1 PROVE RP!SlotElements' = RP!SlotElements
  BY <1>10 DEF RP!SlotElements, RP!Without, RP!Rendered
<1>3. CASE UNCHANGED rendering
  <2>1. UNCHANGED <<v1, v2, v3, v4, v5, v6, v7, v8, v9>>
    BY <1>3 DEF rendering
  <2> QED BY <1>1, <1>2, <1>10, <2>1 DEF RP!Inv
<1>4. CASE RP!Write
  <2>1. v5' \in Nat /\ v5 <= v5' /\ v5 \in Nat
    BY <1>1, <1>4 DEF RP!Inv, RP!Write
  <2> QED BY <1>1, <1>2, <1>10, <1>4, <2>1 DEF RP!Inv, RP!Write
<1>5. CASE RP!LoadModules
  BY <1>1, <1>2, <1>10, <1>5 DEF RP!Inv, RP!LoadModules
<1>6. CASE RP!BuildMarkup
  BY <1>1, <1>2, <1>10, <1>6 DEF RP!Inv, RP!BuildMarkup
<1>7. CASE RP!WorkerRender
  BY <1>1, <1>2, <1>10, <1>7 DEF RP!Inv, RP!WorkerRender, RP!PayloadVersion, RP!RouteComponents
<1>8. CASE RP!WorkerFails
  BY <1>1, <1>2, <1>10, <1>8 DEF RP!Inv, RP!WorkerFails
<1>9. CASE RP!Respond
  BY <1>1, <1>2, <1>10, <1>9 DEF RP!Inv, RP!Respond
<1> QED BY <1>1, <1>3, <1>4, <1>5, <1>6, <1>7, <1>8, <1>9 DEF RP!Next

LEMMA PageAlways == Spec => []PageInv
BY PageInit, PageNext, PTL DEF Spec

\* What a snapshot names is preloaded, and what hydrates is no older than what it finds.
LEMMA PageSays == PageInv => RP_SnapshotIsPreloaded /\ RP_PayloadIsNoOlder
<1> SUFFICES ASSUME RP!Inv, which = "page" PROVE RP!SnapshotIsPreloaded /\ RP!PayloadIsNoOlder
  BY DEF PageInv, RP_SnapshotIsPreloaded, RP_PayloadIsNoOlder
<1>1. RP!PayloadIsNoOlder
  BY DEF RP!Inv, RP!PayloadIsNoOlder
<1>2. RP!SnapshotIsPreloaded
  BY DEF RP!SnapshotIsPreloaded, RP!SnapshotHrefs, RP!ManifestRefs, RP!Refs, RP!AssetHead, RP!ModulePreloads, RP!FetchPreloads
<1> QED BY <1>1, <1>2

\* A name ends with itself.
LEMMA EndsWithItself ==
  ASSUME NEW name \in Seq(STRING)
  PROVE  RP!IsSuffix(name, RP!ParentFile \o name)
<1>1. RP!ParentFile \o name = name
  BY DEF RP!ParentFile
<1>2. RP!Reverse(name) \in Seq(STRING) /\ Len(RP!Reverse(name)) \in Nat
  BY LenProperties DEF RP!Reverse
<1> QED BY <1>1, <1>2 DEF RP!IsSuffix, RP!IsPrefix

\* The entry an island was resolved to could be taken for it.
LEMMA ResolvedIsConfusable == PageInv => RP_IslandIsItsOwn
<1> SUFFICES ASSUME RP!Inv, v6 = "done" PROVE RP!Confusable(v9.ref) /\ v9.ref \in DOMAIN Registry
  BY DEF PageInv, RP_IslandIsItsOwn, RP!IslandIsItsOwn, RP!Confusable
<1>1. v4 \in Islands /\ v9.ref = RP!ResolvedEntry(v4) /\ v9.ref # 0
  BY DEF RP!Inv
<1>2. v4.id \in Seq(STRING) /\ v4.component \in Seq(STRING) /\ DOMAIN Registry \in SUBSET Nat
  BY <1>1, RegistryAssumption
<1>3. ASSUME NEW S \in SUBSET Nat, S # {} PROVE RP!FirstOf(S) \in S
  BY <1>3, LeastNumber DEF RP!FirstOf
<1>4. ASSUME NEW name, RP!Candidates(v4, name) # {}
      PROVE  RP!FirstOf(RP!Candidates(v4, name)) \in RP!Candidates(v4, name)
  <2>1. RP!Candidates(v4, name) \in SUBSET Nat
    BY <1>2 DEF RP!Candidates
  <2> QED BY <1>3, <1>4, <2>1
<1>5. RP!FirstOf({}) = 0
  BY DEF RP!FirstOf
<1>6. v9.ref \in RP!Candidates(v4, v4.id) \cup RP!Candidates(v4, v4.component)
  BY <1>1, <1>4, <1>5 DEF RP!ResolvedEntry
<1>7. ASSUME NEW name \in {v4.id, v4.component}, NEW n \in RP!Candidates(v4, name)
      PROVE  RP!Confusable(n) /\ n \in DOMAIN Registry
  <2>1. n \in DOMAIN Registry /\ Registry[n].export = v4.export
        /\ (RP!IsSuffix(name, Registry[n].path) \/ Registry[n].path = RP!ParentFile \o name)
    BY DEF RP!Candidates, RP!ExportMatches, RP!EndsWith
  <2>2. RP!IsSuffix(name, Registry[n].path)
    BY <1>2, <2>1, EndsWithItself
  <2> QED BY <2>1, <2>2 DEF RP!Confusable
<1> QED BY <1>6, <1>7

\* Two functions that take the same steps from the same beginning are the same.
Alike(F, G, N) == F[0] = G[0] /\ \A n \in 1 .. N : F[n - 1] = G[n - 1] => F[n] = G[n]
LEMMA SameSteps ==
  ASSUME NEW N \in Nat, NEW F, NEW G, Alike(F, G, N)
  PROVE  \A n \in 0 .. N : F[n] = G[n]
<1> SUFFICES ASSUME NEW l \in 0 .. N, F[l] # G[l] PROVE FALSE
  OBVIOUS
<1> USE DEF Alike
<1> DEFINE wrong == {n \in 0 .. N : F[n] # G[n]}
<1>1. PICK m \in wrong : \A k \in wrong : m <= k
  <2>1. wrong \in SUBSET Nat /\ wrong # {}
    OBVIOUS
  <2> HIDE DEF wrong
  <2> QED BY <2>1, LeastNumber
<1>2. m \in 1 .. N /\ m - 1 \in 0 .. N
  OBVIOUS
<1>3. m - 1 \notin wrong
  <2>1. ~(m <= m - 1)
    BY <1>2
  <2> HIDE DEF wrong
  <2> QED BY <1>1, <2>1
<1> QED BY <1>2, <1>3

\* A function by recursion along the first numbers exists: there would be a least number up
\* to which it does not.
StepsOf(h, V, N) == h \in [1 .. N -> [V -> V]]
Runs(F, h, base, V, N) == F \in [0 .. N -> V] /\ F[0] = base /\ \A n \in 1 .. N : F[n] = h[n][F[n - 1]]
LEMMA Recursion ==
  ASSUME NEW V, NEW N \in Nat, NEW base \in V, NEW h, StepsOf(h, V, N)
  PROVE  \E F : Runs(F, h, base, V, N)
<1> USE DEF StepsOf, Runs
<1> DEFINE Up(n, F) == F \in [0 .. n -> V] /\ F[0] = base /\ \A k \in 1 .. n : F[k] = h[k][F[k - 1]]
<1> SUFFICES ASSUME ~\E F : Up(N, F) PROVE FALSE
  OBVIOUS
<1> DEFINE none == {n \in 0 .. N : ~\E F : Up(n, F)}
<1>1. PICK m \in none : \A k \in none : m <= k
  <2> HIDE DEF Up
  <2>1. none \in SUBSET Nat /\ N \in none
    OBVIOUS
  <2> HIDE DEF none
  <2> QED BY <2>1, LeastNumber
<1>2. m # 0
  <2>1. Up(0, [i \in 0 .. 0 |-> base])
    OBVIOUS
  <2> QED BY <2>1
<1>3. m \in 1 .. N /\ m - 1 \in 0 .. N /\ m - 1 \notin none
  <2>1. m \in 1 .. N /\ m - 1 \in 0 .. N /\ ~(m <= m - 1)
    BY <1>2
  <2> HIDE DEF none
  <2> QED BY <1>1, <2>1
<1>4. PICK F : Up(m - 1, F)
  BY <1>3
<1> DEFINE last == h[m][F[m - 1]]
           H == [i \in 0 .. m |-> IF i = m THEN last ELSE F[i]]
<1>5. F[m - 1] \in V /\ last \in V
  BY <1>3, <1>4
<1>6. \A i \in 0 .. m : i = m \/ (i \in 0 .. (m - 1) /\ F[i] \in V)
  BY <1>3, <1>4
<1> HIDE DEF last
<1>7. H \in [0 .. m -> V] /\ H[0] = base
  BY <1>3, <1>4, <1>5, <1>6
<1>8. ASSUME NEW k \in 1 .. m PROVE H[k] = h[k][H[k - 1]]
  <2>1. H[k - 1] = F[k - 1]
    BY <1>3
  <2>2. CASE k = m
    BY <2>1, <2>2 DEF last
  <2>3. CASE k # m
    <3>1. k \in 1 .. (m - 1) /\ H[k] = F[k]
      BY <1>3, <2>3
    <3> QED BY <1>4, <2>1, <3>1
  <2> QED BY <2>2, <2>3
<1>9. Up(m, H)
  <2> HIDE DEF H
  <2> QED BY <1>7, <1>8
<1> QED BY <1>1, <1>9

\* Sequences put one behind the other, up to each place.
LEMMA FlattenedSoFar ==
  ASSUME NEW T, NEW ss \in Seq(Seq(T))
  PROVE  \E F \in [0 .. Len(ss) -> Seq(T)] :
           /\ F[0] = <<>> /\ F[Len(ss)] = RP!FlattenSeq(ss)
           /\ \A i \in 1 .. Len(ss) : F[i] = F[i - 1] \o ss[i]
<1> DEFINE N == Len(ss)
           V == Seq(T)
           h == [i \in 1 .. N |-> [s \in V |-> s \o ss[i]]]
           Is(G) == G = [i \in 1 .. N |-> IF i = 1 THEN ss[i] ELSE G[i - 1] \o ss[i]]
           G == CHOOSE f : Is(f)
<1>1. N \in Nat /\ <<>> \in V /\ \A i \in 1 .. N : ss[i] \in V
  OBVIOUS
<1>2. h \in [1 .. N -> [V -> V]] /\ \A i \in 1 .. N : \A s \in V : h[i][s] = s \o ss[i]
  <2>1. \A i \in 1 .. N : \A s \in V : s \o ss[i] \in V
    BY <1>1, ConcatProperties
  <2> QED BY <2>1
<1>3. \A i \in 1 .. N : <<>> \o ss[i] = ss[i]
  BY <1>1, ConcatEmptySeq
<1> HIDE DEF h, V, N
<1>4. PICK F \in [0 .. N -> V] : F[0] = <<>> /\ \A n \in 1 .. N : F[n] = h[n][F[n - 1]]
  <2>1. StepsOf(h, V, N)
    BY <1>2 DEF StepsOf
  <2>2. PICK F : Runs(F, h, <<>>, V, N)
    BY <1>1, <2>1, Recursion
  <2> QED BY <2>2 DEF Runs
<1>5. \A n \in 1 .. N : n - 1 \in 0 .. N /\ F[n - 1] \in V
  BY <1>1, <1>4
<1>6. \A n \in 1 .. N : F[n] = F[n - 1] \o ss[n]
  BY <1>2, <1>4, <1>5
<1>7. Is(G)
  <2> DEFINE D == [i \in 1 .. N |-> F[i]]
  <2>1. ASSUME NEW i \in 1 .. N PROVE D[i] = IF i = 1 THEN ss[i] ELSE D[i - 1] \o ss[i]
    <3>1. i # 1 => i - 1 \in 1 .. N
      BY <1>1
    <3>2. CASE i = 1
      <4>1. F[0] \o ss[i] = ss[i] /\ i - 1 = 0
        BY <1>3, <1>4, <3>2
      <4> QED BY <1>6, <3>2, <4>1
    <3>3. CASE i # 1
      BY <1>6, <3>1, <3>3
    <3> QED BY <3>2, <3>3
  <2>2. D = [i \in 1 .. N |-> D[i]]
    OBVIOUS
  <2> HIDE DEF D
  <2>3. Is(D)
    BY <2>1, <2>2
  <2> QED BY <2>3
<1>8. \A i \in 1 .. N : G[i] = IF i = 1 THEN ss[i] ELSE G[i - 1] \o ss[i]
  <2> HIDE DEF G
  <2> QED BY <1>7
<1>9. F[N] = RP!FlattenSeq(ss)
  <2>1. CASE N = 0
    <3>1. ss = <<>> /\ RP!FlattenSeq(ss) = ss
      BY <2>1 DEF N, RP!FlattenSeq
    <3> QED BY <1>4, <2>1, <3>1
  <2>2. CASE N # 0
    <3>1. RP!FlattenSeq(ss) = G[N]
      BY <2>2 DEF N, G, RP!FlattenSeq
    <3> HIDE DEF G
    <3> DEFINE E == [i \in 0 .. N |-> IF i = 0 THEN <<>> ELSE G[i]]
    <3>2. E[0] = F[0]
      BY <1>1, <1>4
    <3>3. ASSUME NEW n \in 1 .. N, E[n - 1] = F[n - 1] PROVE E[n] = F[n]
      <4>1. E[n] = G[n] /\ F[n] = E[n - 1] \o ss[n] /\ n - 1 \in 0 .. N
        <5>1. n \in 0 .. N /\ n - 1 \in 0 .. N /\ n # 0
          BY <1>1
        <5>2. E[n] = G[n]
          BY <5>1
        <5> HIDE DEF E
        <5> QED BY <1>6, <3>3, <5>1, <5>2
      <4>2. CASE n = 1
        <5>1. E[n - 1] = <<>>
          BY <4>1, <4>2
        <5> QED BY <1>3, <1>8, <4>1, <4>2, <5>1
      <4>3. CASE n # 1
        <5>1. E[n - 1] = G[n - 1]
          BY <4>1, <4>3
        <5> QED BY <1>8, <4>1, <4>3, <5>1
      <4> QED BY <4>2, <4>3
    <3>4. E[N] = G[N] /\ N \in 0 .. N
      BY <1>1, <2>2
    <3> HIDE DEF E
    <3>5. \A n \in 0 .. N : E[n] = F[n]
      <4>1. Alike(E, F, N)
        BY <3>2, <3>3 DEF Alike
      <4> QED BY <1>1, <4>1, SameSteps
    <3> QED BY <3>1, <3>4, <3>5
  <2> QED BY <2>1, <2>2
<1> QED BY <1>4, <1>6, <1>9 DEF N, V

\* What is left of files, up to each place.
Left(f, some) == IF f \in some THEN <<>> ELSE <<f>>

\* Sequences of one, and how concatenations group.
LEMMA OneIsASequence == \A T : \A e \in T : <<e>> \in Seq(T) /\ <<>> \in Seq(T)
OBVIOUS

LEMMA LeftIsASequence == \A f \in STRING : \A some : Left(f, some) \in Seq(STRING)
<1> SUFFICES ASSUME NEW f \in STRING, NEW some PROVE Left(f, some) \in Seq(STRING)
  OBVIOUS
<1>1. <<f>> \in Seq(STRING) /\ <<>> \in Seq(STRING)
  BY ONLY f \in STRING, OneIsASequence
<1> QED BY <1>1 DEF Left

LEMMA Grouped == \A a, b, c \in Seq(STRING) : (a \o b) \o c = a \o (b \o c)
BY ConcatAssociative

LEMMA LeftSoFar ==
  ASSUME NEW files \in Seq(STRING), NEW some
  PROVE  \E F \in [0 .. Len(files) -> Seq(STRING)] :
           /\ F[0] = <<>> /\ F[Len(files)] = RP!Without(files, some)
           /\ \A i \in 1 .. Len(files) : F[i] = F[i - 1] \o Left(files[i], some)
<1> DEFINE ss == [i \in DOMAIN files |-> IF files[i] \in some THEN <<>> ELSE <<files[i]>>]
<1>1. ss \in Seq(Seq(STRING)) /\ Len(ss) = Len(files)
  <2>1. DOMAIN files = 1 .. Len(files) /\ Len(files) \in Nat
    OBVIOUS
  <2>2. ASSUME NEW i \in 1 .. Len(files)
        PROVE  (IF files[i] \in some THEN <<>> ELSE <<files[i]>>) \in Seq(STRING)
    <3>1. files[i] \in STRING
      BY <2>1
    <3>2. <<files[i]>> \in Seq(STRING) /\ <<>> \in Seq(STRING)
      BY ONLY <3>1, OneIsASequence
    <3> QED BY <3>2
  <2> QED BY <2>1, <2>2
<1>2. \A i \in 1 .. Len(files) : ss[i] = Left(files[i], some)
  BY DEF Left
<1>3. RP!Without(files, some) = RP!FlattenSeq(ss)
  BY DEF RP!Without
<1> HIDE DEF ss
<1>4. PICK F \in [0 .. Len(ss) -> Seq(STRING)] :
        /\ F[0] = <<>> /\ F[Len(ss)] = RP!FlattenSeq(ss)
        /\ \A i \in 1 .. Len(ss) : F[i] = F[i - 1] \o ss[i]
  BY <1>1, FlattenedSoFar
<1> QED BY <1>1, <1>2, <1>3, <1>4

\* What is left of files is a sequence of files.
LEMMA WithoutIsASequence ==
  ASSUME NEW files \in Seq(STRING), NEW some PROVE RP!Without(files, some) \in Seq(STRING)
<1>1. PICK F \in [0 .. Len(files) -> Seq(STRING)] : F[Len(files)] = RP!Without(files, some)
  BY LeftSoFar
<1> QED BY <1>1

\* What is left of two sequences of files is what is left of each.
LEMMA WithoutEach ==
  ASSUME NEW s \in Seq(STRING), NEW t \in Seq(STRING), NEW some
  PROVE  RP!Without(s \o t, some) = RP!Without(s, some) \o RP!Without(t, some)
<1> DEFINE X == s \o t
           L == Len(s)
           M == Len(t)
<1>1. L \in Nat /\ M \in Nat /\ X \in Seq(STRING) /\ Len(X) = L + M
      /\ (\A i \in 1 .. L : X[i] = s[i]) /\ \A i \in 1 .. M : X[L + i] = t[i]
  <2>1. X \in Seq(STRING) /\ Len(X) = L + M
        /\ \A i \in 1 .. L + M : X[i] = IF i <= L THEN s[i] ELSE t[i - L]
    BY ConcatProperties
  <2>2. L \in Nat /\ M \in Nat
    OBVIOUS
  <2> HIDE DEF X, L, M
  <2>3. ASSUME NEW i \in 1 .. L PROVE X[i] = s[i]
    BY <2>1, <2>2
  <2>4. ASSUME NEW i \in 1 .. M PROVE X[L + i] = t[i]
    <3>1. L + i \in 1 .. L + M /\ ~(L + i <= L) /\ (L + i) - L = i
      BY <2>2
    <3> QED BY <2>1, <3>1
  <2> QED BY <2>1, <2>2, <2>3, <2>4
<1> HIDE DEF X
<1>2. PICK A \in [0 .. L -> Seq(STRING)] :
        /\ A[0] = <<>> /\ A[L] = RP!Without(s, some)
        /\ \A i \in 1 .. L : A[i] = A[i - 1] \o Left(s[i], some)
  BY LeftSoFar
<1>3. PICK B \in [0 .. M -> Seq(STRING)] :
        /\ B[0] = <<>> /\ B[M] = RP!Without(t, some)
        /\ \A i \in 1 .. M : B[i] = B[i - 1] \o Left(t[i], some)
  BY LeftSoFar
<1>4. PICK F \in [0 .. Len(X) -> Seq(STRING)] :
        /\ F[0] = <<>> /\ F[Len(X)] = RP!Without(X, some)
        /\ \A i \in 1 .. Len(X) : F[i] = F[i - 1] \o Left(X[i], some)
  BY <1>1, LeftSoFar
<1> HIDE DEF L, M
<1>5. \A i \in 1 .. L : i \in 1 .. Len(X)
  BY <1>1
<1>6. \A n \in 0 .. L : F[n] = A[n]
  <2>1. F[0] = A[0] /\ \A n \in 1 .. L : F[n - 1] = A[n - 1] => F[n] = A[n]
    BY <1>1, <1>2, <1>4, <1>5
  <2>2. Alike(F, A, L)
    BY <2>1 DEF Alike
  <2>3. L \in Nat
    BY <1>1
  <2> QED BY ONLY <2>2, <2>3, SameSteps
<1> DEFINE P == [j \in 0 .. M |-> F[L + j]]
           Q == [j \in 0 .. M |-> A[L] \o B[j]]
<1>7. \A j \in 0 .. M : P[j] = F[L + j] /\ Q[j] = A[L] \o B[j]
  OBVIOUS
<1>8. A[L] \in Seq(STRING) /\ A[L] \o B[0] = A[L] /\ 0 \in 0 .. M /\ M \in 0 .. M
  BY <1>1, <1>2, <1>3, ConcatEmptySeq
<1> HIDE DEF P, Q
<1>9. P[0] = Q[0]
  <2>1. L + 0 = L /\ L \in 0 .. L
    BY <1>1
  <2> QED BY <1>6, <1>7, <1>8, <2>1
<1>10. ASSUME NEW n \in 1 .. M, P[n - 1] = Q[n - 1] PROVE P[n] = Q[n]
  <2>1. n \in 0 .. M /\ n - 1 \in 0 .. M /\ L + n \in 1 .. Len(X) /\ (L + n) - 1 = L + (n - 1)
    BY <1>1
  <2>0. X[L + n] = t[n]
    BY <1>1
  <2>2. F[L + n] = F[L + (n - 1)] \o Left(t[n], some)
    <3>1. F[L + n] = F[(L + n) - 1] \o Left(X[L + n], some)
      BY <1>4, <2>1
    <3> QED BY <2>0, <2>1, <3>1
  <2>3. P[n] = (A[L] \o B[n - 1]) \o Left(t[n], some)
    BY <1>7, <1>10, <2>1, <2>2
  <2>4. B[n - 1] \in Seq(STRING) /\ Left(t[n], some) \in Seq(STRING)
    <3>1. t[n] \in STRING
      BY DEF M
    <3> QED BY <1>3, <2>1, <3>1, LeftIsASequence
  <2>5. P[n] = A[L] \o (B[n - 1] \o Left(t[n], some))
    BY ONLY <1>8, <2>3, <2>4, Grouped
  <2> QED BY <1>3, <1>7, <2>1, <2>5
<1>11. P[M] = Q[M]
  <2>1. Alike(P, Q, M)
    BY <1>9, <1>10 DEF Alike
  <2> QED BY <1>1, <1>8, <2>1, SameSteps
<1>12. F[L + M] = A[L] \o B[M]
  BY <1>7, <1>8, <1>11
<1> QED BY <1>1, <1>2, <1>3, <1>4, <1>12 DEF X

\* The elements nested around others, up to each file.
LEMMA NestedSoFar ==
  ASSUME NEW files \in Seq(STRING), NEW inner \in Seq(STRING)
  PROVE  \E G \in [0 .. Len(files) -> Seq(STRING)] :
           /\ G[0] = inner /\ G[Len(files)] = RP!Nested(files, inner)
           /\ \A n \in 1 .. Len(files) : G[n] = Left(files[n], v1.empty) \o G[n - 1]
<1> DEFINE N == Len(files)
           V == Seq(STRING)
           h == [n \in 1 .. N |-> [s \in V |-> Left(files[n], v1.empty) \o s]]
           Is(E) == E = [n \in 0 .. N |-> IF n = 0 THEN inner
                           ELSE (IF RP!Rendered(files[n]) THEN <<files[n]>> ELSE <<>>) \o E[n - 1]]
           E == CHOOSE f : Is(f)
<1>1. /\ N \in Nat /\ inner \in V
      /\ \A n \in 1 .. N : Left(files[n], v1.empty) \in V
      /\ \A f : (IF RP!Rendered(f) THEN <<f>> ELSE <<>>) = Left(f, v1.empty)
  <2>1. \A n \in 1 .. N : files[n] \in STRING
    OBVIOUS
  <2>2. \A f : (IF RP!Rendered(f) THEN <<f>> ELSE <<>>) = Left(f, v1.empty)
    BY DEF Left, RP!Rendered
  <2>3. \A n \in 1 .. N : Left(files[n], v1.empty) \in V
    BY <2>1, LeftIsASequence
  <2>4. N \in Nat /\ inner \in V
    OBVIOUS
  <2> QED BY <2>2, <2>3, <2>4
<1>2. h \in [1 .. N -> [V -> V]] /\ \A n \in 1 .. N : \A s \in V : h[n][s] = Left(files[n], v1.empty) \o s
  <2>1. \A n \in 1 .. N : \A s \in V : Left(files[n], v1.empty) \o s \in V
    BY <1>1, ConcatProperties
  <2> QED BY <2>1
<1>3. RP!Nested(files, inner) = E[N]
  BY DEF RP!Nested
<1> HIDE DEF h, V, N
<1>4. PICK G \in [0 .. N -> V] : G[0] = inner /\ \A n \in 1 .. N : G[n] = h[n][G[n - 1]]
  <2>1. StepsOf(h, V, N)
    BY <1>2 DEF StepsOf
  <2>2. PICK G : Runs(G, h, inner, V, N)
    BY <1>1, <2>1, Recursion
  <2> QED BY <2>2 DEF Runs
<1>5. \A n \in 1 .. N : n - 1 \in 0 .. N /\ G[n - 1] \in V
  BY <1>1, <1>4
<1>6. \A n \in 1 .. N : G[n] = Left(files[n], v1.empty) \o G[n - 1]
  BY <1>2, <1>4, <1>5
<1>7. Is(G)
  <2>1. ASSUME NEW n \in 0 .. N
        PROVE  G[n] = IF n = 0 THEN inner
                      ELSE (IF RP!Rendered(files[n]) THEN <<files[n]>> ELSE <<>>) \o G[n - 1]
    <3>1. CASE n = 0
      BY <1>4, <3>1
    <3>2. CASE n # 0
      <4>1. n \in 1 .. N
        BY <1>1, <3>2
      <4> QED BY <1>1, <1>6, <3>2, <4>1
    <3> QED BY <3>1, <3>2
  <2>2. G = [n \in 0 .. N |-> G[n]]
    BY <1>4
  <2> QED BY <2>1, <2>2
<1>8. Is(E)
  BY <1>7
<1> HIDE DEF E
<1>9. E[0] = inner /\ \A n \in 1 .. N : E[n] = Left(files[n], v1.empty) \o E[n - 1]
  <2>1. \A n \in 0 .. N : E[n] = IF n = 0 THEN inner
                           ELSE (IF RP!Rendered(files[n]) THEN <<files[n]>> ELSE <<>>) \o E[n - 1]
    BY <1>8
  <2>2. 0 \in 0 .. N /\ \A n \in 1 .. N : n \in 0 .. N /\ n # 0
    BY <1>1
  <2> QED BY <1>1, <2>1, <2>2
<1>10. \A n \in 0 .. N : E[n] = G[n]
  <2>1. \A n \in 1 .. N : E[n - 1] = G[n - 1] => E[n] = G[n]
    BY <1>6, <1>9
  <2>2. Alike(E, G, N)
    BY <1>4, <1>9, <2>1 DEF Alike
  <2> QED BY <1>1, <2>2, SameSteps
<1>11. N \in 0 .. N
  BY <1>1
<1> QED BY <1>3, <1>4, <1>6, <1>10, <1>11 DEF N, V

\* Wrapping in the layouts from the last to the first is having what is left of them in front.
LEMMA WrappedInReverse ==
  ASSUME NEW files \in Seq(STRING), NEW inner \in Seq(STRING)
  PROVE  RP!Nested(RP!Reverse(files), inner) = RP!Without(files, v1.empty) \o inner
<1> DEFINE R == RP!Reverse(files)
           L == Len(files)
<1>1. L \in Nat /\ R \in Seq(STRING) /\ Len(R) = L /\ \A n \in 1 .. L : R[n] = files[(L - n) + 1]
  <2>1. R = [n \in 1 .. L |-> files[(L - n) + 1]] /\ L \in Nat
    BY DEF RP!Reverse
  <2>2. \A n \in 1 .. L : files[(L - n) + 1] \in STRING
    OBVIOUS
  <2> HIDE DEF R
  <2> QED BY <2>1, <2>2
<1> HIDE DEF R
<1>2. PICK F \in [0 .. L -> Seq(STRING)] :
        /\ F[0] = <<>> /\ F[L] = RP!Without(files, v1.empty)
        /\ \A i \in 1 .. L : F[i] = F[i - 1] \o Left(files[i], v1.empty)
  BY LeftSoFar
<1>3. PICK G \in [0 .. Len(R) -> Seq(STRING)] :
        /\ G[0] = inner /\ G[Len(R)] = RP!Nested(R, inner)
        /\ \A n \in 1 .. Len(R) : G[n] = Left(R[n], v1.empty) \o G[n - 1]
  BY <1>1, NestedSoFar
<1>4. \A f \in STRING : Left(f, v1.empty) \in Seq(STRING)
  BY LeftIsASequence
<1>5. \A i \in 1 .. L : files[i] \in STRING
  OBVIOUS
<1> HIDE DEF L
<1> DEFINE P == [n \in 0 .. L |-> F[L - n] \o G[n]]
           Q == [n \in 0 .. L |-> F[L] \o inner]
<1>6. \A n \in 0 .. L : P[n] = F[L - n] \o G[n] /\ Q[n] = F[L] \o inner
  OBVIOUS
<1> HIDE DEF P, Q
<1>7. P[0] = Q[0]
  <2>1. 0 \in 0 .. L /\ L - 0 = L
    BY <1>1
  <2> QED BY <1>3, <1>6, <2>1
<1>8. ASSUME NEW n \in 1 .. L, P[n - 1] = Q[n - 1] PROVE P[n] = Q[n]
  <2>1. n \in 0 .. L /\ n - 1 \in 0 .. L /\ L - n \in 0 .. L /\ (L - n) + 1 \in 1 .. L
        /\ ((L - n) + 1) - 1 = L - n /\ L - (n - 1) = (L - n) + 1
    BY <1>1
  <2>2. F[(L - n) + 1] = F[L - n] \o Left(R[n], v1.empty) /\ R[n] \in STRING
    BY <1>1, <1>2, <1>5, <2>1
  <2>3. G[n] = Left(R[n], v1.empty) \o G[n - 1] /\ G[n - 1] \in Seq(STRING)
    BY <1>1, <1>3, <2>1
  <2>4. F[L - n] \in Seq(STRING) /\ Left(R[n], v1.empty) \in Seq(STRING)
    BY <1>2, <1>4, <2>1, <2>2
  <2>5. P[n] = (F[L - n] \o Left(R[n], v1.empty)) \o G[n - 1]
    <3>1. P[n] = F[L - n] \o (Left(R[n], v1.empty) \o G[n - 1])
      BY <1>6, <2>1, <2>3
    <3> QED BY ONLY <2>3, <2>4, <3>1, Grouped
  <2>6. P[n] = P[n - 1]
    BY <1>6, <2>1, <2>2, <2>5
  <2> QED BY <1>6, <1>8, <2>1, <2>6
<1>9. P[L] = Q[L] /\ L \in 0 .. L /\ L - L = 0
  <2>1. Alike(P, Q, L)
    BY <1>7, <1>8 DEF Alike
  <2>2. L \in 0 .. L /\ L - L = 0
    BY <1>1
  <2> QED BY <1>1, <2>1, <2>2, SameSteps
<1>10. F[0] \o G[L] = F[L] \o inner
  BY <1>6, <1>9
<1>11. G[L] \in Seq(STRING) /\ G[L] = RP!Nested(R, inner)
  BY <1>1, <1>3, <1>9
<1>12. F[0] \o G[L] = G[L]
  BY <1>2, <1>11, ConcatEmptySeq
<1> QED BY <1>2, <1>10, <1>11, <1>12 DEF R

\* What is left of files depends on those of them alone that are to be left out.
LEMMA WithoutTheSame ==
  ASSUME NEW files \in Seq(STRING), NEW some, NEW others,
         \A i \in DOMAIN files : files[i] \in some <=> files[i] \in others
  PROVE  RP!Without(files, some) = RP!Without(files, others)
<1>1. \A i \in DOMAIN files : (IF files[i] \in some THEN <<>> ELSE <<files[i]>>)
                             = (IF files[i] \in others THEN <<>> ELSE <<files[i]>>)
  OBVIOUS
<1>2. [i \in DOMAIN files |-> IF files[i] \in some THEN <<>> ELSE <<files[i]>>]
      = [i \in DOMAIN files |-> IF files[i] \in others THEN <<>> ELSE <<files[i]>>]
  BY <1>1
<1> QED BY <1>2 DEF RP!Without

\* The elements are the layouts, the template and the page, as far as they export a component.
LEMMA ElementsAre ==
  ASSUME v1 \in PageForms
  PROVE  /\ RP!Without(v1.layouts, v1.empty) \in Seq(STRING)
         /\ RP!Without(v1.template, v1.empty) \o <<v1.page>> \in Seq(STRING)
         /\ Len(RP!Without(v1.template, v1.empty) \o <<v1.page>>)
              = Len(RP!Without(v1.template, v1.empty)) + 1
         /\ Len(RP!Without(v1.template, v1.empty)) \in Nat
         /\ RP!Elements = RP!Without(v1.layouts, v1.empty)
                            \o (RP!Without(v1.template, v1.empty) \o <<v1.page>>)
<1> DEFINE w == RP!Without(v1.template, v1.empty)
           tail == w \o <<v1.page>>
<1>1. v1.layouts \in Seq(STRING) /\ v1.template \in Seq(STRING) /\ <<v1.page>> \in Seq(STRING)
  BY PagesAssumption
<1>2. RP!Without(v1.layouts, v1.empty) \in Seq(STRING) /\ w \in Seq(STRING)
  BY <1>1, WithoutIsASequence
<1>3. tail \in Seq(STRING) /\ Len(tail) = Len(w) + 1 /\ Len(w) \in Nat
  <2> HIDE DEF w
  <2>1. Len(<<v1.page>>) = 1
    OBVIOUS
  <2> QED BY <1>1, <1>2, <2>1, ConcatProperties
<1>4. RP!Elements = RP!Nested(RP!Reverse(v1.layouts), tail)
  BY DEF RP!Elements, RP!Wrapped
<1>5. RP!Elements = RP!Without(v1.layouts, v1.empty) \o tail
  <2> HIDE DEF tail
  <2> QED BY <1>1, <1>3, <1>4, WrappedInReverse
<1> QED BY <1>2, <1>3, <1>5

\* The tree of the snapshot and the elements that were rendered list the same files.
LEMMA TreeIsListed ==
  ASSUME v1 \in PageForms
  PROVE  RP!Elements = RP!Without(RP!RenderTree, v1.empty \ {v1.page})
<1> DEFINE shown == v1.empty \ {v1.page}
           tail == RP!Without(v1.template, v1.empty) \o <<v1.page>>
<1>1. v1.layouts \in Seq(STRING) /\ v1.template \in Seq(STRING) /\ <<v1.page>> \in Seq(STRING)
  BY PagesAssumption
<1>2. \A some : RP!Without(v1.layouts, some) \in Seq(STRING) /\ RP!Without(v1.template, some) \in Seq(STRING)
  BY <1>1, WithoutIsASequence
<1>3. RP!Without(v1.layouts, v1.empty) = RP!Without(v1.layouts, shown)
      /\ RP!Without(v1.template, v1.empty) = RP!Without(v1.template, shown)
  <2>1. \A i \in DOMAIN v1.layouts : v1.layouts[i] \in v1.empty <=> v1.layouts[i] \in shown
    BY PagesAssumption
  <2>2. \A i \in DOMAIN v1.template : v1.template[i] \in v1.empty <=> v1.template[i] \in shown
    BY PagesAssumption
  <2> HIDE DEF shown
  <2> QED BY <1>1, <2>1, <2>2, WithoutTheSame
<1>4. RP!Without(<<v1.page>>, shown) = <<v1.page>>
  <2>1. <<v1.page>> \in Seq(STRING) /\ Len(<<v1.page>>) = 1 /\ <<v1.page>>[1] = v1.page
    BY <1>1
  <2> DEFINE one == <<v1.page>>
  <2> HIDE DEF one
  <2>2. one \in Seq(STRING) /\ Len(one) = 1 /\ one[1] = v1.page
    BY <2>1 DEF one
  <2>3. PICK F \in [0 .. Len(one) -> Seq(STRING)] :
          /\ F[0] = <<>> /\ F[Len(one)] = RP!Without(one, shown)
          /\ \A i \in 1 .. Len(one) : F[i] = F[i - 1] \o Left(one[i], shown)
    BY <2>2, LeftSoFar
  <2>4. F[1] = F[1 - 1] \o Left(one[1], shown) /\ F[1] = RP!Without(one, shown)
    <3>1. 1 \in 1 .. Len(one)
      BY <2>2
    <3>2. F[1] = F[1 - 1] \o Left(one[1], shown)
      BY <2>3, <3>1
    <3> QED BY <2>2, <2>3, <3>2
  <2>5. 1 - 1 = 0 /\ Left(v1.page, shown) = one
    BY DEF Left, one
  <2>6. <<>> \o one = one
    BY <2>2, ConcatEmptySeq
  <2> QED BY <2>2, <2>3, <2>4, <2>5, <2>6 DEF one
<1> HIDE DEF shown
<1>5. tail \in Seq(STRING)
  BY ElementsAre
<1>6. RP!Elements = RP!Without(v1.layouts, v1.empty) \o tail
  BY ElementsAre
<1>7. \A s, t \in Seq(STRING) : s \o t \in Seq(STRING)
                              /\ RP!Without(s \o t, shown) = RP!Without(s, shown) \o RP!Without(t, shown)
  BY WithoutEach, ConcatProperties
<1>8. RP!Without((v1.layouts \o v1.template) \o <<v1.page>>, shown)
      = (RP!Without(v1.layouts, shown) \o RP!Without(v1.template, shown)) \o RP!Without(<<v1.page>>, shown)
  <2>1. v1.layouts \o v1.template \in Seq(STRING)
    BY <1>1, <1>7
  <2> QED BY <1>1, <1>7, <2>1
<1>9. \A a, b, c \in Seq(STRING) : (a \o b) \o c = a \o (b \o c)
  BY ConcatAssociative
<1>10. (RP!Without(v1.layouts, shown) \o RP!Without(v1.template, shown)) \o <<v1.page>>
       = RP!Without(v1.layouts, shown) \o (RP!Without(v1.template, shown) \o <<v1.page>>)
  <2> DEFINE a == RP!Without(v1.layouts, shown)
             b == RP!Without(v1.template, shown)
             c == <<v1.page>>
  <2>1. a \in Seq(STRING) /\ b \in Seq(STRING) /\ c \in Seq(STRING)
    BY <1>1, <1>2
  <2> HIDE DEF a, b, c
  <2>2. (a \o b) \o c = a \o (b \o c)
    BY ONLY <2>1, <1>9
  <2> QED BY <2>2 DEF a, b, c
<1>11. RP!Elements = RP!Without(v1.layouts, shown) \o (RP!Without(v1.template, shown) \o <<v1.page>>)
  BY <1>3, <1>6
<1> QED BY <1>4, <1>8, <1>10, <1>11 DEF RP!RenderTree, shown

\* The places of a concatenation.
LEMMA Behind ==
  \A T : \A x, y \in Seq(T) :
    /\ x \o y \in Seq(T) /\ Len(x \o y) = Len(x) + Len(y)
    /\ \A i \in 1 .. Len(x) + Len(y) : (x \o y)[i] = IF i <= Len(x) THEN x[i] ELSE y[i - Len(x)]
BY ConcatProperties

\* Short sequences put together element by element.
LEMMA OneByOne ==
  ASSUME NEW a, NEW b, NEW c, NEW d
  PROVE  <<a>> \o <<b>> = <<a, b>> /\ <<a, b>> \o <<c, d>> = <<a, b, c, d>>
<1> DEFINE T == {a, b, c, d}
<1>1. \A s \in Seq(T) : \A e \in T : s \o <<e>> = Append(s, e)
  BY AppendIsConcat
<1>2. \A x, y, z \in Seq(T) : (x \o y) \o z = x \o (y \o z)
  BY ConcatAssociative
<1>3. Append(<<a>>, b) = <<a, b>> /\ Append(<<c>>, d) = <<c, d>>
      /\ Append(<<a, b>>, c) = <<a, b, c>> /\ Append(<<a, b, c>>, d) = <<a, b, c, d>>
  <2>1. \A s, t \in Seq(T) : Len(s) = Len(t) /\ (\A i \in 1 .. Len(s) : s[i] = t[i]) => s = t
    BY SeqEqual
  <2>2. /\ Append(<<a>>, b) \in Seq(T) /\ <<a, b>> \in Seq(T)
        /\ Append(<<c>>, d) \in Seq(T) /\ <<c, d>> \in Seq(T)
        /\ Append(<<a, b>>, c) \in Seq(T) /\ <<a, b, c>> \in Seq(T)
        /\ Append(<<a, b, c>>, d) \in Seq(T) /\ <<a, b, c, d>> \in Seq(T)
    OBVIOUS
  <2>3. Append(<<a>>, b) = <<a, b>>
    <3> DEFINE x == Append(<<a>>, b)
               y == <<a, b>>
    <3>1. x \in Seq(T) /\ y \in Seq(T) /\ Len(x) = 2 /\ Len(y) = 2
          /\ x[1] = a /\ y[1] = a /\ x[2] = b /\ y[2] = b
      BY <2>2
    <3> HIDE DEF x, y
    <3>2. Len(x) = Len(y) /\ \A i \in 1 .. Len(x) : x[i] = y[i]
      BY ONLY <3>1
    <3>3. x = y
      BY ONLY <2>1, <3>1, <3>2
    <3> QED BY <3>3 DEF x, y
  <2>4. Append(<<c>>, d) = <<c, d>>
    <3> DEFINE x == Append(<<c>>, d)
               y == <<c, d>>
    <3>1. x \in Seq(T) /\ y \in Seq(T) /\ Len(x) = 2 /\ Len(y) = 2
          /\ x[1] = c /\ y[1] = c /\ x[2] = d /\ y[2] = d
      BY <2>2
    <3> HIDE DEF x, y
    <3>2. Len(x) = Len(y) /\ \A i \in 1 .. Len(x) : x[i] = y[i]
      BY ONLY <3>1
    <3>3. x = y
      BY ONLY <2>1, <3>1, <3>2
    <3> QED BY <3>3 DEF x, y
  <2>5. Append(<<a, b>>, c) = <<a, b, c>>
    <3> DEFINE x == Append(<<a, b>>, c)
               y == <<a, b, c>>
    <3>1. x \in Seq(T) /\ y \in Seq(T) /\ Len(x) = 3 /\ Len(y) = 3
          /\ x[1] = a /\ y[1] = a /\ x[2] = b /\ y[2] = b /\ x[3] = c /\ y[3] = c
      BY <2>2
    <3> HIDE DEF x, y
    <3>2. Len(x) = Len(y) /\ \A i \in 1 .. Len(x) : x[i] = y[i]
      BY ONLY <3>1
    <3>3. x = y
      BY ONLY <2>1, <3>1, <3>2
    <3> QED BY <3>3 DEF x, y
  <2>6. Append(<<a, b, c>>, d) = <<a, b, c, d>>
    <3> DEFINE x == Append(<<a, b, c>>, d)
               y == <<a, b, c, d>>
    <3>1. x \in Seq(T) /\ y \in Seq(T) /\ Len(x) = 4 /\ Len(y) = 4
          /\ x[1] = a /\ y[1] = a /\ x[2] = b /\ y[2] = b /\ x[3] = c /\ y[3] = c /\ x[4] = d /\ y[4] = d
      BY <2>2
    <3> HIDE DEF x, y
    <3>2. Len(x) = Len(y) /\ \A i \in 1 .. Len(x) : x[i] = y[i]
      BY ONLY <3>1
    <3>3. x = y
      BY ONLY <2>1, <3>1, <3>2
    <3> QED BY <3>3 DEF x, y
  <2> QED BY <2>3, <2>4, <2>5, <2>6
<1>4. <<a>> \in Seq(T) /\ <<c>> \in Seq(T) /\ <<d>> \in Seq(T) /\ <<a, b>> \in Seq(T) /\ <<a, b, c>> \in Seq(T)
      /\ b \in T /\ c \in T /\ d \in T
  OBVIOUS
<1> HIDE DEF T
<1>5. <<a>> \o <<b>> = <<a, b>> /\ <<c>> \o <<d>> = <<c, d>>
      /\ <<a, b>> \o <<c>> = <<a, b, c>> /\ <<a, b, c>> \o <<d>> = <<a, b, c, d>>
  BY <1>1, <1>3, <1>4
<1>6. (<<a, b>> \o <<c>>) \o <<d>> = <<a, b>> \o (<<c>> \o <<d>>)
  BY <1>2, <1>4
<1> QED BY <1>5, <1>6

\* The end of a fragment's document is put together of two parts.
LEMMA EndOfThePage ==
  /\ <<"/root">> \o <<"scripts">> = <<"/root", "scripts">>
  /\ <<"/root", "scripts">> \o <<"/body", "/html">> = <<"/root", "scripts", "/body", "/html">>
BY OneByOne

\* Where the tokens of a sequence are after others were written into it.
Inserted(s, k, w) == SubSeq(s, 1, k) \o w \o SubSeq(s, k + 1, Len(s))
LEMMA InsertedPlaces ==
  ASSUME NEW T, NEW s \in Seq(T), NEW w \in Seq(T), NEW k \in 0 .. Len(s)
  PROVE  /\ Inserted(s, k, w) \in Seq(T) /\ Len(Inserted(s, k, w)) = Len(s) + Len(w)
         /\ \A i \in 1 .. k : Inserted(s, k, w)[i] = s[i]
         /\ \A i \in 1 .. Len(w) : Inserted(s, k, w)[k + i] = w[i]
         /\ \A i \in (k + 1) .. Len(s) : Inserted(s, k, w)[i + Len(w)] = s[i]
<1> DEFINE a == SubSeq(s, 1, k)
           z == SubSeq(s, k + 1, Len(s))
           aw == a \o w
           d == aw \o z
<1>0. \A m, n \in Int : (\A i \in m .. n : s[i] \in T) =>
        /\ SubSeq(s, m, n) \in Seq(T)
        /\ Len(SubSeq(s, m, n)) = (IF m <= n THEN n - m + 1 ELSE 0)
        /\ \A i \in 1 .. n - m + 1 : SubSeq(s, m, n)[i] = s[m + i - 1]
  BY SubSeqProperties
<1>1. Len(s) \in Nat /\ Len(w) \in Nat /\ k \in Nat /\ k <= Len(s) /\ \A i \in 1 .. Len(s) : s[i] \in T
  OBVIOUS
<1>2. a \in Seq(T) /\ Len(a) = k /\ \A i \in 1 .. k : a[i] = s[i]
  <2>1. \A i \in 1 .. k : s[i] \in T
    BY <1>1
  <2>2. a \in Seq(T) /\ Len(a) = (IF 1 <= k THEN k - 1 + 1 ELSE 0)
        /\ \A i \in 1 .. k - 1 + 1 : a[i] = s[1 + i - 1]
    BY <1>0, <1>1, <2>1
  <2>3. k - 1 + 1 = k /\ \A i \in 1 .. k : 1 + i - 1 = i
    BY <1>1
  <2> HIDE DEF a
  <2> QED BY <1>1, <2>2, <2>3
<1>3. z \in Seq(T) /\ Len(z) = Len(s) - k /\ \A i \in 1 .. Len(s) - k : z[i] = s[k + i]
  <2>1. \A i \in (k + 1) .. Len(s) : s[i] \in T
    BY <1>1
  <2>2. z \in Seq(T) /\ Len(z) = (IF k + 1 <= Len(s) THEN Len(s) - (k + 1) + 1 ELSE 0)
        /\ \A i \in 1 .. Len(s) - (k + 1) + 1 : z[i] = s[(k + 1) + i - 1]
    BY <1>0, <1>1, <2>1
  <2>3. Len(s) - (k + 1) + 1 = Len(s) - k /\ (k + 1 <= Len(s) \/ Len(s) - k = 0)
    BY <1>1
  <2> HIDE DEF z
  <2>4. Len(z) = Len(s) - k
    BY <1>1, <2>2, <2>3
  <2>5. ASSUME NEW i \in 1 .. Len(s) - k PROVE z[i] = s[k + i]
    <3>1. (k + 1) + i - 1 = k + i
      <4>1. k \in Int /\ i \in Int
        BY <1>1
      <4> QED BY ONLY <4>1
    <3>0. i \in 1 .. Len(s) - (k + 1) + 1
      BY <2>3
    <3>2. z[i] = s[(k + 1) + i - 1]
      BY <2>2, <3>0
    <3> QED BY <3>1, <3>2
  <2> QED BY <2>2, <2>4, <2>5
<1> HIDE DEF a, z
<1>4. aw \in Seq(T) /\ Len(aw) = k + Len(w)
      /\ \A i \in 1 .. k + Len(w) : aw[i] = IF i <= k THEN a[i] ELSE w[i - k]
  <2>1. aw \in Seq(T) /\ Len(aw) = Len(a) + Len(w)
        /\ \A i \in 1 .. Len(a) + Len(w) : aw[i] = IF i <= Len(a) THEN a[i] ELSE w[i - Len(a)]
    BY <1>2, Behind
  <2> HIDE DEF aw
  <2> QED BY <1>2, <2>1
<1> HIDE DEF aw
<1>5. d \in Seq(T) /\ Len(d) = (k + Len(w)) + (Len(s) - k)
      /\ \A i \in 1 .. (k + Len(w)) + (Len(s) - k) : d[i] = IF i <= k + Len(w) THEN aw[i] ELSE z[i - (k + Len(w))]
  <2>1. d \in Seq(T) /\ Len(d) = Len(aw) + Len(z)
        /\ \A i \in 1 .. Len(aw) + Len(z) : d[i] = IF i <= Len(aw) THEN aw[i] ELSE z[i - Len(aw)]
    BY <1>3, <1>4, Behind
  <2> HIDE DEF d
  <2> QED BY <1>3, <1>4, <2>1
<1>6. d = Inserted(s, k, w)
  BY DEF d, aw, a, z, Inserted
<1> HIDE DEF d
<1>7. ASSUME NEW i \in 1 .. k PROVE d[i] = s[i]
  <2>1. i <= k + Len(w) /\ i <= k /\ i \in 1 .. k + Len(w) /\ i \in 1 .. (k + Len(w)) + (Len(s) - k)
    BY <1>1
  <2> QED BY <1>2, <1>4, <1>5, <2>1
<1>8. ASSUME NEW i \in 1 .. Len(w) PROVE d[k + i] = w[i]
  <2>1. k + i \in 1 .. k + Len(w) /\ ~(k + i <= k) /\ (k + i) - k = i
        /\ k + i \in 1 .. (k + Len(w)) + (Len(s) - k) /\ k + i <= k + Len(w)
    BY <1>1
  <2> QED BY <1>4, <1>5, <2>1
<1>9. ASSUME NEW i \in (k + 1) .. Len(s) PROVE d[i + Len(w)] = s[i]
  <2>1. i + Len(w) \in 1 .. (k + Len(w)) + (Len(s) - k) /\ ~(i + Len(w) <= k + Len(w))
        /\ (i + Len(w)) - (k + Len(w)) = i - k /\ i - k \in 1 .. Len(s) - k /\ k + (i - k) = i
    BY <1>1
  <2> QED BY <1>3, <1>5, <2>1
<1>10. Len(d) = Len(s) + Len(w)
  BY <1>1, <1>5
<1> QED BY <1>5, <1>6, <1>7, <1>8, <1>9, <1>10

\* Conversely, every place is one of these.
LEMMA PlacesOfInserted ==
  ASSUME NEW T, NEW s \in Seq(T), NEW w \in Seq(T), NEW k \in 0 .. Len(s),
         NEW n \in DOMAIN Inserted(s, k, w)
  PROVE  \/ n \in 1 .. k /\ Inserted(s, k, w)[n] = s[n]
         \/ n - k \in 1 .. Len(w) /\ Inserted(s, k, w)[n] = w[n - k]
         \/ n - Len(w) \in (k + 1) .. Len(s) /\ Inserted(s, k, w)[n] = s[n - Len(w)]
<1> DEFINE d == Inserted(s, k, w)
<1>1. /\ d \in Seq(T) /\ Len(d) = Len(s) + Len(w)
      /\ \A i \in 1 .. k : d[i] = s[i]
      /\ \A i \in 1 .. Len(w) : d[k + i] = w[i]
      /\ \A i \in (k + 1) .. Len(s) : d[i + Len(w)] = s[i]
  BY InsertedPlaces
<1>2. n \in DOMAIN d /\ Len(s) \in Nat /\ Len(w) \in Nat
  OBVIOUS
<1> HIDE DEF d
<1>3. n \in 1 .. Len(s) + Len(w)
  BY <1>1, <1>2
<1>4. CASE n <= k
  BY <1>1, <1>2, <1>3, <1>4 DEF d
<1>5. CASE k < n /\ n <= k + Len(w)
  <2>1. n - k \in 1 .. Len(w) /\ k + (n - k) = n
    BY <1>2, <1>3, <1>5
  <2> QED BY <1>1, <2>1 DEF d
<1>6. CASE k + Len(w) < n
  <2>1. n - Len(w) \in (k + 1) .. Len(s) /\ (n - Len(w)) + Len(w) = n
    BY <1>2, <1>3, <1>6
  <2> QED BY <1>1, <2>1 DEF d
<1> QED BY <1>2, <1>3, <1>4, <1>5, <1>6

\* The index of a token is one of its places, and the only one if there is no other.
LEMMA IndexIsAPlace ==
  ASSUME NEW T, NEW s \in Seq(T), NEW tok, NEW o \in DOMAIN s, s[o] = tok
  PROVE  /\ RP!Contains(s, tok) /\ RP!Index(s, tok) \in DOMAIN s /\ s[RP!Index(s, tok)] = tok
<1>1. RP!Contains(s, tok)
  BY DEF RP!Contains
<1> DEFINE at == {n \in DOMAIN s : s[n] = tok}
<1>2. at \in SUBSET Nat /\ o \in at /\ DOMAIN s = 1 .. Len(s) /\ Len(s) \in Nat
  OBVIOUS
<1>3. PICK n \in at : \A l \in at : n <= l
  <2> HIDE DEF at
  <2> QED BY <1>2, LeastNumber
<1>4. n \in DOMAIN s /\ s[n] = tok /\ \A l \in 1 .. n - 1 : s[l] # tok
  <2>1. ASSUME NEW l \in 1 .. n - 1, s[l] = tok PROVE FALSE
    <3>1. l \in at
      BY <1>2, <2>1
    <3>2. n \in Nat /\ ~(n <= l)
      BY <1>2
    <3> HIDE DEF at
    <3> QED BY <1>3, <3>1, <3>2
  <2> QED BY <2>1
<1>5. \E x \in DOMAIN s : s[x] = tok /\ \A l \in 1 .. x - 1 : s[l] # tok
  BY <1>4
<1>6. RP!Index(s, tok) = CHOOSE x \in DOMAIN s : s[x] = tok /\ \A l \in 1 .. x - 1 : s[l] # tok
  BY <1>1 DEF RP!Index
<1> QED BY <1>1, <1>5, <1>6

\* Writing a token behind or before another is inserting it there.
LEMMA WritingIsInserting ==
  ASSUME NEW T, NEW s \in Seq(T), NEW tok, NEW o \in DOMAIN s, s[o] = tok, NEW w
  PROVE  LET k == RP!Index(s, tok)
         IN  /\ k \in 1 .. Len(s) /\ s[k] = tok
             /\ RP!After(s, tok, w) = Inserted(s, k, w)
             /\ RP!Before(s, tok, w) = Inserted(s, k - 1, w)
<1> DEFINE k == RP!Index(s, tok)
<1>1. k \in 1 .. Len(s) /\ s[k] = tok
  BY IndexIsAPlace
<1>2. RP!After(s, tok, w) = SubSeq(s, 1, k) \o w \o SubSeq(s, k + 1, Len(s))
      /\ RP!Before(s, tok, w) = SubSeq(s, 1, k - 1) \o w \o SubSeq(s, k, Len(s))
  BY DEF RP!After, RP!Before
<1> HIDE DEF k
<1>3. (k - 1) + 1 = k
  BY <1>1
<1> QED BY <1>1, <1>2, <1>3 DEF k, Inserted

\* The tokens of a document, and where its parts are: before the body's content is put into
\* the root, with the root, and with the scripts.
Tokens == Tags \cup {"assets", "root", "/root", "scripts"}
Placed(b, o, c) ==
  /\ b \in Seq(Tokens) /\ o \in DOMAIN b /\ c \in DOMAIN b /\ o < c
  /\ \A i \in DOMAIN b :
       /\ (b[i] = "body" <=> i = o) /\ (b[i] = "/body" <=> i = c)
       /\ (b[i] = "content" => o < i /\ i < c) /\ (b[i] = "assets" => i < o)
       /\ b[i] \notin {"root", "/root", "scripts"}
Rooted(b, r, c) ==
  /\ b \in Seq(Tokens) /\ r \in DOMAIN b /\ c \in DOMAIN b /\ r < c
  /\ \A i \in DOMAIN b :
       /\ (b[i] = "root" <=> i = r) /\ (b[i] = "/body" <=> i = c)
       /\ (b[i] = "content" => r < i /\ i < c) /\ (b[i] = "assets" => i < r)
       /\ b[i] \notin {"/root", "scripts"}
Scripted(b, r, e, c) ==
  /\ b \in Seq(Tokens) /\ r \in DOMAIN b /\ e \in DOMAIN b /\ c \in DOMAIN b /\ r < e /\ e < c
  /\ \A i \in DOMAIN b :
       /\ (b[i] = "root" <=> i = r) /\ (b[i] = "/root" <=> i = e) /\ (b[i] = "/body" <=> i = c)
       /\ (b[i] = "content" => r < i /\ i < e) /\ (b[i] = "assets" => i < r)
       /\ (b[i] = "scripts" => e < i /\ i < c)

\* The assets go into the head, or into one that is written before the body.
LEMMA HeadIsPlaced ==
  ASSUME NEW b \in Seq(Tags), NEW o \in DOMAIN b, NEW c \in DOMAIN b, o < c,
         \A i \in DOMAIN b : /\ (b[i] = "body" <=> i = o) /\ (b[i] = "/body" <=> i = c)
                             /\ (b[i] = "content" => o < i /\ i < c) /\ (b[i] = "head" => i < o)
  PROVE  \E p, q : Placed(RP!WithHead(b), p, q)
<1>1. b \in Seq(Tokens) /\ DOMAIN b = 1 .. Len(b) /\ Len(b) \in Nat
      /\ \A i \in DOMAIN b : b[i] \notin {"assets", "root", "/root", "scripts"}
  BY DEF Tokens, Tags
<1>2. \E k \in 0 .. Len(b) : \E w \in {<<"assets">>, <<"head", "assets", "/head">>} :
        k < o /\ RP!WithHead(b) = Inserted(b, k, w)
  <2>1. CASE RP!Contains(b, "head")
    <3>1. PICK h \in DOMAIN b : b[h] = "head"
      BY <1>1, <2>1 DEF RP!Contains
    <3> DEFINE k == RP!Index(b, "head")
    <3>2. k \in 1 .. Len(b) /\ b[k] = "head" /\ RP!After(b, "head", <<"assets">>) = Inserted(b, k, <<"assets">>)
      BY <3>1, WritingIsInserting
    <3>3. RP!WithHead(b) = RP!After(b, "head", <<"assets">>)
      BY <2>1 DEF RP!WithHead
    <3> HIDE DEF k
    <3>4. k \in 0 .. Len(b) /\ k < o
      BY <1>1, <3>2
    <3> QED BY <3>2, <3>3, <3>4
  <2>2. CASE ~RP!Contains(b, "head")
    <3> DEFINE k == RP!Index(b, "body")
               w == <<"head", "assets", "/head">>
    <3>1. k \in 1 .. Len(b) /\ b[k] = "body" /\ RP!Before(b, "body", w) = Inserted(b, k - 1, w)
          /\ RP!Contains(b, "body")
      BY WritingIsInserting, IndexIsAPlace
    <3>2. RP!WithHead(b) = RP!Before(b, "body", w)
      BY <2>2, <3>1 DEF RP!WithHead
    <3> HIDE DEF k
    <3>3. k = o /\ k - 1 \in 0 .. Len(b) /\ k - 1 < o
      BY <1>1, <3>1
    <3> QED BY <3>1, <3>2, <3>3
  <2> QED BY <2>1, <2>2
<1>3. PICK k \in 0 .. Len(b) : \E w \in {<<"assets">>, <<"head", "assets", "/head">>} :
        k < o /\ RP!WithHead(b) = Inserted(b, k, w)
  BY <1>2
<1>4. PICK w \in {<<"assets">>, <<"head", "assets", "/head">>} : k < o /\ RP!WithHead(b) = Inserted(b, k, w)
  BY <1>3
<1>5. w \in Seq(Tokens) /\ Len(w) \in Nat /\ Len(w) > 0
      /\ \A i \in 1 .. Len(w) : w[i] \notin {"body", "/body", "content", "root", "/root", "scripts"}
  <2>1. CASE w = <<"assets">>
    BY <2>1 DEF Tokens, Tags
  <2>2. CASE w = <<"head", "assets", "/head">>
    BY <2>2 DEF Tokens, Tags
  <2> QED BY <2>1, <2>2
<1> DEFINE d == Inserted(b, k, w)
           l == Len(w)
<1> HIDE DEF d, l
<1>6. /\ d \in Seq(Tokens) /\ Len(d) = Len(b) + l /\ DOMAIN d = 1 .. Len(d)
      /\ \A i \in (k + 1) .. Len(b) : d[i + l] = b[i]
  <2>1. d \in Seq(Tokens) /\ Len(d) = Len(b) + l /\ \A i \in (k + 1) .. Len(b) : d[i + l] = b[i]
    <3>1. b \in Seq(Tokens) /\ w \in Seq(Tokens) /\ k \in 0 .. Len(b)
      BY <1>1, <1>5
    <3>2. Inserted(b, k, w) \in Seq(Tokens) /\ Len(Inserted(b, k, w)) = Len(b) + Len(w)
          /\ \A i \in (k + 1) .. Len(b) : Inserted(b, k, w)[i + Len(w)] = b[i]
      BY ONLY <3>1, InsertedPlaces
    <3> QED BY <3>2 DEF d, l
  <2> QED BY <2>1
<1>7. \A n \in DOMAIN d : \/ n \in 1 .. k /\ d[n] = b[n]
                          \/ n - k \in 1 .. l /\ d[n] = w[n - k]
                          \/ n - l \in (k + 1) .. Len(b) /\ d[n] = b[n - l]
  BY <1>1, <1>5, PlacesOfInserted DEF d, l
<1>8. k \in Nat /\ o \in Nat /\ c \in Nat /\ l \in Nat /\ o \in (k + 1) .. Len(b) /\ c \in (k + 1) .. Len(b)
      /\ o + l \in DOMAIN d /\ c + l \in DOMAIN d /\ o + l < c + l
  BY <1>1, <1>4, <1>5, <1>6 DEF l
<1>9. d[o + l] = "body" /\ d[c + l] = "/body"
  BY <1>6, <1>8
<1>10. ASSUME NEW n \in DOMAIN d
       PROVE  /\ (d[n] = "body" => n = o + l) /\ (d[n] = "/body" => n = c + l)
              /\ (d[n] = "content" => o + l < n /\ n < c + l) /\ (d[n] = "assets" => n < o + l)
              /\ d[n] \notin {"root", "/root", "scripts"}
  <2>1. n \in Nat
    BY <1>6
  <2>2. CASE n \in 1 .. k /\ d[n] = b[n]
    <3>1. n \in DOMAIN b /\ n < o /\ n # c /\ n < o + l
      BY <1>1, <1>8, <2>2
    <3> QED BY <1>1, <2>2, <3>1, <1>8
  <2>3. CASE n - k \in 1 .. l /\ d[n] = w[n - k]
    <3>1. n < o + l
      BY <1>8, <2>1, <2>3
    <3>2. d[n] \notin {"body", "/body", "content", "root", "/root", "scripts"}
      BY <1>5, <2>3 DEF l
    <3> QED BY <3>1, <3>2
  <2>4. CASE n - l \in (k + 1) .. Len(b) /\ d[n] = b[n - l]
    <3> DEFINE i == n - l
    <3>1. i \in DOMAIN b /\ i \in Nat /\ n = i + l /\ d[n] = b[i]
      BY <1>1, <1>8, <2>1, <2>4
    <3> HIDE DEF i
    <3>2. b[i] # "assets" /\ b[i] \notin {"root", "/root", "scripts"}
      BY <1>1, <3>1
    <3>3. (b[i] = "body" => i = o) /\ (b[i] = "/body" => i = c) /\ (b[i] = "content" => o < i /\ i < c)
      BY <3>1
    <3> QED BY <1>8, <3>1, <3>2, <3>3
  <2> QED BY <1>7, <2>2, <2>3, <2>4
<1>11. Placed(d, o + l, c + l)
  BY <1>6, <1>8, <1>9, <1>10 DEF Placed
<1> QED BY <1>4, <1>11 DEF d

\* The root begins right behind the body's tag.
LEMMA RootIsPlaced ==
  ASSUME NEW b, NEW o, NEW c, Placed(b, o, c)
  PROVE  \E r, q : Rooted(RP!WithRoot(b), r, q)
<1> DEFINE w == <<"root">>
           d == Inserted(b, o, w)
<1>1. b \in Seq(Tokens) /\ DOMAIN b = 1 .. Len(b) /\ Len(b) \in Nat /\ o \in DOMAIN b /\ c \in DOMAIN b
      /\ o \in 0 .. Len(b) /\ o \in Nat /\ c \in Nat /\ o < c
  BY DEF Placed
<1>2. \A i \in DOMAIN b :
       /\ (b[i] = "body" <=> i = o) /\ (b[i] = "/body" <=> i = c)
       /\ (b[i] = "content" => o < i /\ i < c) /\ (b[i] = "assets" => i < o)
       /\ b[i] \notin {"root", "/root", "scripts"}
  BY DEF Placed
<1>3. RP!WithRoot(b) = d
  <2> DEFINE k == RP!Index(b, "body")
  <2>1. b[o] = "body"
    BY <1>1, <1>2
  <2>2. k \in 1 .. Len(b) /\ b[k] = "body" /\ RP!After(b, "body", w) = Inserted(b, k, w)
        /\ RP!Contains(b, "body")
    BY <1>1, <2>1, WritingIsInserting, IndexIsAPlace
  <2>3. RP!WithRoot(b) = RP!After(b, "body", w)
    BY <2>2 DEF RP!WithRoot
  <2> HIDE DEF k
  <2>4. k = o
    BY <1>1, <1>2, <2>2
  <2> QED BY <2>2, <2>3, <2>4
<1>4. w \in Seq(Tokens) /\ Len(w) = 1 /\ w[1] = "root"
  BY DEF Tokens
<1>5. /\ d \in Seq(Tokens) /\ Len(d) = Len(b) + Len(w) /\ DOMAIN d = 1 .. Len(d)
      /\ \A i \in 1 .. Len(w) : d[o + i] = w[i]
      /\ \A i \in (o + 1) .. Len(b) : d[i + Len(w)] = b[i]
  <2> HIDE DEF w, d
  <2>1. /\ d \in Seq(Tokens) /\ Len(d) = Len(b) + Len(w)
        /\ \A i \in 1 .. Len(w) : d[o + i] = w[i]
        /\ \A i \in (o + 1) .. Len(b) : d[i + Len(w)] = b[i]
    <3>1. b \in Seq(Tokens) /\ w \in Seq(Tokens) /\ o \in 0 .. Len(b)
      BY <1>1, <1>4
    <3>2. /\ Inserted(b, o, w) \in Seq(Tokens) /\ Len(Inserted(b, o, w)) = Len(b) + Len(w)
          /\ \A i \in 1 .. Len(w) : Inserted(b, o, w)[o + i] = w[i]
          /\ \A i \in (o + 1) .. Len(b) : Inserted(b, o, w)[i + Len(w)] = b[i]
      BY ONLY <3>1, InsertedPlaces
    <3> QED BY <3>2 DEF d
  <2> QED BY <2>1
<1>6. \A n \in DOMAIN d : \/ n \in 1 .. o /\ d[n] = b[n]
                          \/ n - o \in 1 .. Len(w) /\ d[n] = w[n - o]
                          \/ n - Len(w) \in (o + 1) .. Len(b) /\ d[n] = b[n - Len(w)]
  <2> HIDE DEF w
  <2> QED BY <1>1, <1>4, PlacesOfInserted
<1> HIDE DEF d, w
<1>7. o + 1 \in DOMAIN d /\ c + 1 \in DOMAIN d /\ o + 1 < c + 1 /\ c \in (o + 1) .. Len(b)
  BY <1>1, <1>4, <1>5
<1>8. d[o + 1] = "root" /\ d[c + 1] = "/body"
  <2>1. b[c] = "/body" /\ 1 \in 1 .. Len(w)
    BY <1>1, <1>2, <1>4
  <2> QED BY <1>4, <1>5, <1>7, <2>1
<1>9. ASSUME NEW n \in DOMAIN d
      PROVE  /\ (d[n] = "root" => n = o + 1) /\ (d[n] = "/body" => n = c + 1)
             /\ (d[n] = "content" => o + 1 < n /\ n < c + 1) /\ (d[n] = "assets" => n < o + 1)
             /\ d[n] \notin {"/root", "scripts"}
  <2>1. n \in Nat
    BY <1>5
  <2>2. CASE n \in 1 .. o /\ d[n] = b[n]
    <3>1. n \in DOMAIN b /\ n <= o /\ n # c /\ n < o + 1
      BY <1>1, <2>2
    <3> QED BY <1>1, <1>2, <2>2, <3>1
  <2>3. CASE n - o \in 1 .. Len(w) /\ d[n] = w[n - o]
    <3>1. n = o + 1 /\ n - o = 1
      BY <1>1, <1>4, <2>1, <2>3
    <3>2. d[n] = "root"
      BY <1>4, <2>3, <3>1
    <3> QED BY <3>1, <3>2
  <2>4. CASE n - Len(w) \in (o + 1) .. Len(b) /\ d[n] = b[n - Len(w)]
    <3> DEFINE i == n - 1
    <3>1. i \in DOMAIN b /\ i \in Nat /\ n = i + 1 /\ d[n] = b[i]
      BY <1>1, <1>4, <2>1, <2>4
    <3> HIDE DEF i
    <3>2. (b[i] = "/body" => i = c) /\ (b[i] = "content" => o < i /\ i < c) /\ (b[i] = "assets" => i < o)
          /\ b[i] \notin {"root", "/root", "scripts"}
      BY <1>2, <3>1
    <3> QED BY <1>1, <3>1, <3>2
  <2> QED BY <1>6, <2>2, <2>3, <2>4
<1>10. Rooted(d, o + 1, c + 1)
  BY <1>5, <1>7, <1>8, <1>9 DEF Rooted
<1> QED BY <1>3, <1>10

\* The root ends, and the scripts follow, right before the body's end.
LEMMA ScriptsArePlaced ==
  ASSUME NEW b, NEW r, NEW c, Rooted(b, r, c)
  PROVE  \E e, q : Scripted(RP!WithScripts(b), r, e, q)
<1> DEFINE w == <<"/root", "scripts">>
           d == Inserted(b, c - 1, w)
<1>1. b \in Seq(Tokens) /\ DOMAIN b = 1 .. Len(b) /\ Len(b) \in Nat /\ r \in DOMAIN b /\ c \in DOMAIN b
      /\ c - 1 \in 0 .. Len(b) /\ r \in Nat /\ c \in Nat /\ r < c /\ (c - 1) + 1 = c
  BY DEF Rooted
<1>2. \A i \in DOMAIN b :
       /\ (b[i] = "root" <=> i = r) /\ (b[i] = "/body" <=> i = c)
       /\ (b[i] = "content" => r < i /\ i < c) /\ (b[i] = "assets" => i < r)
       /\ b[i] \notin {"/root", "scripts"}
  BY DEF Rooted
<1>3. RP!WithScripts(b) = d
  <2> DEFINE k == RP!Index(b, "/body")
  <2>1. b[c] = "/body"
    BY <1>1, <1>2
  <2>2. k \in 1 .. Len(b) /\ b[k] = "/body" /\ RP!Before(b, "/body", w) = Inserted(b, k - 1, w)
        /\ RP!Contains(b, "/body")
    BY <1>1, <2>1, WritingIsInserting, IndexIsAPlace
  <2>3. <<"/root">> \o <<"scripts">> = w
    BY EndOfThePage
  <2>4. RP!WithScripts(b) = RP!Before(b, "/body", w)
    BY <2>2, <2>3 DEF RP!WithScripts, RP!BodyScripts
  <2> HIDE DEF k
  <2>5. k = c
    BY <1>1, <1>2, <2>2
  <2> QED BY <2>2, <2>4, <2>5
<1>4. w \in Seq(Tokens) /\ Len(w) = 2 /\ w[1] = "/root" /\ w[2] = "scripts"
  BY DEF Tokens
<1>5. /\ d \in Seq(Tokens) /\ Len(d) = Len(b) + Len(w) /\ DOMAIN d = 1 .. Len(d)
      /\ \A i \in 1 .. c - 1 : d[i] = b[i]
      /\ \A i \in 1 .. Len(w) : d[(c - 1) + i] = w[i]
      /\ \A i \in ((c - 1) + 1) .. Len(b) : d[i + Len(w)] = b[i]
  <2> HIDE DEF w, d
  <2>1. /\ d \in Seq(Tokens) /\ Len(d) = Len(b) + Len(w)
        /\ \A i \in 1 .. c - 1 : d[i] = b[i]
        /\ \A i \in 1 .. Len(w) : d[(c - 1) + i] = w[i]
        /\ \A i \in ((c - 1) + 1) .. Len(b) : d[i + Len(w)] = b[i]
    BY <1>1, <1>4, InsertedPlaces DEF d
  <2> QED BY <2>1
<1>6. \A n \in DOMAIN d : \/ n \in 1 .. c - 1 /\ d[n] = b[n]
                          \/ n - (c - 1) \in 1 .. Len(w) /\ d[n] = w[n - (c - 1)]
                          \/ n - Len(w) \in ((c - 1) + 1) .. Len(b) /\ d[n] = b[n - Len(w)]
  <2> HIDE DEF w
  <2> QED BY <1>1, <1>4, PlacesOfInserted
<1> HIDE DEF d, w
<1>7. r \in DOMAIN d /\ c \in DOMAIN d /\ c + 2 \in DOMAIN d /\ r \in 1 .. c - 1 /\ c < c + 2
      /\ c \in ((c - 1) + 1) .. Len(b) /\ (c - 1) + 1 = c /\ 1 \in 1 .. Len(w)
  BY <1>1, <1>4, <1>5
<1>8. d[r] = "root" /\ d[c] = "/root" /\ d[c + 2] = "/body"
  <2>1. b[c] = "/body" /\ b[r] = "root"
    BY <1>1, <1>2
  <2>2. d[(c - 1) + 1] = w[1] /\ d[c + Len(w)] = b[c] /\ d[r] = b[r]
    BY <1>5, <1>7
  <2> QED BY <1>4, <1>7, <2>1, <2>2
<1>9. ASSUME NEW n \in DOMAIN d
      PROVE  /\ (d[n] = "root" => n = r) /\ (d[n] = "/root" => n = c) /\ (d[n] = "/body" => n = c + 2)
             /\ (d[n] = "content" => r < n /\ n < c) /\ (d[n] = "assets" => n < r)
             /\ (d[n] = "scripts" => c < n /\ n < c + 2)
  <2>1. n \in Nat
    BY <1>5
  <2>2. CASE n \in 1 .. c - 1 /\ d[n] = b[n]
    <3>1. n \in DOMAIN b /\ n # c
      BY <1>1, <2>2
    <3> QED BY <1>2, <2>2, <3>1
  <2>3. CASE n - (c - 1) \in 1 .. Len(w) /\ d[n] = w[n - (c - 1)]
    <3>1. n - (c - 1) = 1 \/ n - (c - 1) = 2
      BY <1>4, <2>3
    <3>2. CASE n - (c - 1) = 1
      <4>1. n = c /\ d[n] = "/root"
        BY <1>1, <1>4, <2>1, <2>3, <3>2
      <4> QED BY <4>1
    <3>3. CASE n - (c - 1) = 2
      <4>1. n = c + 1 /\ d[n] = "scripts" /\ c < n /\ n < c + 2
        BY <1>1, <1>4, <2>1, <2>3, <3>3
      <4> QED BY <4>1
    <3> QED BY <3>1, <3>2, <3>3
  <2>4. CASE n - Len(w) \in ((c - 1) + 1) .. Len(b) /\ d[n] = b[n - Len(w)]
    <3> DEFINE i == n - 2
    <3>1. i \in DOMAIN b /\ i \in Nat /\ n = i + 2 /\ d[n] = b[i] /\ c <= i
      BY <1>1, <1>4, <2>1, <2>4
    <3> HIDE DEF i
    <3>2. (b[i] = "root" => i = r) /\ (b[i] = "/body" => i = c) /\ (b[i] = "content" => i < c)
          /\ (b[i] = "assets" => i < r) /\ b[i] \notin {"/root", "scripts"}
      BY <1>2, <3>1
    <3>3. ~(i < c) /\ ~(i < r) /\ i # r
      BY <1>1, <3>1
    <3> QED BY <3>1, <3>2, <3>3
  <2> QED BY <1>6, <2>2, <2>3, <2>4
<1>10. Scripted(d, r, c, c + 2)
  BY <1>5, <1>7, <1>8, <1>9 DEF Scripted
<1> QED BY <1>3, <1>10

\* A fragment is put into a document that has all of this.
LEMMA FragmentIsPlaced ==
  ASSUME NEW b \in Seq(Tags), \A i \in DOMAIN b : b[i] # "/body"
  PROVE  LET d == <<"html", "head", "assets", "/head", "body", "root">> \o b
                  \o <<"/root">> \o RP!BodyScripts \o <<"/body", "/html">>
         IN  \E r, e, c : Scripted(d, r, e, c)
<1> DEFINE pre == <<"html", "head", "assets", "/head", "body", "root">>
           tail == <<"/root", "scripts", "/body", "/html">>
           pb == pre \o b
           d == pb \o tail
           l == Len(b)
<1>1. /\ pre \in Seq(Tokens) /\ Len(pre) = 6 /\ pre[6] = "root" /\ pre[3] = "assets"
      /\ (\A i \in 1 .. 6 : pre[i] \notin {"content", "/root", "scripts", "/body"})
      /\ (\A i \in 1 .. 5 : pre[i] # "root") /\ pre[4] # "assets" /\ pre[5] # "assets"
      /\ tail \in Seq(Tokens) /\ Len(tail) = 4
      /\ tail[1] = "/root" /\ tail[2] = "scripts" /\ tail[3] = "/body" /\ tail[4] = "/html"
  BY DEF Tokens, Tags
<1>2. b \in Seq(Tokens) /\ l \in Nat
      /\ \A i \in 1 .. l : b[i] \notin {"root", "/root", "scripts", "assets", "/body"}
  BY DEF Tokens, Tags
<1>3. pb \o <<"/root">> \o RP!BodyScripts \o <<"/body", "/html">> = d
  <2>1. pb \in Seq(Tokens) /\ <<"/root">> \in Seq(Tokens) /\ <<"scripts">> \in Seq(Tokens)
        /\ <<"/body", "/html">> \in Seq(Tokens) /\ <<"/root", "scripts">> \in Seq(Tokens)
    BY <1>1, <1>2, ConcatProperties DEF Tokens, Tags
  <2>2. <<"/root">> \o <<"scripts">> = <<"/root", "scripts">>
        /\ <<"/root", "scripts">> \o <<"/body", "/html">> = tail
    BY EndOfThePage
  <2>3. \A x, y, z \in Seq(Tokens) : (x \o y) \o z = x \o (y \o z)
    BY ConcatAssociative
  <2> HIDE DEF pb, tail
  <2>4. (pb \o <<"/root">>) \o <<"scripts">> = pb \o <<"/root", "scripts">>
    BY <2>1, <2>2, <2>3
  <2>5. (pb \o <<"/root", "scripts">>) \o <<"/body", "/html">> = pb \o tail
    BY <2>1, <2>2, <2>3
  <2> QED BY <2>4, <2>5 DEF RP!BodyScripts
<1> HIDE DEF pre, tail
<1>4. pb \in Seq(Tokens) /\ Len(pb) = 6 + l
      /\ \A i \in 1 .. 6 + l : pb[i] = IF i <= 6 THEN pre[i] ELSE b[i - 6]
  <2>1. pb \in Seq(Tokens) /\ Len(pb) = Len(pre) + Len(b)
        /\ \A i \in 1 .. Len(pre) + Len(b) : pb[i] = IF i <= Len(pre) THEN pre[i] ELSE b[i - Len(pre)]
    <3>1. pre \in Seq(Tokens) /\ b \in Seq(Tokens)
      BY <1>1, <1>2
    <3> QED BY ONLY <3>1, Behind
  <2> HIDE DEF pb
  <2> QED BY <1>1, <2>1
<1> HIDE DEF pb
<1>5. d \in Seq(Tokens) /\ Len(d) = (6 + l) + 4
      /\ \A i \in 1 .. (6 + l) + 4 : d[i] = IF i <= 6 + l THEN pb[i] ELSE tail[i - (6 + l)]
  <2>1. d \in Seq(Tokens) /\ Len(d) = Len(pb) + Len(tail)
        /\ \A i \in 1 .. Len(pb) + Len(tail) : d[i] = IF i <= Len(pb) THEN pb[i] ELSE tail[i - Len(pb)]
    BY <1>1, <1>4, Behind
  <2> HIDE DEF d
  <2> QED BY <1>1, <1>4, <2>1
<1> HIDE DEF d, l
<1>6. DOMAIN d = 1 .. l + 10
  BY <1>2, <1>5
<1>7. \A n \in DOMAIN d : \/ n \in 1 .. 6 /\ d[n] = pre[n]
                          \/ n - 6 \in 1 .. l /\ d[n] = b[n - 6]
                          \/ n = l + 7 /\ d[n] = "/root"
                          \/ n = l + 8 /\ d[n] = "scripts"
                          \/ n = l + 9 /\ d[n] = "/body"
                          \/ n = l + 10 /\ d[n] = "/html"
  <2> SUFFICES ASSUME NEW n \in 1 .. l + 10
               PROVE  \/ n \in 1 .. 6 /\ d[n] = pre[n]
                      \/ n - 6 \in 1 .. l /\ d[n] = b[n - 6]
                      \/ n = l + 7 /\ d[n] = "/root"
                      \/ n = l + 8 /\ d[n] = "scripts"
                      \/ n = l + 9 /\ d[n] = "/body"
                      \/ n = l + 10 /\ d[n] = "/html"
    BY <1>6
  <2>1. CASE n <= 6
    BY <1>2, <1>4, <1>5, <2>1
  <2>2. CASE 6 < n /\ n <= 6 + l
    BY <1>2, <1>4, <1>5, <2>2
  <2>3. CASE 6 + l < n
    <3> DEFINE j == n - (6 + l)
    <3>1. j \in {1, 2, 3, 4} /\ n = l + 6 + j /\ d[n] = tail[j]
      BY <1>2, <1>5, <2>3
    <3> HIDE DEF j
    <3> QED BY <1>1, <1>2, <3>1
  <2> QED BY <1>2, <2>1, <2>2, <2>3
<1>8. d[6] = "root" /\ d[l + 7] = "/root" /\ d[l + 9] = "/body"
  <2>1. 6 \in DOMAIN d /\ l + 7 \in DOMAIN d /\ l + 9 \in DOMAIN d /\ l \in Nat
    BY <1>2, <1>6
  <2>2. d[6] = pre[6]
    BY <1>7, <2>1
  <2>3. d[l + 7] = "/root"
    BY <1>7, <2>1
  <2>4. d[l + 9] = "/body"
    BY <1>7, <2>1
  <2> QED BY <1>1, <2>2, <2>3, <2>4
<1>9. ASSUME NEW n \in DOMAIN d
      PROVE  /\ (d[n] = "root" => n = 6) /\ (d[n] = "/root" => n = l + 7) /\ (d[n] = "/body" => n = l + 9)
             /\ (d[n] = "content" => 6 < n /\ n < l + 7) /\ (d[n] = "assets" => n < 6)
             /\ (d[n] = "scripts" => l + 7 < n /\ n < l + 9)
  <2>1. n \in Nat /\ l \in Nat
    BY <1>2, <1>6
  <2>2. CASE n \in 1 .. 6 /\ d[n] = pre[n]
    <3>1. n = 6 \/ n \in 1 .. 5
      BY <2>1, <2>2
    <3>2. CASE n = 6
      BY <1>1, <2>2, <3>2
    <3>3. CASE n \in 1 .. 5
      <4>1. n \in 1 .. 6 /\ n < 6
        BY <2>1, <3>3
      <4> QED BY <1>1, <2>2, <3>3, <4>1
    <3> QED BY <3>1, <3>2, <3>3
  <2>3. CASE n - 6 \in 1 .. l /\ d[n] = b[n - 6]
    <3>1. 6 < n /\ n < l + 7
      BY <2>1, <2>3
    <3> QED BY <1>2, <2>3, <3>1
  <2>4. CASE n = l + 7 /\ d[n] = "/root"
    BY <2>4
  <2>5. CASE n = l + 8 /\ d[n] = "scripts"
    BY <2>1, <2>5
  <2>6. CASE n = l + 9 /\ d[n] = "/body"
    BY <2>6
  <2>7. CASE n = l + 10 /\ d[n] = "/html"
    BY <2>7
  <2> QED BY <1>7, <2>2, <2>3, <2>4, <2>5, <2>6, <2>7
<1>10. 6 \in DOMAIN d /\ l + 7 \in DOMAIN d /\ l + 9 \in DOMAIN d /\ 6 < l + 7 /\ l + 7 < l + 9
  BY <1>2, <1>6
<1>11. Scripted(d, 6, l + 7, l + 9)
  BY <1>5, <1>8, <1>9, <1>10 DEF Scripted
<1> QED BY <1>3, <1>11 DEF pb, pre

\* So every document has its root, its scripts and its assets in their places.
LEMMA DocumentIsPlaced ==
  ASSUME NEW m \in Markups, RP!ShellMode(m) = "fragment" \/ RP!Contains(m, "body")
  PROVE  \E r, e, c : Scripted(RP!DocumentHtml(m), r, e, c)
<1>1. m \in Seq(Tags)
  BY MarkupAssumption
<1>2. CASE m[1] = "html"
  <2>1. PICK o \in DOMAIN m : m[o] = "body"
    BY <1>1, <1>2 DEF RP!ShellMode, RP!Contains
  <2>2. PICK c \in DOMAIN m : o < c /\
                \A i \in DOMAIN m : /\ (m[i] = "body" <=> i = o) /\ (m[i] = "/body" <=> i = c)
                                    /\ (m[i] = "content" => o < i /\ i < c) /\ (m[i] = "head" => i < o)
    BY <1>2, <2>1, MarkupAssumption
  <2>3. PICK p, q : Placed(RP!WithHead(m), p, q)
    BY <1>1, <2>2, HeadIsPlaced
  <2>4. PICK r, s : Rooted(RP!WithRoot(RP!WithHead(m)), r, s)
    BY <2>3, RootIsPlaced
  <2>5. \E e, t : Scripted(RP!WithScripts(RP!WithRoot(RP!WithHead(m))), r, e, t)
    BY <2>4, ScriptsArePlaced
  <2> QED BY <1>2, <2>5 DEF RP!DocumentHtml, RP!ShellMode
<1>3. CASE m[1] # "html"
  <2>1. \A i \in DOMAIN m : m[i] # "/body"
    BY <1>3, MarkupAssumption
  <2> QED BY <1>1, <1>3, <2>1, FragmentIsPlaced DEF RP!DocumentHtml, RP!ShellMode
<1> QED BY <1>2, <1>3

\* Having its parts in their places is what a document promises.
LEMMA RootHolds ==
  ASSUME NEW m \in Markups, RP!ShellMode(m) = "fragment" \/ RP!Contains(m, "body")
  PROVE  LET d == RP!DocumentHtml(m)
             places(tok) == {n \in DOMAIN d : d[n] = tok}
             start == RP!Index(d, "root")
             end == RP!Index(d, "/root")
         IN /\ RP!Cardinality(places("root")) = 1 /\ RP!Cardinality(places("/root")) = 1
            /\ places("content") \subseteq start .. end
            /\ \A n \in places("scripts") : end < n /\ n < RP!Index(d, "/body")
            /\ \A n \in places("assets") : n < start
<1> DEFINE d == RP!DocumentHtml(m)
<1>1. PICK r, e, c : Scripted(d, r, e, c)
  BY DocumentIsPlaced
<1> HIDE DEF d
<1>2. d \in Seq(Tokens) /\ r \in DOMAIN d /\ e \in DOMAIN d /\ c \in DOMAIN d
      /\ r \in Nat /\ e \in Nat /\ DOMAIN d \in SUBSET Nat
  BY <1>1 DEF Scripted
<1>3. \A i \in DOMAIN d :
       /\ (d[i] = "root" <=> i = r) /\ (d[i] = "/root" <=> i = e) /\ (d[i] = "/body" <=> i = c)
       /\ (d[i] = "content" => r < i /\ i < e) /\ (d[i] = "assets" => i < r)
       /\ (d[i] = "scripts" => e < i /\ i < c)
  BY <1>1 DEF Scripted
<1>4. RP!Index(d, "root") = r /\ RP!Index(d, "/root") = e /\ RP!Index(d, "/body") = c
  <2>1. d[r] = "root" /\ d[e] = "/root" /\ d[c] = "/body"
    BY <1>2, <1>3
  <2>2. /\ RP!Index(d, "root") \in DOMAIN d /\ d[RP!Index(d, "root")] = "root"
        /\ RP!Index(d, "/root") \in DOMAIN d /\ d[RP!Index(d, "/root")] = "/root"
        /\ RP!Index(d, "/body") \in DOMAIN d /\ d[RP!Index(d, "/body")] = "/body"
    BY <1>2, <2>1, IndexIsAPlace
  <2> QED BY <1>3, <2>2
<1>5. {n \in DOMAIN d : d[n] = "root"} = {r} /\ {n \in DOMAIN d : d[n] = "/root"} = {e}
  BY <1>2, <1>3
<1>6. \A x : RP!Cardinality({x}) = 1
  <2>1. \A S : RP!Cardinality(S) = Cardinality(S)
    BY Zenon DEF RP!Cardinality, Cardinality
  <2> QED BY <2>1, FS_Singleton
<1>7. {n \in DOMAIN d : d[n] = "content"} \subseteq r .. e
  BY <1>2, <1>3
<1>8. \A n \in {i \in DOMAIN d : d[i] = "scripts"} : e < n /\ n < c
  BY <1>3
<1>9. \A n \in {i \in DOMAIN d : d[i] = "assets"} : n < r
  BY <1>3
<1> QED BY <1>4, <1>5, <1>6, <1>7, <1>8, <1>9 DEF d

\* A rendered page lists the same files in its markup and in its tree, and holds its content.
LEMMA PageIsWhole ==
  PageInv => RP_TreeIsTheElements /\ RP_RootHoldsTheContent /\ RP_PayloadIsTheInnermost
<1> SUFFICES ASSUME RP!Inv, v6 = "done"
             PROVE  RP!TreeIsTheElements /\ RP!RootHoldsTheContent /\ RP!PayloadIsTheInnermost
  BY DEF PageInv, RP_TreeIsTheElements, RP_RootHoldsTheContent, RP_PayloadIsTheInnermost,
         RP!TreeIsTheElements, RP!RootHoldsTheContent, RP!PayloadIsTheInnermost
<1>1. v1 \in PageForms /\ v2 \in Markups /\ v8.nesting = RP!Elements /\ v8.tokens = v2
  BY DEF RP!Inv
<1>2. RP!TreeIsTheElements
  BY <1>1, TreeIsListed DEF RP!TreeIsTheElements
<1>3. RP!RootHoldsTheContent
  <2> SUFFICES ASSUME RP!ShellMode(v2) = "fragment" \/ RP!Contains(v2, "body")
               PROVE  RP!RootHoldsTheContent
    BY DEF RP!RootHoldsTheContent
  <2> QED BY <1>1, RootHolds DEF RP!RootHoldsTheContent
<1>4. RP!PayloadIsTheInnermost
  <2> DEFINE around == RP!Without(v1.layouts, v1.empty)
             inner == RP!Without(v1.template, v1.empty) \o <<v1.page>>
  <2>1. v9.nesting = <<v1.page>> /\ v8.slots = RP!SlotElements
    BY DEF RP!Inv
  <2>2. /\ around \in Seq(STRING) /\ inner \in Seq(STRING) /\ v8.nesting = around \o inner
        /\ Len(inner) \in Nat /\ Len(inner) >= 1
    BY <1>1, ElementsAre
  <2>3. v8.slots # {} => around # <<>>
    BY <2>1 DEF RP!SlotElements
  <2>4. ASSUME around # <<>> PROVE v8.nesting # v9.nesting
    <3>1. Len(<<v1.page>>) = 1
      OBVIOUS
    <3> HIDE DEF around, inner
    <3>2. Len(around) \in Nat \ {0}
      BY <2>2, <2>4, EmptySeq
    <3>3. Len(v8.nesting) = Len(around) + Len(inner)
      BY <2>2, ConcatProperties
    <3> QED BY <2>1, <2>2, <3>1, <3>2, <3>3
  <2>5. v8.nesting = RP!Without(v1.layouts, v1.empty) \o (RP!Without(v1.template, v1.empty) \o v9.nesting)
    BY <2>1, <2>2, Zenon
  <2> HIDE DEF around, inner
  <2> QED BY <2>3, <2>4, <2>5 DEF RP!PayloadIsTheInnermost
<1> QED BY <1>2, <1>3, <1>4

\* What a page's markup, payload, tree and document say of it agrees, however its data changes
\* while it is rendered.
THEOREM PagesAgree == Spec => []PageIsConsistent
<1>1. PageInv => PageIsConsistent
  BY PageSays, ResolvedIsConfusable, PageIsWhole DEF PageIsConsistent
<1> QED BY <1>1, PageAlways, PTL

=================================================================================
