------------------------------ MODULE Build_proofs ------------------------------
(***************************************************************************)
(* The properties of Build for every value of its constants.  The proof    *)
(* about a component looks at its own steps alone: the variables that the  *)
(* others share with it are its own while it is the one picked.            *)
(***************************************************************************)
EXTENDS Build, FiniteSetTheorems, SequenceTheorems, WellFoundedInduction, TLAPS

-----------------------------------------------------------------------------
(* The build and its verification.                                         *)
VerifyInv == which = "verify" => RV!Inv
verify == <<v1, v2, v3, v4, v5, v6, v7, v8>>

LEMMA VerifySteps ==
  ASSUME [Next]_all, which' = "verify"
  PROVE  which = "verify" /\ [RV!ReleaseNext]_verify
BY DEF Next, all, shared, verify

\* The plan of a build, spelled out.
LEMMA ThePlan ==
  /\ DOMAIN RV!Plan = 1 .. 15 /\ Len(RV!Plan) = 15
  /\ RV!Plan[1] = <<"assets", FALSE>> /\ RV!Plan[2] = <<"refs", TRUE>>
  /\ RV!Plan[3] = <<"pages", FALSE>> /\ RV!Plan[4] = <<"route", FALSE>>
  /\ RV!Plan[5] = <<"refs", TRUE>> /\ RV!Plan[6] = <<"client", TRUE>>
  /\ RV!Plan[7] = <<"render", TRUE>> /\ RV!Plan[8] = <<"prerender", TRUE>>
  /\ RV!Plan[9] = <<"tuner", FALSE>> /\ RV!Plan[10] = <<"baseline", TRUE>>
  /\ RV!Plan[11] = <<"deployment", TRUE>> /\ RV!Plan[12] = <<"signature", TRUE>>
  /\ RV!Plan[13] = <<"deploymentSignature", TRUE>> /\ RV!Plan[14] = <<"governance", TRUE>>
  /\ RV!Plan[15] = <<"evidence", FALSE>>
<1>1. /\ RV!Plan[1] = <<"assets", FALSE>> /\ RV!Plan[2] = <<"refs", TRUE>>
      /\ RV!Plan[3] = <<"pages", FALSE>> /\ RV!Plan[4] = <<"route", FALSE>>
      /\ RV!Plan[5] = <<"refs", TRUE>> /\ RV!Plan[6] = <<"client", TRUE>>
      /\ RV!Plan[7] = <<"render", TRUE>> /\ RV!Plan[8] = <<"prerender", TRUE>>
  BY DEF RV!Plan
<1>2. /\ RV!Plan[9] = <<"tuner", FALSE>> /\ RV!Plan[10] = <<"baseline", TRUE>>
      /\ RV!Plan[11] = <<"deployment", TRUE>> /\ RV!Plan[12] = <<"signature", TRUE>>
      /\ RV!Plan[13] = <<"deploymentSignature", TRUE>> /\ RV!Plan[14] = <<"governance", TRUE>>
      /\ RV!Plan[15] = <<"evidence", FALSE>>
  BY DEF RV!Plan
<1>3. Len(RV!Plan) = 15
  BY DEF RV!Plan
<1>4. DOMAIN RV!Plan = 1 .. 15
  BY SMT DEF RV!Plan
<1> QED BY <1>1, <1>2, <1>3, <1>4

\* The file of each step.
FileOf(i) == RV!Plan[i][1]
LEMMA TheFiles ==
  /\ FileOf(1) = "assets" /\ FileOf(2) = "refs" /\ FileOf(3) = "pages" /\ FileOf(4) = "route"
  /\ FileOf(5) = "refs" /\ FileOf(6) = "client" /\ FileOf(7) = "render" /\ FileOf(8) = "prerender"
  /\ FileOf(9) = "tuner" /\ FileOf(10) = "baseline" /\ FileOf(11) = "deployment"
  /\ FileOf(12) = "signature" /\ FileOf(13) = "deploymentSignature" /\ FileOf(14) = "governance"
  /\ FileOf(15) = "evidence"
  /\ RV!Files = {"assets", "refs", "route", "client", "render", "prerender", "tuner", "baseline",
                 "deployment", "signature", "deploymentSignature", "governance", "evidence"}
  /\ RV!Signed = {"refs", "route", "client", "render", "prerender", "tuner", "baseline", "deployment"}
  /\ RV!Named = RV!Files \ {"assets", "deployment"}
<1>1. /\ FileOf(1) = "assets" /\ FileOf(2) = "refs" /\ FileOf(3) = "pages" /\ FileOf(4) = "route"
      /\ FileOf(5) = "refs" /\ FileOf(6) = "client" /\ FileOf(7) = "render" /\ FileOf(8) = "prerender"
      /\ FileOf(9) = "tuner" /\ FileOf(10) = "baseline" /\ FileOf(11) = "deployment"
      /\ FileOf(12) = "signature" /\ FileOf(13) = "deploymentSignature" /\ FileOf(14) = "governance"
      /\ FileOf(15) = "evidence"
  BY ThePlan DEF FileOf
<1>2. RV!Files = {FileOf(i) : i \in 1 .. 15} \ {"pages"}
  BY ThePlan DEF RV!Files, FileOf
<1>3. \A i \in 1 .. 15 : i \in {1, 2, 3, 4, 5, 6, 7, 8, 9, 10, 11, 12, 13, 14, 15}
  OBVIOUS
<1> HIDE DEF FileOf
<1>4. RV!Files = {"assets", "refs", "route", "client", "render", "prerender", "tuner", "baseline",
                 "deployment", "signature", "deploymentSignature", "governance", "evidence"}
  BY <1>1, <1>2, <1>3
<1>5. RV!Named = RV!Files \ {"assets", "deployment"}
  BY DEF RV!Named
<1>6. RV!Signed = {"refs", "route", "client", "render", "prerender", "tuner", "baseline", "deployment"}
  BY <1>4, <1>5 DEF RV!Signed
<1> QED BY <1>1, <1>4, <1>5, <1>6

\* The last step at which a file is written.
LastStep ==
  [assets |-> 1, refs |-> 5, route |-> 4, client |-> 6, render |-> 7, prerender |-> 8, tuner |-> 9,
   baseline |-> 10, deployment |-> 11, signature |-> 12, deploymentSignature |-> 13,
   governance |-> 14, evidence |-> 15]

LEMMA TheLastSteps ==
  /\ \A f \in RV!Files : LastStep[f] \in 1 .. 15 /\ FileOf(LastStep[f]) = f
  /\ \A i \in 1 .. 15 : i # 3 =>
       FileOf(i) \in RV!Files /\ (i # 2 => LastStep[FileOf(i)] = i) /\ LastStep[FileOf(2)] = 5
  /\ \A f \in RV!Signed : f \in RV!Files /\ LastStep[f] < 12
  /\ \A i \in 1 .. 15 : (FileOf(i) = "pages") <=> (i = 3)
  /\ LastStep["signature"] = 12 /\ LastStep["deploymentSignature"] = 13
  /\ LastStep["governance"] = 14 /\ LastStep["evidence"] = 15
<1>1. \A i \in 1 .. 15 : i \in {1, 2, 3, 4, 5, 6, 7, 8, 9, 10, 11, 12, 13, 14, 15}
  OBVIOUS
<1> HIDE DEF FileOf
<1>2. \A f \in RV!Files : LastStep[f] \in 1 .. 15 /\ FileOf(LastStep[f]) = f
  BY TheFiles DEF LastStep
<1>3. ASSUME NEW i \in 1 .. 15, i # 3
      PROVE  FileOf(i) \in RV!Files /\ (i # 2 => LastStep[FileOf(i)] = i)
  BY <1>1, <1>3, TheFiles DEF LastStep
<1>4. \A f \in RV!Signed : f \in RV!Files /\ LastStep[f] < 12
  BY TheFiles DEF LastStep
<1>5. \A i \in 1 .. 15 : (FileOf(i) = "pages") <=> (i = 3)
  BY <1>1, TheFiles
<1>6. /\ LastStep["signature"] = 12 /\ LastStep["deploymentSignature"] = 13
      /\ LastStep["governance"] = 14 /\ LastStep["evidence"] = 15 /\ LastStep[FileOf(2)] = 5
  BY TheFiles DEF LastStep
<1> QED BY <1>2, <1>3, <1>4, <1>5, <1>6

\* What is behind the step n.
LEMMA BehindIsLast ==
  ASSUME NEW n \in 0 .. 16, NEW f \in RV!Files
  PROVE  (\A i \in DOMAIN RV!Plan : RV!Plan[i][1] = f => i < n) <=> LastStep[f] < n
<1>1. (\A i \in DOMAIN RV!Plan : RV!Plan[i][1] = f => i < n)
        <=> \A i \in 1 .. 15 : FileOf(i) = f => i < n
  BY ThePlan DEF FileOf
<1>2. LastStep[f] \in 1 .. 15 /\ FileOf(LastStep[f]) = f
  BY TheLastSteps
<1>3. ASSUME NEW i \in 1 .. 15, FileOf(i) = f PROVE i <= LastStep[f]
  <2>1. CASE i = 2
    BY <1>3, <2>1, TheLastSteps
  <2>2. CASE i = 3
    BY <1>3, <2>2, TheFiles
  <2>3. CASE i # 2 /\ i # 3
    BY <1>3, <2>3, TheLastSteps
  <2> QED BY <2>1, <2>2, <2>3
<1> QED BY <1>1, <1>2, <1>3

\* What a build has written of each file whose last step is behind it.
WroteBefore(d, n, run, app) == \A f \in RV!Files : LastStep[f] < n => RV!Wrote(d, f, run, app)

\* What a step does to its own file leaves those behind it as they are.
LEMMA WroteStays ==
  ASSUME NEW d, DOMAIN d = RV!Files, NEW i \in 1 .. 15, i # 3, NEW x, NEW run, NEW app,
         WroteBefore(d, i, run, app)
  PROVE  WroteBefore([d EXCEPT ![FileOf(i)] = x], i, run, app)
<1> DEFINE e == [d EXCEPT ![FileOf(i)] = x]
<1>1. \A f \in RV!Files : f # FileOf(i) => e[f] = d[f]
  OBVIOUS
<1> HIDE DEF e
<1>2. ASSUME NEW f \in RV!Files, LastStep[f] < i PROVE RV!Wrote(e, f, run, app)
  <2>1. RV!Wrote(d, f, run, app)
    BY <1>2 DEF WroteBefore
  <2>2. f # FileOf(i)
    BY <1>2, TheLastSteps
  <2>3. e[f] = d[f]
    BY <1>1, <2>2
  <2>4. CASE f \in {"signature", "deploymentSignature"}
    <3>1. LastStep[f] \in {12, 13}
      BY <2>4, TheLastSteps
    <3>2. i >= 13
      BY <1>2, <3>1
    <3>3. \A g \in RV!Signed : g \in RV!Files /\ g # FileOf(i)
      BY <3>2, TheLastSteps
    <3>4. [g \in RV!Signed |-> e[g]] = [g \in RV!Signed |-> d[g]]
      BY <1>1, <3>3
    <3> QED BY <2>1, <2>3, <2>4, <3>4 DEF RV!Wrote
  <2>5. CASE f \notin {"signature", "deploymentSignature"}
    BY <2>1, <2>3, <2>5 DEF RV!Wrote, RV!Signatures
  <2> QED BY <2>4, <2>5
<1> QED BY <1>2 DEF WroteBefore, e

\* A file's last write makes it what the build is to leave there.
LEMMA WroteOn ==
  ASSUME NEW d, DOMAIN d = RV!Files, NEW i \in 1 .. 15, i # 3, NEW run \in Nat, NEW app,
         WroteBefore(d, i, run, app), None \notin RV!Contents, app \in Deployables, NEW o,
         o = CASE FileOf(i) = "signature" -> [g \in RV!Signed |-> d[g]]
               [] FileOf(i) = "deploymentSignature" -> d["signature"].of
               [] FileOf(i) = "governance" -> app
               [] FileOf(i) \notin {"signature", "deploymentSignature", "governance"} -> None
  PROVE  WroteBefore([d EXCEPT ![FileOf(i)] = [run |-> run, id |-> IF i > 4 THEN app ELSE None,
                                               renewed |-> FALSE, of |-> o]], i + 1, run, app)
<1> DEFINE f == FileOf(i)
           x == [run |-> run, id |-> IF i > 4 THEN app ELSE None, renewed |-> FALSE, of |-> o]
           e == [d EXCEPT ![f] = x]
<1>1. WroteBefore(e, i, run, app)
  BY WroteStays
<1>2. e[f] = x /\ f \in RV!Files
  BY TheLastSteps
<1>3. LastStep[f] < i + 1 => RV!Wrote(e, f, run, app)
  <2>1. CASE i = 2
    BY <2>1, TheLastSteps
  <2>2. CASE i # 2
    <3>1. LastStep[f] = i
      BY <2>2, TheLastSteps
    <3>2. CASE f = "evidence"
      <4>1. x \in RV!Contents
        BY <3>2 DEF RV!Contents
      <4> QED BY <1>2, <3>2, <4>1 DEF RV!Wrote
    <3>3. CASE f \in {"signature", "deploymentSignature"}
      <4>1. i \in {12, 13} /\ i > 4
        BY <3>1, <3>3, TheLastSteps
      <4>2. \A g \in RV!Signed : g # f /\ e[g] = d[g]
        BY <3>1, <4>1, TheLastSteps
      <4>3. [g \in RV!Signed |-> e[g]] = [g \in RV!Signed |-> d[g]]
        BY <4>2
      <4>4. o = [g \in RV!Signed |-> e[g]]
        <5>1. CASE f = "signature"
          BY <4>3, <5>1
        <5>2. CASE f = "deploymentSignature"
          <6>1. i = 13 /\ "signature" \in RV!Files
            BY <3>1, <5>2, TheLastSteps, TheFiles
          <6>2. RV!Wrote(d, "signature", run, app)
            BY <6>1, TheLastSteps DEF WroteBefore
          <6>3. d["signature"] = [run |-> run, id |-> app, renewed |-> FALSE,
                                  of |-> [g \in RV!Signed |-> d[g]]]
            BY <6>2 DEF RV!Wrote, RV!Signatures
          <6>4. d["signature"].of = [g \in RV!Signed |-> d[g]]
            BY <6>3
          <6> QED BY <4>3, <5>2, <6>4
        <5> QED BY <3>3, <5>1, <5>2
      <4> QED BY <1>2, <3>3, <4>1, <4>4 DEF RV!Wrote, RV!Signatures
    <3>4. CASE f = "governance"
      <4>1. o = app
        BY <3>4
      <4>2. i = 14
        BY <3>1, <3>4, TheLastSteps
      <4> QED BY <1>2, <3>4, <4>1, <4>2 DEF RV!Wrote, RV!Signatures
    <3>5. CASE f \notin {"evidence", "signature", "deploymentSignature", "governance"}
      <4>1. (i > 4) <=> (f \notin {"assets", "route"})
        BY <2>2, <3>1, <1>2, TheFiles DEF LastStep
      <4>2. o = None
        BY <3>5
      <4> QED BY <1>2, <3>5, <4>1, <4>2 DEF RV!Wrote, RV!Signatures
    <3> QED BY <3>2, <3>3, <3>4, <3>5
  <2> QED BY <2>1, <2>2
<1> HIDE DEF e
<1>4. ASSUME NEW g \in RV!Files, LastStep[g] < i + 1, g # f PROVE RV!Wrote(e, g, run, app)
  <2>1. LastStep[g] \in 1 .. 15 /\ LastStep[g] # i
    BY <1>4, TheLastSteps
  <2>2. LastStep[g] < i
    BY <1>4, <2>1
  <2> QED BY <1>1, <2>2 DEF WroteBefore
<1>5. WroteBefore(e, i + 1, run, app)
  BY <1>3, <1>4 DEF WroteBefore
<1> QED BY <1>5 DEF e

\* The same of what stays when a server comes.
LeftBefore(d, n, run, app) == \A f \in RV!Files : LastStep[f] < n => RV!Left(d, f, run, app)

LEMMA LeftStays ==
  ASSUME NEW d, DOMAIN d = RV!Files, NEW i \in 1 .. 15, i # 3, NEW x, NEW run, NEW app,
         LeftBefore(d, i, run, app)
  PROVE  LeftBefore([d EXCEPT ![FileOf(i)] = x], i, run, app)
<1> DEFINE e == [d EXCEPT ![FileOf(i)] = x]
<1>1. \A f \in RV!Files : f # FileOf(i) => e[f] = d[f]
  OBVIOUS
<1> HIDE DEF e
<1>2. ASSUME NEW f \in RV!Files, LastStep[f] < i PROVE RV!Left(e, f, run, app)
  <2>1. RV!Left(d, f, run, app)
    BY <1>2 DEF LeftBefore
  <2>2. f # FileOf(i)
    BY <1>2, TheLastSteps
  <2>3. e[f] = d[f]
    BY <1>1, <2>2
  <2>4. f \notin RV!Signatures => (RV!Wrote(e, f, run, app) <=> RV!Wrote(d, f, run, app))
    BY <2>3 DEF RV!Wrote
  <2> QED BY <2>1, <2>3, <2>4 DEF RV!Left
<1> QED BY <1>2 DEF LeftBefore, e

LEMMA LeftOn ==
  ASSUME NEW d, DOMAIN d = RV!Files, NEW i \in 1 .. 15, i # 3, NEW run \in Nat, NEW app \in Deployables,
         LeftBefore(d, i, run, app),
         NEW o \in {None} \cup Deployables \cup [RV!Signed -> RV!Plain \cup {None}],
         FileOf(i) = "governance" => o = app,
         FileOf(i) \notin {"signature", "deploymentSignature", "governance"} => o = None
  PROVE  LeftBefore([d EXCEPT ![FileOf(i)] = [run |-> run, id |-> IF i > 4 THEN app ELSE None,
                                              renewed |-> FALSE, of |-> o]], i + 1, run, app)
<1> DEFINE f == FileOf(i)
           x == [run |-> run, id |-> IF i > 4 THEN app ELSE None, renewed |-> FALSE, of |-> o]
           e == [d EXCEPT ![f] = x]
<1>1. LeftBefore(e, i, run, app)
  BY LeftStays
<1>2. e[f] = x /\ f \in RV!Files
  BY TheLastSteps
<1>3. x # None /\ x.run = run
  <2>1. x \in RV!Contents
    BY DEF RV!Contents
  <2> QED BY <2>1, NoneAssumption
<1>4. LastStep[f] < i + 1 => RV!Left(e, f, run, app)
  <2>1. CASE i = 2
    BY <2>1, TheLastSteps
  <2>2. CASE i # 2
    <3>1. LastStep[f] = i
      BY <2>2, TheLastSteps
    <3>2. CASE f \in {"evidence", "prerender", "signature", "deploymentSignature"}
      BY <1>2, <1>3, <3>2 DEF RV!Left, RV!Wrote, RV!IsOf, RV!Signatures
    <3>3. CASE f = "governance"
      <4>1. o = app /\ i = 14
        BY <3>1, <3>3, TheLastSteps
      <4> QED BY <1>2, <3>3, <4>1 DEF RV!Left, RV!Wrote, RV!Signatures
    <3>4. CASE f \notin {"evidence", "prerender", "signature", "deploymentSignature", "governance"}
      <4>1. (i > 4) <=> (f \notin {"assets", "route"})
        BY <2>2, <3>1, <1>2, TheFiles DEF LastStep
      <4>2. o = None
        BY <3>4
      <4> QED BY <1>2, <3>4, <4>1, <4>2 DEF RV!Left, RV!Wrote, RV!Signatures
    <3> QED BY <3>2, <3>3, <3>4
  <2> QED BY <2>1, <2>2
<1> HIDE DEF e
<1>5. ASSUME NEW g \in RV!Files, LastStep[g] < i + 1, g # f PROVE RV!Left(e, g, run, app)
  <2>1. LastStep[g] \in 1 .. 15 /\ LastStep[g] # i
    BY <1>5, TheLastSteps
  <2>2. LastStep[g] < i
    BY <1>5, <2>1
  <2> QED BY <1>1, <2>2 DEF LeftBefore
<1>6. LeftBefore(e, i + 1, run, app)
  BY <1>4, <1>5 DEF LeftBefore
<1> QED BY <1>6 DEF e

\* Before the build writes the prerender manifest, a server changes nothing of what it wrote.
LEMMA LeftIsWrote ==
  ASSUME NEW d, NEW run, NEW app, LeftBefore(d, 8, run, app)
  PROVE  WroteBefore(d, 8, run, app)
<1> SUFFICES ASSUME NEW f \in RV!Files, LastStep[f] < 8 PROVE RV!Wrote(d, f, run, app)
  BY DEF WroteBefore
<1>1. f # "prerender" /\ f \notin RV!Signatures
  BY TheLastSteps DEF LastStep, RV!Signatures
<1> QED BY <1>1 DEF LeftBefore, RV!Left

\* The evidence may be written again: a whole build only asks that it is there.
LEMMA WroteButEvidence ==
  ASSUME NEW d, DOMAIN d = RV!Files, NEW x, x # None, NEW run, NEW app, NEW f \in RV!Files,
         RV!Wrote(d, f, run, app)
  PROVE  RV!Wrote([d EXCEPT !["evidence"] = x], f, run, app)
<1> DEFINE e == [d EXCEPT !["evidence"] = x]
<1>1. e["evidence"] = x /\ \A g \in RV!Files : g # "evidence" => e[g] = d[g]
  BY TheFiles
<1> HIDE DEF e
<1>2. \A g \in RV!Signed : e[g] = d[g]
  BY <1>1, TheFiles
<1>3. [g \in RV!Signed |-> e[g]] = [g \in RV!Signed |-> d[g]]
  BY <1>2
<1>4. RV!Wrote(e, f, run, app)
  <2>1. CASE f = "evidence"
    BY <1>1, <2>1 DEF RV!Wrote
  <2>2. CASE f # "evidence"
    <3>1. e[f] = d[f]
      BY <1>1, <2>2
    <3> QED BY <1>3, <2>2, <3>1 DEF RV!Wrote
  <2> QED BY <2>1, <2>2
<1> QED BY <1>4 DEF e

Checking == {"read", "checked", "tested", "audited", "evidence", "reported", "passed"}

LEMMA DiskStays ==
  ASSUME RV!Inv, v1' = v1, v3'.run \in Nat, v3.run <= v3'.run
  PROVE  RV!DiskInv'
<1>1. RV!DiskInv /\ v3.run \in Nat
  BY DEF RV!Inv, RV!BuildInv
<1>2. \A r \in 1 .. v3.run : r \in 1 .. v3'.run
  BY <1>1
<1> QED BY <1>1, <1>2 DEF RV!DiskInv

\* While a build goes on, no verification holds it to what it has checked.
LEMMA VerificationWaits ==
  ASSUME RV!Inv, v3.at # 0, v3'.run = v3.run, v7' = v7, v8' = v8
  PROVE  RV!VerificationInv'
BY DEF RV!Inv, RV!VerificationInv

LEMMA VerificationFails ==
  ASSUME RV!Inv, v3'.run \in Nat, v3.run <= v3'.run, RV!Fail
  PROVE  RV!VerificationInv'
<1>1. v7'.at = "failed" /\ v7'.run = v7.run /\ DOMAIN v7' = {"at", "run", "id", "read"}
  BY DEF RV!Fail, RV!NotVerifying
<1>2. v7.run \in 0 .. v3.run /\ v3.run \in Nat
  BY DEF RV!Inv, RV!VerificationInv, RV!BuildInv
<1> QED BY <1>1, <1>2 DEF RV!VerificationInv

BuildRecords(P) ==
  [at : 0 .. Len(RV!Plan) + 1, run : Nat, app : Deployables \cup {None}, half : BOOLEAN, listed : SUBSET P]

LEMMA BuildIsTyped ==
  ASSUME NEW n \in 0 .. 16, NEW r \in Nat, NEW x \in Deployables \cup {None}, NEW h \in BOOLEAN,
         NEW P, NEW l \in SUBSET P
  PROVE  [at |-> n, run |-> r, app |-> x, half |-> h, listed |-> l] \in BuildRecords(P)
<1>1. Len(RV!Plan) + 1 = 16
  BY ThePlan
<1> QED BY <1>1 DEF BuildRecords

\* No build is at work: nothing is claimed of the files.
LEMMA BuildIsIdle ==
  ASSUME RV!Inv, v3' = [RV!Idle EXCEPT !.run = v3.run]
  PROVE  RV!BuildInv' /\ v3'.run = v3.run /\ v3'.at = 0
<1>1. v3' = [at |-> 0, run |-> v3.run, app |-> None, half |-> FALSE, listed |-> {}]
  BY DEF RV!Idle
<1>2. v3.run \in Nat
  BY DEF RV!Inv, RV!BuildInv
<1>3. v3' \in BuildRecords(DOMAIN v2')
  <2> DEFINE b == [at |-> 0, run |-> v3.run, app |-> None, half |-> FALSE, listed |-> {}]
  <2>1. /\ 0 \in 0 .. 16 /\ None \in Deployables \cup {None} /\ FALSE \in BOOLEAN
        /\ {} \in SUBSET DOMAIN v2'
    OBVIOUS
  <2>2. b \in BuildRecords(DOMAIN v2')
    BY <1>2, <2>1, BuildIsTyped, Zenon
  <2> QED BY <1>1, <2>2
<1> QED BY <1>1, <1>3 DEF RV!BuildInv, BuildRecords

\* A build begins: nothing is behind it yet.
LEMMA BeginKeeps ==
  ASSUME RV!Inv, NEW a \in Deployables, RV!Begin(a)
  PROVE  RV!DiskInv' /\ RV!BuildInv' /\ v3'.run = v3.run + 1 /\ v3'.at = 1 /\ v3.run \in Nat
<1>1. v3.run \in Nat /\ v1' = v1 /\ v2' = v2
  BY DEF RV!Inv, RV!BuildInv, RV!Begin
<1>2. v3' = [at |-> 1, run |-> v3.run + 1, app |-> a, half |-> FALSE, listed |-> {}]
  BY DEF RV!Begin, RV!Idle
<1>3. RV!DiskInv'
  BY <1>1, <1>2, DiskStays
<1>4. v3' \in BuildRecords(DOMAIN v2')
  <2> DEFINE b == [at |-> 1, run |-> v3.run + 1, app |-> a, half |-> FALSE, listed |-> {}]
  <2>1. /\ 1 \in 0 .. 16 /\ v3.run + 1 \in Nat /\ a \in Deployables \cup {None} /\ FALSE \in BOOLEAN
        /\ {} \in SUBSET DOMAIN v2'
    BY <1>1
  <2>2. b \in BuildRecords(DOMAIN v2')
    BY <2>1, BuildIsTyped, Zenon
  <2> QED BY <1>2, <2>2
<1>5. \A f \in RV!Files : ~RV!Behind(f)'
  <2> SUFFICES ASSUME NEW f \in RV!Files, RV!Behind(f)' PROVE FALSE
    OBVIOUS
  <2>1. \A i \in 1 .. 15 : FileOf(i) = f => i < 1
    BY <1>2, ThePlan DEF RV!Behind, FileOf
  <2> QED BY <2>1, TheLastSteps
<1> QED BY <1>1, <1>2, <1>3, <1>4, <1>5 DEF RV!BuildInv, BuildRecords

\* What the build's part of the invariant says while a build is at work.
LEMMA BuildAtWork ==
  ASSUME RV!Inv, v3.at # 0
  PROVE  /\ v3.at \in 1 .. 16 /\ v3.run \in Nat /\ v3.run > 0 /\ v3.app \in Deployables
         /\ v3.half \in BOOLEAN /\ v3.listed \in SUBSET DOMAIN v2
         /\ v3 = [at |-> v3.at, run |-> v3.run, app |-> v3.app, half |-> v3.half, listed |-> v3.listed]
         /\ v3.half => v3.at \in 1 .. 15 /\ v3.at # 3
         /\ \A p \in v3.listed : v2[p].run \in {v3.run, 0}
         /\ LeftBefore(v1, v3.at, v3.run, v3.app) /\ DOMAIN v1 = RV!Files
         /\ v4 \/ WroteBefore(v1, v3.at, v3.run, v3.app)
<1>1. RV!BuildInv /\ RV!DiskInv
  BY DEF RV!Inv
<1>2. /\ v3.at \in 0 .. 16 /\ v3.run \in Nat /\ v3.half \in BOOLEAN /\ v3.listed \in SUBSET DOMAIN v2
      /\ v3 = [at |-> v3.at, run |-> v3.run, app |-> v3.app, half |-> v3.half, listed |-> v3.listed]
  BY <1>1, ThePlan DEF RV!BuildInv
<1>3. v3.run > 0 /\ v3.app \in Deployables /\ \A p \in v3.listed : v2[p].run \in {v3.run, 0}
  BY <1>1 DEF RV!BuildInv
<1>4. v3.half => v3.at \in 1 .. 15 /\ v3.at # 3
  BY <1>1, <1>2, ThePlan, TheLastSteps DEF RV!BuildInv, FileOf
<1>5. \A f \in RV!Files : LastStep[f] < v3.at =>
        RV!Left(v1, f, v3.run, v3.app) /\ (v4 \/ RV!Wrote(v1, f, v3.run, v3.app))
  BY <1>1, <1>2, BehindIsLast DEF RV!BuildInv, RV!Behind
<1>6. LeftBefore(v1, v3.at, v3.run, v3.app) /\ (v4 \/ WroteBefore(v1, v3.at, v3.run, v3.app))
  BY <1>5 DEF LeftBefore, WroteBefore
<1> QED BY <1>1, <1>2, <1>3, <1>4, <1>6 DEF RV!DiskInv

LEMMA BuildMoves ==
  ASSUME RV!Inv, v3.at # 0, NEW n \in 1 .. 16, NEW h \in BOOLEAN, NEW l \in SUBSET DOMAIN v2',
         v3' = [at |-> n, run |-> v3.run, app |-> v3.app, half |-> h, listed |-> l],
         h => n \in 1 .. 15 /\ n # 3,
         \A p \in l : v2'[p].run \in {v3.run, 0},
         LeftBefore(v1', n, v3.run, v3.app), v4' \/ WroteBefore(v1', n, v3.run, v3.app)
  PROVE  RV!BuildInv'
<1>1. /\ v3'.at = n /\ v3'.run = v3.run /\ v3'.app = v3.app /\ v3'.half = h /\ v3'.listed = l
      /\ v3.run \in Nat /\ v3.run > 0 /\ v3.app \in Deployables
  BY BuildAtWork
<1>2. v3' \in BuildRecords(DOMAIN v2')
  <2>1. n \in 0 .. 16 /\ v3.app \in Deployables \cup {None}
    BY <1>1
  <2>2. [at |-> n, run |-> v3.run, app |-> v3.app, half |-> h, listed |-> l] \in BuildRecords(DOMAIN v2')
    BY <1>1, <2>1, BuildIsTyped, Zenon
  <2> QED BY <2>2
<1>3. \A f \in RV!Files : RV!Behind(f)' =>
        RV!Left(v1', f, v3'.run, v3'.app) /\ (v4' \/ RV!Wrote(v1', f, v3'.run, v3'.app))
  <2> SUFFICES ASSUME NEW f \in RV!Files, RV!Behind(f)'
               PROVE  RV!Left(v1', f, v3.run, v3.app) /\ (v4' \/ RV!Wrote(v1', f, v3.run, v3.app))
    BY <1>1
  <2>1. \A i \in DOMAIN RV!Plan : RV!Plan[i][1] = f => i < n
    BY <1>1 DEF RV!Behind
  <2>2. LastStep[f] < n
    BY <2>1, BehindIsLast
  <2> QED BY <2>2 DEF WroteBefore, LeftBefore
<1>4. h => n \in DOMAIN RV!Plan /\ RV!Plan[n][1] # "pages"
  BY ThePlan, TheLastSteps DEF FileOf
<1> HIDE DEF WroteBefore, LeftBefore
<1> QED BY <1>1, <1>2, <1>3, <1>4 DEF RV!BuildInv, BuildRecords

\* What may be written into a file.
MayHold(g, x, run) ==
  /\ g \in RV!Signed => x \in RV!Plain \cup {None}
  /\ g \in {"signature", "deploymentSignature"} /\ x \notin {None, RV!Torn} =>
       x.of \in [RV!Signed -> RV!Plain \cup {None}]
  /\ g = "signature" /\ x \notin {None, RV!Torn} =>
       \E r \in 1 .. run : \A h \in RV!Signed :
         RV!IsOf(x.of[h], r) /\ (h # "prerender" => x.of[h].run = r)

LEMMA DiskWrites ==
  ASSUME RV!Inv, NEW g \in RV!Files, NEW x, v1' = [v1 EXCEPT ![g] = x],
         v3'.run = v3.run, MayHold(g, x, v3.run)
  PROVE  RV!DiskInv'
<1>1. RV!DiskInv /\ v3.run \in Nat
  BY DEF RV!Inv, RV!BuildInv
<1>2. DOMAIN v1 = RV!Files
  BY <1>1 DEF RV!DiskInv
<1>3. DOMAIN v1' = RV!Files /\ v1'[g] = x /\ \A f \in RV!Files : f # g => v1'[f] = v1[f]
  BY <1>2
<1>4. /\ RV!Signed \subseteq RV!Files /\ {"signature", "deploymentSignature"} \subseteq RV!Files
      /\ RV!Signatures = {"signature", "deploymentSignature"}
  BY TheFiles DEF RV!Signatures
<1>5. \A f \in RV!Signed : v1'[f] \in RV!Plain \cup {None}
  BY <1>1, <1>3, <1>4 DEF RV!DiskInv, MayHold
<1>6. \A f \in {"signature", "deploymentSignature"} :
        v1'[f] \notin {None, RV!Torn} => v1'[f].of \in [RV!Signed -> RV!Plain \cup {None}]
  BY <1>1, <1>3, <1>4 DEF RV!DiskInv, MayHold
<1>7. v1'["signature"] \notin {None, RV!Torn} =>
        \E r \in 1 .. v3.run : \A h \in RV!Signed :
          /\ RV!IsOf(v1'["signature"].of[h], r)
          /\ h # "prerender" => v1'["signature"].of[h].run = r
  <2>1. CASE g = "signature"
    BY <1>3, <2>1 DEF MayHold
  <2>2. CASE g # "signature"
    <3>1. v1'["signature"] = v1["signature"]
      BY <1>3, <1>4, <2>2
    <3> QED BY <1>1, <3>1 DEF RV!DiskInv
  <2> QED BY <2>1, <2>2
<1> QED BY <1>3, <1>4, <1>5, <1>6, <1>7 DEF RV!DiskInv

LEMMA NothingMayBeHeld == \A g, run : MayHold(g, None, run) /\ MayHold(g, RV!Torn, run)
BY DEF MayHold, RV!Plain, RV!Torn

\* A build's write of the prerender manifest leaves the server's memory alone.
LEMMA ReplacedIsTyped ==
  ASSUME RV!Inv, v6' = RV!Replaced
  PROVE  RV!ServerInv'
<1>1. v6 \in [memory : RV!Plain \cup {None}, writing : {m \in RV!Plain : m.renewed} \cup {None}, writes : Nat]
  BY DEF RV!Inv, RV!ServerInv
<1>2. v6' = v6 \/ v6' = [v6 EXCEPT !.writing = None]
  BY DEF RV!Replaced
<1> QED BY <1>1, <1>2 DEF RV!ServerInv

\* The first half of a write.
LEMMA HalfKeeps ==
  ASSUME RV!Inv, RV!WriteHalf
  PROVE  RV!DiskInv' /\ RV!BuildInv' /\ RV!ServerInv' /\ v3'.run = v3.run /\ v3.at # 0 /\ v5' = v5 /\ v4' = v4
<1> DEFINE i == v3.at
           x == IF RV!Atomically THEN None ELSE RV!Torn
<1>1. /\ i \in 1 .. 15 /\ i # 3 /\ v1' = [v1 EXCEPT ![FileOf(i)] = x]
      /\ v3' = [v3 EXCEPT !.half = TRUE] /\ v2' = v2 /\ v4' = v4 /\ v5' = v5
  BY ThePlan, TheFiles DEF RV!WriteHalf, RV!File, RV!Order, FileOf
<1> HIDE DEF x
<1>2. x \in {None, RV!Torn}
  BY DEF x
<1>3. v3' = [at |-> i, run |-> v3.run, app |-> v3.app, half |-> TRUE, listed |-> v3.listed]
  <2>1. v3 = [at |-> v3.at, run |-> v3.run, app |-> v3.app, half |-> v3.half, listed |-> v3.listed]
    BY <1>1, BuildAtWork
  <2> QED BY <1>1, <2>1
<1>4. LeftBefore(v1', i, v3.run, v3.app) /\ (v4' \/ WroteBefore(v1', i, v3.run, v3.app))
  <2>1. /\ LeftBefore(v1, i, v3.run, v3.app) /\ DOMAIN v1 = RV!Files
        /\ v4 \/ WroteBefore(v1, i, v3.run, v3.app)
    BY <1>1, BuildAtWork
  <2>2. LeftBefore([v1 EXCEPT ![FileOf(i)] = x], i, v3.run, v3.app)
    BY <1>1, <2>1, LeftStays
  <2>3. v4 \/ WroteBefore([v1 EXCEPT ![FileOf(i)] = x], i, v3.run, v3.app)
    BY <1>1, <2>1, WroteStays
  <2> QED BY <1>1, <2>2, <2>3
<1>5. RV!BuildInv'
  <2>1. i \in 1 .. 16 /\ TRUE \in BOOLEAN /\ v3.listed \in SUBSET DOMAIN v2' /\ i # 0
        /\ \A p \in v3.listed : v2'[p].run \in {v3.run, 0}
    BY <1>1, BuildAtWork
  <2> QED BY <1>1, <1>3, <1>4, <2>1, BuildMoves
<1>6. FileOf(i) \in RV!Files /\ MayHold(FileOf(i), x, v3.run) /\ v3'.run = v3.run
  BY <1>1, <1>2, <1>3, TheLastSteps, NothingMayBeHeld
<1>7. RV!DiskInv'
  BY <1>1, <1>6, DiskWrites
<1>8. RV!ServerInv'
  BY ReplacedIsTyped DEF RV!WriteHalf
<1> QED BY <1>1, <1>5, <1>6, <1>7, <1>8

\* The files that the signature covers, as a build leaves them.
LEMMA WroteSigned ==
  ASSUME NEW d, NEW g \in RV!Signed, NEW run \in Nat, NEW app \in Deployables, RV!Wrote(d, g, run, app)
  PROVE  d[g] \in RV!Plain /\ d[g] # None /\ d[g].run = run /\ d[g].of = None
<1>1. g \notin {"evidence", "assets", "signature", "deploymentSignature", "governance"}
  BY TheFiles
<1>2. PICK id \in Deployables \cup {None} : d[g] = [run |-> run, id |-> id, renewed |-> FALSE, of |-> None]
  BY <1>1 DEF RV!Wrote, RV!Signatures
<1>3. d[g] \in RV!Plain /\ d[g] \in RV!Contents
  BY <1>2 DEF RV!Plain, RV!Contents
<1>4. d[g].run = run /\ d[g].of = None
  BY <1>2
<1> QED BY <1>3, <1>4, NoneAssumption

LEMMA RestKeeps ==
  ASSUME RV!Inv, RV!WriteRest
  PROVE  /\ RV!DiskInv' /\ RV!BuildInv' /\ RV!ServerInv' /\ v3'.run = v3.run /\ v3.at # 0 /\ v5' = v5
         /\ v4' \in BOOLEAN
<1> DEFINE i == v3.at
           f == FileOf(i)
           o == CASE f = "signature" -> [g \in RV!Signed |-> v1[g]]
                  [] f = "deploymentSignature" -> v1["signature"].of
                  [] f = "governance" -> v3.app
                  [] f \notin {"signature", "deploymentSignature", "governance"} -> None
           x == [run |-> v3.run, id |-> IF i > 4 THEN v3.app ELSE None, renewed |-> FALSE, of |-> o]
<1>1. i # 0 /\ v3.half
  BY ThePlan DEF RV!WriteRest, RV!Inv, RV!BuildInv
<1>2. /\ i \in 1 .. 15 /\ i # 3 /\ v3.run \in Nat /\ v3.run > 0 /\ v3.app \in Deployables
      /\ LeftBefore(v1, i, v3.run, v3.app) /\ DOMAIN v1 = RV!Files
      /\ v4 \/ WroteBefore(v1, i, v3.run, v3.app)
      /\ v3 = [at |-> v3.at, run |-> v3.run, app |-> v3.app, half |-> v3.half, listed |-> v3.listed]
      /\ v3.listed \in SUBSET DOMAIN v2 /\ \A p \in v3.listed : v2[p].run \in {v3.run, 0}
  BY <1>1, BuildAtWork
<1>3. /\ v3' = [v3 EXCEPT !.half = FALSE, !.at = @ + 1] /\ v2' = v2 /\ v5' = v5
      /\ v4' = (v4 /\ f # "prerender") /\ v4 \in BOOLEAN
  BY DEF RV!WriteRest, RV!File, RV!Order, RV!Inv, FileOf
<1>4. v1' = [v1 EXCEPT ![f] = x]
  BY DEF RV!WriteRest, RV!File, RV!Order, RV!Content, RV!GovernanceCounts, FileOf
<1>5. o = CASE FileOf(i) = "signature" -> [g \in RV!Signed |-> v1[g]]
            [] FileOf(i) = "deploymentSignature" -> v1["signature"].of
            [] FileOf(i) = "governance" -> v3.app
            [] FileOf(i) \notin {"signature", "deploymentSignature", "governance"} -> None
  OBVIOUS
<1>6. (f = "signature" => o = [g \in RV!Signed |-> v1[g]])
      /\ (f = "deploymentSignature" => o = v1["signature"].of)
      /\ (f \in RV!Signed => o = None)
  BY TheFiles
<1>7. f \in RV!Files
  BY <1>2, TheLastSteps
<1> HIDE DEF o
<1>8. v4' \/ WroteBefore(v1', i + 1, v3.run, v3.app)
  <2>1. ASSUME ~v4' PROVE WroteBefore(v1, i, v3.run, v3.app)
    <3>1. CASE ~v4
      BY <1>2, <3>1
    <3>2. CASE f = "prerender"
      <4>1. i = 8
        BY <1>2, <3>2, TheLastSteps DEF LastStep
      <4> QED BY <1>2, <4>1, LeftIsWrote
    <3> QED BY <1>3, <2>1, <3>1, <3>2
  <2>2. ASSUME ~v4'
        PROVE  WroteBefore([v1 EXCEPT ![FileOf(i)] = [run |-> v3.run, id |-> IF i > 4 THEN v3.app ELSE None,
                                           renewed |-> FALSE, of |-> o]], i + 1, v3.run, v3.app)
    BY <1>2, <1>5, <2>1, <2>2, NoneAssumption, WroteOn
  <2> QED BY <1>4, <2>2
<1>9. v3' = [at |-> i + 1, run |-> v3.run, app |-> v3.app, half |-> FALSE, listed |-> v3.listed]
  BY <1>2, <1>3
<1>11. \A g \in RV!Signed : v1[g] \in RV!Plain \cup {None}
  BY DEF RV!Inv, RV!DiskInv
<1>12. \A g \in RV!Signed : i >= 12 =>
         RV!IsOf(v1[g], v3.run) /\ (g # "prerender" => v1[g].run = v3.run)
  <2> SUFFICES ASSUME NEW g \in RV!Signed, i >= 12
               PROVE  RV!IsOf(v1[g], v3.run) /\ (g # "prerender" => v1[g].run = v3.run)
    OBVIOUS
  <2>1. g \in RV!Files /\ LastStep[g] < i
    BY <1>2, TheLastSteps
  <2>2. RV!Left(v1, g, v3.run, v3.app)
    BY <1>2, <2>1 DEF LeftBefore
  <2>3. CASE g = "prerender"
    BY <2>2, <2>3 DEF RV!Left
  <2>4. CASE g # "prerender"
    <3>1. g \notin RV!Signatures
      BY TheFiles DEF RV!Signatures
    <3>2. RV!Wrote(v1, g, v3.run, v3.app)
      BY <2>2, <2>4, <3>1 DEF RV!Left
    <3>3. v1[g] # None /\ v1[g].run = v3.run
      BY <1>2, <3>2, WroteSigned
    <3> QED BY <3>3 DEF RV!IsOf
  <2> QED BY <2>3, <2>4
<1>13. f = "signature" => i = 12
  BY <1>2, TheLastSteps, TheFiles
<1>14. f = "deploymentSignature" => i = 13
  BY <1>2, TheLastSteps, TheFiles
<1>15. f \in {"signature", "deploymentSignature"} => o \in [RV!Signed -> RV!Plain \cup {None}]
  <2>1. CASE f = "deploymentSignature"
    <3>1. "signature" \in RV!Files /\ LastStep["signature"] < i
      BY <1>14, <2>1, TheFiles, TheLastSteps
    <3>2. RV!Left(v1, "signature", v3.run, v3.app)
      BY <1>2, <3>1 DEF LeftBefore
    <3>3. v1["signature"] # None /\ v1["signature"].run = v3.run /\ RV!Torn.run = 0
      BY <3>2 DEF RV!Left, RV!Signatures, RV!Torn
    <3>4. v1["signature"].of \in [RV!Signed -> RV!Plain \cup {None}]
      BY <1>2, <3>3 DEF RV!Inv, RV!DiskInv, RV!Signatures
    <3> QED BY <1>6, <2>1, <3>4
  <2>2. CASE f = "signature"
    BY <1>6, <1>11, <2>2
  <2> QED BY <2>1, <2>2
<1>10. RV!BuildInv'
  <2>1. i + 1 \in 1 .. 16 /\ FALSE \in BOOLEAN /\ v3.listed \in SUBSET DOMAIN v2'
        /\ \A p \in v3.listed : v2'[p].run \in {v3.run, 0}
    BY <1>2, <1>3
  <2>2. /\ o \in {None} \cup Deployables \cup [RV!Signed -> RV!Plain \cup {None}]
        /\ FileOf(i) = "governance" => o = v3.app
        /\ FileOf(i) \notin {"signature", "deploymentSignature", "governance"} => o = None
    BY <1>2, <1>5, <1>15
  <2>3. LeftBefore([v1 EXCEPT ![FileOf(i)] = [run |-> v3.run, id |-> IF i > 4 THEN v3.app ELSE None,
                                           renewed |-> FALSE, of |-> o]], i + 1, v3.run, v3.app)
    BY <1>2, <2>2, LeftOn
  <2>4. LeftBefore(v1', i + 1, v3.run, v3.app)
    BY <1>4, <2>3
  <2> QED BY <1>1, <1>3, <1>8, <1>9, <2>1, <2>4, BuildMoves
<1>16. MayHold(f, x, v3.run)
  <2>1. f \in RV!Signed => x \in RV!Plain
    BY <1>2, <1>6 DEF RV!Plain
  <2>2. f \in {"signature", "deploymentSignature"} => x.of \in [RV!Signed -> RV!Plain \cup {None}]
    BY <1>15
  <2>3. f = "signature" => \A h \in RV!Signed :
          RV!IsOf(x.of[h], v3.run) /\ (h # "prerender" => x.of[h].run = v3.run)
    <3>1. f = "signature" => x.of = [g \in RV!Signed |-> v1[g]]
      BY <1>6
    <3> HIDE DEF x
    <3> QED BY <1>12, <1>13, <3>1
  <2> HIDE DEF x
  <2> QED BY <1>2, <2>1, <2>2, <2>3 DEF MayHold
<1>17. RV!DiskInv'
  BY <1>4, <1>7, <1>9, <1>16, DiskWrites
<1>18. RV!ServerInv'
  BY ReplacedIsTyped DEF RV!WriteRest
<1> QED BY <1>1, <1>3, <1>9, <1>10, <1>17, <1>18

\* A directory that a build wrote to its end is whole for the first verifier.
LEMMA WholeVerifies ==
  ASSUME NEW run \in Nat, run > 0, NEW app \in Deployables, WroteBefore(v1, 16, run, app)
  PROVE  /\ RV!Verified /\ v1["evidence"] # None /\ v1["assets"] # None
         /\ \A f \in RV!Files \ {"evidence"} : RV!Shaped(f, v1, app)
         /\ v1["deployment"].id = app /\ v1["governance"].of = app
         /\ RV!SignaturesMatch(v1, v1)
<1>1. \A f \in RV!Files : RV!Wrote(v1, f, run, app)
  BY TheLastSteps DEF WroteBefore
<1>2. \A g \in RV!Signed : v1[g] \in RV!Plain /\ v1[g] # None /\ v1[g].run = run
  <2> SUFFICES ASSUME NEW g \in RV!Signed PROVE v1[g] \in RV!Plain /\ v1[g] # None /\ v1[g].run = run
    OBVIOUS
  <2> QED BY <1>1, TheFiles, WroteSigned
<1>3. [g \in RV!Signed |-> v1[g]] \in [RV!Signed -> RV!Plain \cup {None}]
  BY <1>2
<1>4. ASSUME NEW f \in RV!Files \ {"evidence"}
      PROVE  v1[f] # None /\ v1[f] # RV!Torn /\ v1[f] # RV!Foreign /\ v1[f].id \in {None, app}
  <2> DEFINE o == IF f \in {"signature", "deploymentSignature"} THEN [g \in RV!Signed |-> v1[g]]
                  ELSE IF f = "governance" THEN app ELSE None
             id == IF f \in {"assets", "route"} THEN None ELSE app
  <2>1. o \in {None} \cup Deployables \cup [RV!Signed -> RV!Plain \cup {None}] \cup RV!Reports
    BY <1>3
  <2>2. v1[f] = [run |-> run, id |-> id, renewed |-> FALSE, of |-> o]
    BY <1>1 DEF RV!Wrote, RV!Signatures
  <2>3. id \in {None, app} /\ id \in Deployables \cup {None}
    OBVIOUS
  <2> HIDE DEF o, id
  <2>4. v1[f] \in RV!Contents
    BY <2>1, <2>2, <2>3 DEF RV!Contents
  <2>5. v1[f].run = run /\ v1[f].id = id
    BY <2>2
  <2>6. RV!Torn.run = 0 /\ RV!Foreign.run = 0
    BY DEF RV!Torn, RV!Foreign
  <2> QED BY <2>3, <2>4, <2>5, <2>6, NoneAssumption
<1>5. v1["evidence"] # None
  BY <1>1, TheFiles DEF RV!Wrote
<1>6. v1["signature"].of = [g \in RV!Signed |-> v1[g]] /\ v1["deploymentSignature"].of = v1["signature"].of
  <2>1. /\ v1["signature"] = [run |-> run, id |-> app, renewed |-> FALSE, of |-> [g \in RV!Signed |-> v1[g]]]
        /\ v1["deploymentSignature"] =
             [run |-> run, id |-> app, renewed |-> FALSE, of |-> [g \in RV!Signed |-> v1[g]]]
    BY <1>1, TheFiles DEF RV!Wrote, RV!Signatures
  <2> QED BY <2>1
<1>7. v1["deployment"].id = app /\ v1["governance"].of = app
  <2>1. /\ v1["deployment"] = [run |-> run, id |-> app, renewed |-> FALSE, of |-> None]
        /\ v1["governance"] = [run |-> run, id |-> app, renewed |-> FALSE, of |-> app]
    BY <1>1, TheFiles DEF RV!Wrote, RV!Signatures
  <2> QED BY <2>1
<1>8. \A f \in RV!Signed : v1["signature"].of[f] = v1[f] /\ v1["signature"].of[f] # None
  BY <1>2, <1>6
<1>9. RV!Verified
  BY <1>4, <1>5, <1>6, <1>8, TheFiles DEF RV!Verified, RV!Parsed, RV!Matches
<1> QED BY <1>4, <1>5, <1>6, <1>7, <1>8, <1>9, TheFiles DEF RV!Shaped, RV!SignaturesMatch

\* The pages, and the end of the build.
LEMMA PagesKeep ==
  ASSUME RV!Inv, \/ RV!Prerendered \/ RV!Deploy \/ \E p \in DOMAIN v2 : RV!Prerender(p)
  PROVE  RV!DiskInv' /\ RV!BuildInv' /\ v3'.run = v3.run /\ v3.at # 0 /\ v4' = v4 /\ v6' = v6
         /\ (v5' # None => v5'.whole \/ v5'.touched)
<1>1. v3.at # 0
  BY ThePlan DEF RV!Prerendered, RV!Deploy, RV!Prerender, RV!Over, RV!Order
<1>2. /\ v3.at \in 1 .. 16 /\ v3.run \in Nat /\ v3.run > 0 /\ v3.app \in Deployables /\ v3.half \in BOOLEAN
      /\ LeftBefore(v1, v3.at, v3.run, v3.app) /\ DOMAIN v1 = RV!Files
      /\ v4 \/ WroteBefore(v1, v3.at, v3.run, v3.app)
      /\ v3 = [at |-> v3.at, run |-> v3.run, app |-> v3.app, half |-> v3.half, listed |-> v3.listed]
      /\ v3.listed \in SUBSET DOMAIN v2 /\ \A p \in v3.listed : v2[p].run \in {v3.run, 0}
      /\ v3.half => v3.at \in 1 .. 15 /\ v3.at # 3
  BY <1>1, BuildAtWork
<1>3. (v5 # None => v5.whole \/ v5.touched) /\ RV!DiskInv /\ RV!BuildInv /\ v4 \in BOOLEAN
  BY DEF RV!Inv
<1>4. ASSUME NEW p \in DOMAIN v2, RV!Prerender(p)
      PROVE  RV!DiskInv' /\ RV!BuildInv' /\ v3'.run = v3.run /\ v4' = v4 /\ v5' = v5 /\ v6' = v6
  <2>1. /\ v1' = v1 /\ v4' = v4 /\ v5' = v5 /\ v6' = v6 /\ v2' = [v2 EXCEPT ![p] = [run |-> v3.run]]
        /\ v3' = [v3 EXCEPT !.listed = @ \cup {p}]
    BY <1>4 DEF RV!Prerender, RV!Rendered
  <2>2. /\ v3' = [at |-> v3.at, run |-> v3.run, app |-> v3.app, half |-> v3.half,
                  listed |-> v3.listed \cup {p}]
    BY <1>2, <2>1
  <2>3. /\ v3.listed \cup {p} \in SUBSET DOMAIN v2'
        /\ \A q \in v3.listed \cup {p} : v2'[q].run \in {v3.run, 0}
    BY <1>2, <2>1
  <2>4. RV!BuildInv'
    BY <1>1, <1>2, <2>1, <2>2, <2>3, BuildMoves
  <2>5. RV!DiskInv' /\ v3'.run = v3.run
    <3>1. v3'.run = v3.run /\ v3'.run \in Nat /\ v3.run <= v3'.run
      BY <1>2, <2>2
    <3> QED BY <2>1, <3>1, DiskStays
  <2> QED BY <2>1, <2>4, <2>5
<1>5. ASSUME RV!Prerendered
      PROVE  RV!DiskInv' /\ RV!BuildInv' /\ v3'.run = v3.run /\ v4' = v4 /\ v5' = v5 /\ v6' = v6
  <2>1. /\ v1' = v1 /\ v4' = v4 /\ v5' = v5 /\ v6' = v6 /\ v2' = v2 /\ v3' = [v3 EXCEPT !.at = @ + 1]
    BY <1>5 DEF RV!Prerendered
  <2>2. v3.at = 3
    BY <1>5, ThePlan, TheLastSteps DEF RV!Prerendered, RV!File, RV!Order, FileOf
  <2>3. v3' = [at |-> 4, run |-> v3.run, app |-> v3.app, half |-> FALSE, listed |-> v3.listed]
    <3>1. v3.half = FALSE
      BY <1>2, <2>2
    <3>2. v3' = [at |-> v3.at + 1, run |-> v3.run, app |-> v3.app, half |-> v3.half, listed |-> v3.listed]
      BY <1>2, <2>1
    <3>3. v3.at + 1 = 4
      BY <2>2
    <3> QED BY <3>1, <3>2, <3>3
  <2>4. LeftBefore(v1', 4, v3.run, v3.app) /\ (v4' \/ WroteBefore(v1', 4, v3.run, v3.app))
    <3>1. \A f \in RV!Files : LastStep[f] < 4 => LastStep[f] < 3
      BY TheLastSteps, TheFiles
    <3> QED BY <1>2, <2>1, <2>2, <3>1 DEF WroteBefore, LeftBefore
  <2>5. RV!BuildInv'
    BY <1>1, <1>2, <2>1, <2>3, <2>4, BuildMoves
  <2>6. v3'.run = v3.run /\ v3'.run \in Nat /\ v3.run <= v3'.run
    BY <1>2, <2>3
  <2> QED BY <2>1, <2>5, <2>6, DiskStays
<1>6. ASSUME RV!Deploy
      PROVE  RV!DiskInv' /\ RV!BuildInv' /\ v3'.run = v3.run /\ v4' = v4 /\ v6' = v6
             /\ (v5' # None => v5'.whole \/ v5'.touched)
  <2>1. v1' = v1 /\ v2' = v2 /\ v4' = v4 /\ v6' = v6
        /\ (v5' = v5 \/ v5' = [run |-> v3.run, whole |-> RV!Verified, touched |-> v4])
        /\ (v3' = v3 \/ v3' = [RV!Idle EXCEPT !.run = v3.run])
    BY <1>6 DEF RV!Deploy
  <2>2. v3.at = 16
    BY <1>6, ThePlan DEF RV!Deploy, RV!Over, RV!Order
  <2>3. v4 \/ RV!Verified
    BY <1>2, <2>2, WholeVerifies
  <2>4. v5' # None => v5'.whole \/ v5'.touched
    BY <1>3, <2>1, <2>3
  <2>5. RV!BuildInv' /\ v3'.run = v3.run
    <3>1. CASE v3' = v3
      BY <1>2, <2>1, <2>2, <3>1, BuildMoves
    <3>2. CASE v3' = [RV!Idle EXCEPT !.run = v3.run]
      BY <3>2, BuildIsIdle
    <3> QED BY <2>1, <3>1, <3>2
  <2>6. v3'.run \in Nat /\ v3.run <= v3'.run
    BY <1>2, <2>5
  <2> QED BY <2>1, <2>4, <2>5, <2>6, DiskStays
<1> QED BY <1>1, <1>3, <1>4, <1>5, <1>6

\* What a server writes into the prerender manifest, at any time.
LEMMA ServerWrites ==
  ASSUME RV!Inv, NEW x \in RV!Plain, x.renewed \/ x = RV!Torn, v1' = [v1 EXCEPT !["prerender"] = x],
         v2' = v2, v3' = v3, v4' = TRUE
  PROVE  RV!DiskInv' /\ RV!BuildInv' /\ v1'["evidence"] = v1["evidence"]
<1>1. RV!DiskInv /\ RV!BuildInv /\ DOMAIN v1 = RV!Files /\ v3.run \in Nat
  BY DEF RV!Inv, RV!DiskInv, RV!BuildInv
<1>2. "prerender" \in RV!Files /\ MayHold("prerender", x, v3.run)
  BY TheFiles DEF MayHold
<1>3. RV!DiskInv'
  BY <1>2, DiskWrites
<1>4. v1'["prerender"] = x /\ \A f \in RV!Files : f # "prerender" => v1'[f] = v1[f]
  BY <1>1, <1>2
<1>5. x # None
  <2>1. x \in RV!Contents
    BY DEF RV!Plain, RV!Contents
  <2> QED BY <2>1, NoneAssumption
<1>6. \A run, app : \A f \in RV!Files : RV!Left(v1, f, run, app) => RV!Left(v1', f, run, app)
  <2> SUFFICES ASSUME NEW run, NEW app, NEW f \in RV!Files, RV!Left(v1, f, run, app)
               PROVE  RV!Left(v1', f, run, app)
    OBVIOUS
  <2>1. CASE f = "prerender"
    BY <1>4, <1>5, <2>1 DEF RV!Left, RV!IsOf
  <2>2. CASE f # "prerender"
    <3>1. v1'[f] = v1[f]
      BY <1>4, <2>2
    <3>2. f \notin RV!Signatures => (RV!Wrote(v1', f, run, app) <=> RV!Wrote(v1, f, run, app))
      BY <3>1 DEF RV!Wrote
    <3> QED BY <2>2, <3>1, <3>2 DEF RV!Left
  <2> QED BY <2>1, <2>2
<1>7. RV!BuildInv'
  <2>1. \A f \in RV!Files : RV!Behind(f)' => RV!Behind(f)
    BY DEF RV!Behind
  <2>2. v3.at # 0 => \A f \in RV!Files : RV!Behind(f)' =>
          RV!Left(v1', f, v3.run, v3.app) /\ (v4' \/ RV!Wrote(v1', f, v3.run, v3.app))
    BY <1>1, <1>6, <2>1 DEF RV!BuildInv
  <2> QED BY <1>1, <2>2 DEF RV!BuildInv
<1>8. v1'["evidence"] = v1["evidence"]
  BY <1>4, TheFiles
<1> QED BY <1>3, <1>7, <1>8

\* A step of the server.
LEMMA ServerKeeps ==
  ASSUME RV!Inv, RV!ServerStep
  PROVE  /\ RV!DiskInv' /\ RV!BuildInv' /\ RV!ServerInv' /\ v3' = v3 /\ v5' = v5
         /\ (v4' = v4 /\ v1' = v1) \/ v4' = TRUE
         /\ v1'["evidence"] = v1["evidence"]
<1>1. /\ v6 \in [memory : RV!Plain \cup {None}, writing : {m \in RV!Plain : m.renewed} \cup {None}, writes : Nat]
      /\ RV!DiskInv /\ RV!BuildInv
  BY DEF RV!Inv, RV!ServerInv
<1>2. RV!loadPrerenderManifest \in RV!Plain
  <2>1. RV!Foreign \in RV!Plain
    BY DEF RV!Foreign, RV!Torn, RV!Plain
  <2>2. v1["prerender"] \in RV!Plain \cup {None}
    BY <1>1, TheFiles DEF RV!DiskInv
  <2> QED BY <2>1, <2>2 DEF RV!loadPrerenderManifest
<1> DEFINE Same == UNCHANGED <<v1, v2, v3, v4, v5>>
<1>3. Same => RV!DiskInv' /\ RV!BuildInv'
  BY <1>1 DEF RV!DiskInv, RV!BuildInv, RV!Behind
<1>4. CASE RV!ServerLoads
  <2>1. Same /\ v6' = [v6 EXCEPT !.memory = RV!loadPrerenderManifest]
    BY <1>4 DEF RV!ServerLoads
  <2>2. RV!ServerInv'
    BY <1>1, <1>2, <2>1 DEF RV!ServerInv
  <2> QED BY <1>3, <2>1, <2>2
<1>5. CASE RV!Revalidated
  <2>1. /\ v6.memory # None /\ v1' = [v1 EXCEPT !["prerender"] = RV!Torn]
        /\ v4' = TRUE /\ v2' = v2 /\ v3' = v3 /\ v5' = v5
    BY <1>5 DEF RV!Revalidated
  <2>2. PICK m \in {v6.memory, RV!loadPrerenderManifest} :
          v6' = [v6 EXCEPT !.writing = [m EXCEPT !.renewed = TRUE], !.writes = @ + 1]
    BY <1>5 DEF RV!Revalidated
  <2>3. m \in RV!Plain
    BY <1>1, <1>2, <2>1
  <2>4. [m EXCEPT !.renewed = TRUE] \in {n \in RV!Plain : n.renewed}
    BY <2>3 DEF RV!Plain
  <2>5. RV!ServerInv'
    <3> DEFINE x == [m EXCEPT !.renewed = TRUE]
    <3>1. x \in {n \in RV!Plain : n.renewed} \cup {None} /\ v6.writes + 1 \in Nat
      BY <1>1, <2>4
    <3> HIDE DEF x
    <3>2. v6' = [memory |-> v6.memory, writing |-> x, writes |-> v6.writes + 1]
      BY <1>1, <2>2 DEF x
    <3> QED BY <1>1, <3>1, <3>2 DEF RV!ServerInv
  <2>6. RV!Torn \in RV!Plain
    BY DEF RV!Torn, RV!Plain
  <2> QED BY <2>1, <2>5, <2>6, ServerWrites
<1>6. CASE RV!RevalidatedRest
  <2>1. /\ v6.writing # None /\ v1' = [v1 EXCEPT !["prerender"] = v6.writing]
        /\ v6' = [v6 EXCEPT !.writing = None] /\ v4' = TRUE /\ v2' = v2 /\ v3' = v3 /\ v5' = v5
    BY <1>6 DEF RV!RevalidatedRest
  <2>2. v6.writing \in RV!Plain /\ v6.writing.renewed
    BY <1>1, <2>1
  <2>3. RV!ServerInv'
    BY <1>1, <2>1 DEF RV!ServerInv
  <2> QED BY <2>1, <2>2, <2>3, ServerWrites
<1>7. CASE RV!ServerStops
  <2>1. Same /\ v6' = [memory |-> None, writing |-> None, writes |-> v6.writes]
    BY <1>7 DEF RV!ServerStops, RV!NoServer
  <2>2. RV!ServerInv'
    BY <1>1, <2>1 DEF RV!ServerInv
  <2> QED BY <1>3, <2>1, <2>2
<1>8. ASSUME NEW p \in DOMAIN v2, RV!Regenerated(p)
      PROVE  RV!DiskInv' /\ RV!BuildInv' /\ RV!ServerInv' /\ UNCHANGED <<v1, v3, v4, v5>>
  <2>1. UNCHANGED <<v1, v3, v4, v5, v6>> /\ v2' = [v2 EXCEPT ![p] = [run |-> 0]]
    BY <1>8 DEF RV!Regenerated
  <2>2. RV!DiskInv' /\ RV!ServerInv'
    BY <1>1, <2>1 DEF RV!DiskInv, RV!ServerInv
  <2>3. DOMAIN v2' = DOMAIN v2 /\ v2'[p].run = 0 /\ \A q \in DOMAIN v2 : q # p => v2'[q] = v2[q]
    BY <2>1
  <2>4. v3.listed \subseteq DOMAIN v2 /\ \A q \in v3.listed : v2[q].run \in {v3.run, 0}
    BY <1>1 DEF RV!BuildInv
  <2>5. \A q \in v3.listed : v2'[q].run \in {v3.run, 0}
    BY <2>3, <2>4
  <2>6. RV!BuildInv'
    BY <1>1, <2>1, <2>3, <2>5 DEF RV!BuildInv, RV!Behind
  <2> QED BY <2>1, <2>2, <2>6
<1> QED BY <1>4, <1>5, <1>6, <1>7, <1>8 DEF RV!ServerStep

\* The evidence is written while a build may be at work.
LEMMA EvidenceKeeps ==
  ASSUME RV!Inv, NEW x, x # None, v1' = [v1 EXCEPT !["evidence"] = x], UNCHANGED <<v2, v3, v4>>
  PROVE  RV!DiskInv' /\ RV!BuildInv' /\ v1'["evidence"] = x
         /\ \A run, app : \A f \in RV!Files : RV!Wrote(v1, f, run, app) => RV!Wrote(v1', f, run, app)
<1>1. RV!DiskInv /\ RV!BuildInv /\ DOMAIN v1 = RV!Files /\ v3.run \in Nat
  BY DEF RV!Inv, RV!DiskInv, RV!BuildInv
<1>2. "evidence" \in RV!Files /\ MayHold("evidence", x, v3.run)
  BY TheFiles DEF MayHold
<1>3. RV!DiskInv'
  BY <1>2, DiskWrites
<1>4. \A run, app : \A f \in RV!Files : RV!Wrote(v1, f, run, app) => RV!Wrote(v1', f, run, app)
  BY <1>1, WroteButEvidence
<1>5. v1'["evidence"] = x
  BY <1>1, <1>2
<1>6. RV!BuildInv'
  <2>1. \A run, app : \A f \in RV!Files : RV!Left(v1, f, run, app) => RV!Left(v1', f, run, app)
    <3> SUFFICES ASSUME NEW run, NEW app, NEW f \in RV!Files, RV!Left(v1, f, run, app)
                 PROVE  RV!Left(v1', f, run, app)
      OBVIOUS
    <3>1. CASE f = "evidence"
      BY <1>4, <3>1 DEF RV!Left, RV!Signatures
    <3>2. CASE f # "evidence"
      <4>1. v1'[f] = v1[f]
        BY <1>1, <3>2
      <4> QED BY <1>4, <4>1 DEF RV!Left
    <3> QED BY <3>1, <3>2
  <2>2. v3.at # 0 => \A f \in RV!Files : RV!Behind(f) =>
          RV!Left(v1', f, v3.run, v3.app) /\ (v4 \/ RV!Wrote(v1', f, v3.run, v3.app))
    BY <1>1, <1>4, <2>1 DEF RV!BuildInv
  <2> QED BY <1>1, <2>2 DEF RV!BuildInv, RV!Behind
<1> QED BY <1>3, <1>4, <1>5, <1>6

LEMMA VerifyInit == Init => VerifyInv
<1> SUFFICES ASSUME Init, which = "verify" PROVE RV!Inv
  BY DEF VerifyInv
<1>1. RV!ReleaseInit
  BY DEF Init
<1>2. /\ v1 = [f \in RV!Files |-> None] /\ v4 = FALSE /\ v5 = None
      /\ v6 = [memory |-> None, writing |-> None, writes |-> 0]
      /\ v3 = [at |-> 0, run |-> 0, app |-> None, half |-> FALSE, listed |-> {}]
      /\ v7.at = "off" /\ v7.run = 0 /\ DOMAIN v7 = {"at", "run", "id", "read"}
      /\ v8 = [r \in {"audit", "scoreboard"} |-> 0]
  BY <1>1 DEF RV!ReleaseInit, RV!Init, RV!NotVerifying, RV!Idle, RV!NoServer
<1>3. RV!DiskInv
  BY <1>2, TheFiles DEF RV!DiskInv, RV!Signatures
<1>4. RV!BuildInv
  <2>1. v3 \in BuildRecords(DOMAIN v2)
    <3>1. /\ 0 \in 0 .. 16 /\ 0 \in Nat /\ None \in Deployables \cup {None} /\ FALSE \in BOOLEAN
          /\ {} \in SUBSET DOMAIN v2
      OBVIOUS
    <3>2. [at |-> 0, run |-> 0, app |-> None, half |-> FALSE, listed |-> {}] \in BuildRecords(DOMAIN v2)
      BY <3>1, BuildIsTyped, Zenon
    <3> QED BY <1>2, <3>2
  <2> QED BY <1>2, <2>1 DEF RV!BuildInv, BuildRecords
<1>5. RV!VerificationInv /\ v8 \in RV!Reports /\ RV!ServerInv
  BY <1>2 DEF RV!VerificationInv, RV!Reports, RV!ServerInv
<1> QED BY <1>2, <1>3, <1>4, <1>5 DEF RV!Inv

LEMMA VerifyNext == VerifyInv /\ [Next]_all => VerifyInv'
<1> SUFFICES ASSUME VerifyInv, [Next]_all, which' = "verify" PROVE RV!Inv'
  BY DEF VerifyInv
<1>1. RV!Inv /\ [RV!ReleaseNext]_verify
  BY VerifySteps DEF VerifyInv
<1>2. /\ v4 \in BOOLEAN /\ v8 \in RV!Reports /\ (v5 # None => v5.whole \/ v5.touched) /\ v3.run \in Nat
      /\ RV!DiskInv /\ RV!ServerInv /\ RV!BuildInv /\ RV!VerificationInv /\ DOMAIN v7 = {"at", "run", "id", "read"}
  BY <1>1 DEF RV!Inv, RV!BuildInv, RV!VerificationInv
<1>3. CASE UNCHANGED verify
  <2>1. UNCHANGED <<v1, v2, v3, v4, v5, v6, v7, v8>>
    BY <1>3 DEF verify
  <2>2. RV!DiskInv' /\ RV!ServerInv' /\ RV!BuildInv' /\ RV!VerificationInv'
    BY <1>2, <2>1 DEF RV!DiskInv, RV!ServerInv, RV!BuildInv, RV!VerificationInv, RV!Behind
  <2> QED BY <1>2, <2>1, <2>2 DEF RV!Inv
<1>4. ASSUME NEW a \in Deployables, RV!verifyApplication(a) \/ RV!OtherBuild(a) PROVE RV!Inv'
  <2>1. RV!Begin(a) /\ v8' = v8
    BY <1>4 DEF RV!verifyApplication, RV!OtherBuild
  <2>2. RV!DiskInv' /\ RV!BuildInv' /\ v3'.run = v3.run + 1 /\ v4' = v4 /\ v5' = v5 /\ v6' = v6
    BY <1>1, <2>1, BeginKeeps DEF RV!Begin
  <2>3. RV!VerificationInv'
    <3>1. CASE RV!verifyApplication(a)
      <4>1. v7'.at = "build" /\ v7'.run = v3.run + 1 /\ DOMAIN v7' = {"at", "run", "id", "read"}
        BY <3>1 DEF RV!verifyApplication, RV!NotVerifying
      <4> QED BY <1>2, <2>2, <4>1 DEF RV!VerificationInv
    <3>2. CASE RV!OtherBuild(a)
      <4>1. v7' = v7 /\ v7.at # "build"
        BY <3>2 DEF RV!OtherBuild
      <4> QED BY <1>2, <2>1, <2>2, <4>1 DEF RV!VerificationInv
    <3> QED BY <1>4, <3>1, <3>2
  <2> QED BY <1>2, <2>1, <2>2, <2>3 DEF RV!Inv, RV!ServerInv
<1>5. CASE RV!BuildStep
  <2>1. v7' = v7 /\ v8' = v8
        /\ (RV!WriteHalf \/ RV!WriteRest \/ RV!Prerendered \/ RV!Deploy \/ \E p \in DOMAIN v2 : RV!Prerender(p))
    BY <1>5 DEF RV!BuildStep
  <2>2. /\ RV!DiskInv' /\ RV!BuildInv' /\ RV!ServerInv' /\ v3'.run = v3.run /\ v3.at # 0 /\ v4' \in BOOLEAN
        /\ v5' # None => v5'.whole \/ v5'.touched
    <3>1. CASE RV!WriteHalf \/ RV!WriteRest
      BY <1>1, <1>2, <3>1, HalfKeeps, RestKeeps
    <3>2. CASE RV!Prerendered \/ RV!Deploy \/ \E p \in DOMAIN v2 : RV!Prerender(p)
      <4>1. /\ RV!DiskInv' /\ RV!BuildInv' /\ v3'.run = v3.run /\ v3.at # 0 /\ v4' = v4 /\ v6' = v6
            /\ v5' # None => v5'.whole \/ v5'.touched
        BY <1>1, <3>2, PagesKeep
      <4> QED BY <1>2, <4>1 DEF RV!ServerInv
    <3> QED BY <2>1, <3>1, <3>2
  <2>3. RV!VerificationInv'
    BY <1>1, <2>1, <2>2, VerificationWaits
  <2> QED BY <1>2, <2>1, <2>2, <2>3 DEF RV!Inv
<1>6. CASE RV!BuildStops
  <2>1. /\ v3' = [RV!Idle EXCEPT !.run = v3.run] /\ v3.at # 0 /\ UNCHANGED <<v1, v2, v4, v5, v6, v8>>
        /\ RV!Fail \/ v7' = v7
    BY <1>6 DEF RV!BuildStops, RV!Stop
  <2>2. RV!BuildInv' /\ v3'.run = v3.run
    BY <1>1, <2>1, BuildIsIdle
  <2>3. v3'.run \in Nat /\ v3.run <= v3'.run
    BY <1>2, <2>2
  <2>4. RV!DiskInv'
    BY <1>1, <2>1, <2>3, DiskStays
  <2>5. RV!VerificationInv'
    BY <1>1, <2>1, <2>2, <2>3, VerificationWaits, VerificationFails
  <2> QED BY <1>2, <2>1, <2>2, <2>4, <2>5 DEF RV!Inv, RV!ServerInv
<1>7. ASSUME UNCHANGED <<v1, v2, v3, v4, v5, v6>>, v8' \in RV!Reports, RV!VerificationInv' PROVE RV!Inv'
  <2>1. RV!DiskInv' /\ RV!BuildInv' /\ RV!ServerInv'
    BY <1>2, <1>7 DEF RV!DiskInv, RV!BuildInv, RV!Behind, RV!ServerInv
  <2> QED BY <1>2, <1>7, <2>1 DEF RV!Inv
<1>8. ASSUME UNCHANGED <<v1, v2, v3, v4, v5, v6, v8>>, RV!Fail PROVE RV!Inv'
  <2>1. v3'.run \in Nat /\ v3.run <= v3'.run
    BY <1>2, <1>8
  <2> QED BY <1>1, <1>2, <1>7, <1>8, <2>1, VerificationFails
<1>9. ASSUME v7.at \in Checking, v7'.at \in Checking, v7'.run = v7.run, v7'.id = v7.id,
             DOMAIN v7' = DOMAIN v7,
             UNCHANGED <<v3, v4>>,
             \A run, app : \A f \in RV!Files : RV!Wrote(v1, f, run, app) => RV!Wrote(v1', f, run, app),
             v7'.at \notin {"read", "checked", "tested"} => v8'["audit"] = v7.run,
             v7'.at \notin {"read", "checked", "tested", "audited"} => v8'["scoreboard"] = v7.run,
             v7'.at \in {"reported", "passed"} /\ v7.run = v3.run =>
               /\ v1'["evidence"] = [run |-> v7.run, id |-> v7.id, renewed |-> FALSE, of |-> v1'["evidence"].of]
               /\ v1'["evidence"].of \in RV!Reports
               /\ v1'["evidence"].of["audit"] = v7.run /\ v1'["evidence"].of["scoreboard"] = v7.run
      PROVE  RV!VerificationInv'
  <2>1. /\ v7'.run \in 0 .. v3'.run /\ v7'.at # "build" /\ v7'.id \in Deployables
        /\ DOMAIN v7' = {"at", "run", "id", "read"}
        /\ v7'.run > 0
        /\ v7.run = v3.run => v3.at = 0 /\ (~v4 => \A f \in RV!Files : RV!Wrote(v1, f, v7.run, v7.id))
    BY <1>2, <1>9 DEF RV!VerificationInv, Checking
  <2>2. v7'.run = v3'.run =>
          v3'.at = 0 /\ (~v4' => \A f \in RV!Files : RV!Wrote(v1', f, v7'.run, v7'.id))
    BY <1>9, <2>1
  <2>3. /\ v7'.at \notin {"read", "checked", "tested"} => v8'["audit"] = v7'.run
        /\ v7'.at \notin {"read", "checked", "tested", "audited"} => v8'["scoreboard"] = v7'.run
        /\ v7'.at \in {"reported", "passed"} /\ v7'.run = v3'.run =>
               /\ v1'["evidence"].of["audit"] = v7'.run /\ v1'["evidence"].of["scoreboard"] = v7'.run
               /\ v1'["evidence"] = [run |-> v7'.run, id |-> v7'.id, renewed |-> FALSE, of |-> v1'["evidence"].of]
               /\ v1'["evidence"].of \in RV!Reports
    BY <1>9
  <2> QED BY <2>1, <2>2, <2>3 DEF RV!VerificationInv
\* What the verification has written so far, of itself.
<1>10. /\ v7.at \in {"audited", "evidence", "reported", "passed"} => v8["audit"] = v7.run
       /\ v7.at \in {"evidence", "reported", "passed"} => v8["scoreboard"] = v7.run
       /\ v7.at \in {"reported", "passed"} /\ v7.run = v3.run =>
            /\ v1["evidence"] = [run |-> v7.run, id |-> v7.id, renewed |-> FALSE, of |-> v1["evidence"].of]
            /\ v1["evidence"].of \in RV!Reports
            /\ v1["evidence"].of["audit"] = v7.run /\ v1["evidence"].of["scoreboard"] = v7.run
  BY <1>2 DEF RV!VerificationInv
<1>11. v7.at \in Checking => v7.id \in Deployables
  BY <1>2 DEF RV!VerificationInv, Checking
<1>12. CASE RV!OverBudget
  BY <1>8, <1>12 DEF RV!OverBudget, RV!vars
<1>13. CASE RV!ReadManifests
  <2>1. /\ v7.at = "build" /\ v3.at = 16 /\ v3' = [RV!Idle EXCEPT !.run = v3.run]
        /\ UNCHANGED <<v1, v2, v4, v5, v6, v8>>
        /\ v7' = [v7 EXCEPT !.at = "read", !.id = v3.app, !.read = v1] \/ RV!Fail
    BY <1>13, ThePlan DEF RV!ReadManifests, RV!Over, RV!Order
  <2>2. RV!BuildInv' /\ v3'.run = v3.run /\ v3'.at = 0
    BY <1>1, <2>1, BuildIsIdle
  <2>3. v3'.run \in Nat /\ v3.run <= v3'.run
    BY <1>2, <2>2
  <2>4. RV!DiskInv'
    BY <1>1, <2>1, <2>3, DiskStays
  <2>5. RV!VerificationInv'
    <3>1. CASE RV!Fail
      BY <1>1, <2>3, <3>1, VerificationFails
    <3>2. CASE v7' = [v7 EXCEPT !.at = "read", !.id = v3.app, !.read = v1]
      <4>1. /\ v7.run = v3.run /\ v3.run > 0 /\ v3.app \in Deployables
            /\ v4 \/ WroteBefore(v1, 16, v3.run, v3.app)
        BY <1>1, <1>2, <2>1, BuildAtWork DEF RV!VerificationInv
      <4>2. v4 \/ \A f \in RV!Files : RV!Wrote(v1, f, v3.run, v3.app)
        BY <4>1, TheLastSteps DEF WroteBefore
      <4>3. v7'.at = "read" /\ v7'.id = v3.app /\ v7'.run = v3.run /\ DOMAIN v7' = DOMAIN v7
        BY <1>2, <3>2, <4>1
      <4>4. /\ v7'.run \in 0 .. v3'.run /\ v7'.run > 0
            /\ ~v4' => \A f \in RV!Files : RV!Wrote(v1', f, v7'.run, v7'.id)
        BY <1>2, <2>1, <2>2, <4>1, <4>2, <4>3
      <4> QED BY <1>2, <2>2, <4>1, <4>3, <4>4 DEF RV!VerificationInv
    <3> QED BY <2>1, <3>1, <3>2
  <2> QED BY <1>2, <2>1, <2>2, <2>4, <2>5 DEF RV!Inv, RV!ServerInv
<1>14. CASE RV!CheckManifests
  <2>1. /\ v7.at = "read" /\ UNCHANGED <<v1, v2, v3, v4, v5, v6, v8>>
        /\ v7' = [v7 EXCEPT !.at = "checked", !.read = RV!NotVerifying.read] \/ RV!Fail
    BY <1>14 DEF RV!CheckManifests, RV!vars
  <2>2. CASE v7' = [v7 EXCEPT !.at = "checked", !.read = RV!NotVerifying.read]
    <3>1. v7'.at = "checked" /\ v7'.run = v7.run /\ v7'.id = v7.id /\ DOMAIN v7' = DOMAIN v7
      BY <1>2, <2>1, <2>2
    <3>2. RV!VerificationInv'
      BY <1>9, <2>1, <3>1 DEF Checking
    <3> QED BY <1>2, <1>7, <2>1, <3>2
  <2> QED BY <1>8, <2>1, <2>2
<1>15. CASE RV!RunScripts
  <2>1. /\ v7.at = "checked" /\ UNCHANGED <<v1, v2, v3, v4, v5, v6, v8>>
        /\ v7' = [v7 EXCEPT !.at = "tested"] \/ RV!Fail
    BY <1>15 DEF RV!RunScripts, RV!vars
  <2>2. CASE v7' = [v7 EXCEPT !.at = "tested"]
    <3>1. v7'.at = "tested" /\ v7'.run = v7.run /\ v7'.id = v7.id /\ DOMAIN v7' = DOMAIN v7
      BY <1>2, <2>1, <2>2
    <3>2. RV!VerificationInv'
      BY <1>9, <2>1, <3>1 DEF Checking
    <3> QED BY <1>2, <1>7, <2>1, <3>2
  <2> QED BY <1>8, <2>1, <2>2
<1>16. CASE RV!Audit
  <2>1. /\ v7.at = "tested" /\ UNCHANGED <<v1, v2, v3, v4, v5, v6>>
        /\ v7' = [v7 EXCEPT !.at = "audited"] /\ v8' = [v8 EXCEPT !["audit"] = v7.run]
    BY <1>16 DEF RV!Audit, RV!vars
  <2>2. v7'.at = "audited" /\ v7'.run = v7.run /\ v7'.id = v7.id /\ DOMAIN v7' = DOMAIN v7
    BY <1>2, <2>1
  <2>3. v8' \in RV!Reports /\ v8'["audit"] = v7.run
    BY <1>2, <2>1 DEF RV!Reports, RV!VerificationInv
  <2>4. RV!VerificationInv'
    BY <1>9, <2>1, <2>2, <2>3 DEF Checking
  <2> QED BY <1>7, <2>1, <2>3, <2>4
<1>17. CASE RV!WriteReports
  <2>1. /\ v7.at = "audited" /\ UNCHANGED <<v2, v3, v4, v5, v6>> /\ v1' = [v1 EXCEPT !["evidence"] = RV!Torn]
        /\ v7' = [v7 EXCEPT !.at = "evidence"] /\ v8' = [v8 EXCEPT !["scoreboard"] = v7.run]
    BY <1>17 DEF RV!WriteReports
  <2>2. v7'.at = "evidence" /\ v7'.run = v7.run /\ v7'.id = v7.id /\ DOMAIN v7' = DOMAIN v7
    BY <1>2, <2>1
  <2>3. v8' \in RV!Reports /\ v8'["audit"] = v7.run /\ v8'["scoreboard"] = v7.run
    BY <1>2, <1>10, <2>1 DEF RV!Reports, RV!VerificationInv
  <2>4. RV!Torn # None
    <3>1. RV!Torn \in RV!Contents
      BY DEF RV!Torn, RV!Contents
    <3> QED BY <3>1, NoneAssumption
  <2>5. RV!DiskInv' /\ RV!BuildInv'
        /\ \A run, app : \A f \in RV!Files : RV!Wrote(v1, f, run, app) => RV!Wrote(v1', f, run, app)
    BY <1>1, <2>1, <2>4, EvidenceKeeps
  <2>6. RV!VerificationInv'
    BY <1>9, <2>1, <2>2, <2>3, <2>5 DEF Checking
  <2> QED BY <1>2, <2>1, <2>3, <2>5, <2>6 DEF RV!Inv, RV!ServerInv
<1>18. CASE RV!WriteEvidence
  <2> DEFINE x == [run |-> v7.run, id |-> v7.id, renewed |-> FALSE, of |-> v8]
  <2>1. /\ v7.at = "evidence" /\ UNCHANGED <<v2, v3, v4, v5, v6, v8>> /\ v1' = [v1 EXCEPT !["evidence"] = x]
        /\ v7' = [v7 EXCEPT !.at = "reported"]
    BY <1>18 DEF RV!WriteEvidence, RV!EvidenceArtifacts
  <2>2. v7'.at = "reported" /\ v7'.run = v7.run /\ v7'.id = v7.id /\ DOMAIN v7' = DOMAIN v7
    BY <1>2, <2>1
  <2>3. v8["audit"] = v7.run /\ v8["scoreboard"] = v7.run /\ v7.run \in Nat /\ v7.id \in Deployables
    BY <1>2, <1>10, <1>11, <2>1 DEF RV!VerificationInv, Checking
  <2>4. x # None /\ x.of = v8
    <3>1. x \in RV!Contents
      BY <1>2, <2>3 DEF RV!Contents
    <3> QED BY <3>1, NoneAssumption
  <2>5. x = [run |-> v7.run, id |-> v7.id, renewed |-> FALSE, of |-> x.of]
    OBVIOUS
  <2> HIDE DEF x
  <2>6. RV!DiskInv' /\ RV!BuildInv' /\ v1'["evidence"] = x
        /\ \A run, app : \A f \in RV!Files : RV!Wrote(v1, f, run, app) => RV!Wrote(v1', f, run, app)
    BY <1>1, <2>1, <2>4, EvidenceKeeps
  <2>7. RV!VerificationInv'
    <3>1. /\ v1'["evidence"] = [run |-> v7.run, id |-> v7.id, renewed |-> FALSE, of |-> v1'["evidence"].of]
          /\ v1'["evidence"].of \in RV!Reports
          /\ v1'["evidence"].of["audit"] = v7.run /\ v1'["evidence"].of["scoreboard"] = v7.run
      BY <1>2, <2>3, <2>4, <2>5, <2>6
    <3> QED BY <1>9, <2>1, <2>2, <2>3, <2>6, <3>1 DEF Checking
  <2> QED BY <1>2, <2>1, <2>6, <2>7 DEF RV!Inv, RV!ServerInv
<1>19. CASE RV!Gates
  <2>1. /\ v7.at = "reported" /\ UNCHANGED <<v1, v2, v3, v4, v5, v6, v8>>
        /\ v7' = [v7 EXCEPT !.at = "passed"] \/ RV!Fail
    BY <1>19 DEF RV!Gates, RV!vars
  <2>2. CASE v7' = [v7 EXCEPT !.at = "passed"]
    <3>1. v7'.at = "passed" /\ v7'.run = v7.run /\ v7'.id = v7.id /\ DOMAIN v7' = DOMAIN v7
      BY <1>2, <2>1, <2>2
    <3>2. RV!VerificationInv'
      BY <1>9, <1>10, <2>1, <3>1 DEF Checking
    <3> QED BY <1>2, <1>7, <2>1, <3>2
  <2> QED BY <1>8, <2>1, <2>2
<1>20. CASE RV!Crash
  BY <1>8, <1>20 DEF RV!Crash, RV!vars
<1>21. CASE RV!ServerStep
  <2>1. v7' = v7 /\ v8' = v8
    BY <1>21 DEF RV!ServerStep
  <2>2. /\ RV!DiskInv' /\ RV!BuildInv' /\ RV!ServerInv' /\ v3' = v3 /\ v5' = v5
        /\ (v4' = v4 /\ v1' = v1) \/ v4' = TRUE
        /\ v1'["evidence"] = v1["evidence"]
    BY <1>1, <1>21, ServerKeeps
  <2>3. RV!VerificationInv'
    BY <1>2, <2>1, <2>2 DEF RV!VerificationInv
  <2> QED BY <1>2, <2>1, <2>2, <2>3 DEF RV!Inv
<1> QED BY <1>1, <1>3, <1>4, <1>5, <1>6, <1>12, <1>13, <1>14, <1>15, <1>16, <1>17, <1>18, <1>19, <1>20,
           <1>21 DEF RV!ReleaseNext

LEMMA VerifyAlways == Spec => []VerifyInv
BY VerifyInit, VerifyNext, PTL DEF Spec

\* A directory that verifies is of the one build its signature is of.
LEMMA VerifySays ==
  VerifyInv => /\ RV_VerifiedIsOneBuild /\ RV_WholeBuildVerifies /\ RV_ListedPagesAreNew
               /\ RV_DeployedIsWhole /\ RV_TwoVerifiersAgree /\ RV_PassedIsWhole
<1> SUFFICES ASSUME which = "verify", RV!Inv
             PROVE  /\ RV!VerifiedIsOneBuild /\ RV!WholeBuildVerifies /\ RV!ListedPagesAreNew
                    /\ RV!DeployedIsWhole /\ RV!TwoVerifiersAgree /\ RV!PassedIsWhole
  BY DEF VerifyInv, RV_VerifiedIsOneBuild, RV_WholeBuildVerifies, RV_ListedPagesAreNew,
         RV_DeployedIsWhole, RV_TwoVerifiersAgree, RV_PassedIsWhole
<1>1. RV!DiskInv /\ RV!BuildInv /\ RV!VerificationInv
  BY DEF RV!Inv
<1>2. RV!VerifiedIsOneBuild
  <2> SUFFICES ASSUME RV!Verified, NEW f \in RV!Signed
               PROVE  IF f = "prerender" THEN RV!IsOf(v1[f], v1["deployment"].run)
                      ELSE RV!Parsed(f) /\ v1[f].run = v1["deployment"].run
    BY DEF RV!VerifiedIsOneBuild
  <2>1. v1["signature"] \notin {None, RV!Torn} /\ \A g \in RV!Signed : v1[g] = v1["signature"].of[g]
    BY DEF RV!Verified, RV!Parsed, RV!Matches
  <2>2. PICK r \in 1 .. v3.run : \A g \in RV!Signed :
          RV!IsOf(v1["signature"].of[g], r) /\ (g # "prerender" => v1["signature"].of[g].run = r)
    BY <1>1, <2>1 DEF RV!DiskInv
  <2>3. \A g \in RV!Signed : RV!IsOf(v1[g], r) /\ (g # "prerender" => v1[g].run = r)
    BY <2>1, <2>2
  <2>4. r # 0 /\ RV!Torn.run = 0 /\ "deployment" \in RV!Signed /\ v1["deployment"].run = r
    BY <1>1, <2>3, TheFiles DEF RV!Torn, RV!BuildInv
  <2>5. CASE f = "prerender"
    BY <2>3, <2>4, <2>5
  <2>6. CASE f # "prerender"
    BY <2>3, <2>4, <2>6 DEF RV!Parsed, RV!IsOf
  <2> QED BY <2>5, <2>6
<1>3. RV!WholeBuildVerifies
  <2> SUFFICES ASSUME v3.at = 16, ~v4 PROVE RV!Verified
    BY ThePlan DEF RV!WholeBuildVerifies
  <2>1. WroteBefore(v1, 16, v3.run, v3.app) /\ v3.run \in Nat /\ v3.run > 0 /\ v3.app \in Deployables
    BY BuildAtWork
  <2> QED BY <2>1, WholeVerifies
<1>4. RV!ListedPagesAreNew
  BY <1>1 DEF RV!BuildInv, RV!ListedPagesAreNew
<1>5. RV!DeployedIsWhole
  BY DEF RV!DeployedIsWhole, RV!Inv
<1>6. RV!TwoVerifiersAgree
  <2> SUFFICES ASSUME NEW a \in Deployables, RV!OutputPasses(a) PROVE RV!Verified
    BY DEF RV!TwoVerifiersAgree
  <2>1. /\ \A f \in RV!Named \cup {"deployment"} : v1[f] \notin {None, RV!Torn}
        /\ \A f \in RV!Signed : v1["signature"].of[f] = v1[f]
        /\ v1["deploymentSignature"].of = v1["signature"].of
    BY DEF RV!OutputPasses, RV!Shaped, RV!SignaturesMatch
  <2> QED BY <2>1, TheFiles DEF RV!Verified, RV!Parsed, RV!Matches
<1>7. RV!PassedIsWhole
  <2> SUFFICES ASSUME v7.at = "passed", v7.run = v3.run, ~v4
               PROVE  /\ RV!Verified /\ RV!OutputPasses(v7.id)
                      /\ v1["evidence"].of["audit"] = v7.run /\ v1["evidence"].of["scoreboard"] = v7.run
    BY DEF RV!PassedIsWhole
  <2>1. /\ v7.id \in Deployables /\ v7.run \in Nat /\ \A f \in RV!Files : RV!Wrote(v1, f, v7.run, v7.id)
        /\ v1["evidence"] = [run |-> v7.run, id |-> v7.id, renewed |-> FALSE, of |-> v1["evidence"].of]
        /\ v1["evidence"].of["audit"] = v7.run /\ v1["evidence"].of["scoreboard"] = v7.run
    BY <1>1 DEF RV!VerificationInv, RV!BuildInv
  <2>2. v7.run > 0
    BY <1>1 DEF RV!VerificationInv
  <2>3. WroteBefore(v1, 16, v7.run, v7.id)
    BY <2>1 DEF WroteBefore
  <2>4. /\ RV!Verified /\ v1["assets"] # None
        /\ \A f \in RV!Files \ {"evidence"} : RV!Shaped(f, v1, v7.id)
        /\ v1["deployment"].id = v7.id /\ v1["governance"].of = v7.id /\ RV!SignaturesMatch(v1, v1)
    BY <2>1, <2>2, <2>3, WholeVerifies
  <2>5. RV!Shaped("evidence", v1, v7.id)
    <3> DEFINE o == v1["evidence"].of
    <3>1. o \in RV!Reports
      BY <1>1 DEF RV!VerificationInv
    <3> HIDE DEF o
    <3>2. v1["evidence"] = [run |-> v7.run, id |-> v7.id, renewed |-> FALSE, of |-> o]
      BY <2>1 DEF o
    <3>3. v1["evidence"] \in RV!Contents
      BY <2>1, <3>1, <3>2 DEF RV!Contents
    <3>4. v1["evidence"].run = v7.run /\ v1["evidence"].id = v7.id /\ RV!Torn.run = 0 /\ RV!Foreign.run = 0
      BY <3>2 DEF RV!Torn, RV!Foreign
    <3> QED BY <2>1, <2>2, <3>3, <3>4, NoneAssumption DEF RV!Shaped
  <2>6. RV!OutputPasses(v7.id)
    BY <2>4, <2>5, TheFiles DEF RV!OutputPasses, RV!AssetsThere, RV!GovernanceAgrees
  <2> QED BY <2>1, <2>4, <2>6
<1> QED BY <1>2, <1>3, <1>4, <1>5, <1>6, <1>7

\* What verifies is one whole build, but for what servers write: the files that a signature
\* covers are of one run and none is torn, the prerender manifest excepted if a server wrote
\* it; a build that ran to its end, and one that is deployed, verifies unless a server wrote
\* the prerender manifest after the build did; its pages are those it rendered or those of a
\* server; both verifiers agree; and a verification that passed, with no server writing since,
\* has left the directory so with its own reports in the evidence.
THEOREM DirectoryIsOneBuild == Spec => []VerifiedIsWhole
<1>1. VerifyInv => VerifiedIsWhole
  BY VerifySays DEF VerifiedIsWhole
<1> QED BY <1>1, VerifyAlways, PTL

-----------------------------------------------------------------------------
(* The commands and the release evidence.                                  *)
EvidenceInv == which = "evidence" => RE!Inv
evidence == <<v1, v2, v3, v4, v5, v6, v7, v8>>

LEMMA EvidenceSteps ==
  ASSUME [Next]_all, which' = "evidence"
  PROVE  which = "evidence" /\ [RE!Next]_evidence
BY DEF Next, all, shared, evidence

LEMMA TheNames == RE!Names = {"build", "report", "remedies", "scoreboard", "matrix", "audit"}
BY DEF RE!Names, RE!RequiredForRelease

\* What the commands write stays there until the next build.
LEMMA WithKeeps ==
  ASSUME RE!FilesInv, NEW names \in SUBSET RE!Names, v3' = RE!With(names)
  PROVE  /\ DOMAIN v3' = {"run", "fresh", "files"} /\ v3'.run = v3.run /\ v3'.fresh = v3.fresh
         /\ RE!Present \subseteq RE!Present' /\ RE!Present' \subseteq RE!Names
         /\ names \subseteq RE!Present'
         /\ v7'.run = v7.run => ((\A n \in names : RE!Has(n)') /\ \A n \in RE!Names : RE!Has(n) => RE!Has(n)')
<1> DEFINE h == RE!Holding(names, v7.run)
<1>1. DOMAIN v3 = {"run", "fresh", "files"} /\ RE!Present \subseteq RE!Names
  BY DEF RE!FilesInv
<1>2. v3' = [v3 EXCEPT !.files = h]
  BY DEF RE!With
<1>3. DOMAIN h = names \cup RE!Present /\ (\A n \in names : h[n] = v7.run)
      /\ \A n \in RE!Present \ names : h[n] = v3.files[n]
  BY DEF RE!Holding
<1> HIDE DEF h
<1>4. DOMAIN v3' = {"run", "fresh", "files"} /\ v3'.run = v3.run /\ v3'.fresh = v3.fresh /\ v3'.files = h
  BY <1>1, <1>2
<1>5. RE!Present' = names \cup RE!Present
  BY <1>3, <1>4 DEF RE!Present
<1>6. v7'.run = v7.run => \A n \in names : RE!Has(n)'
  BY <1>3, <1>4, <1>5 DEF RE!Has
<1>7. v7'.run = v7.run => \A n \in RE!Names : RE!Has(n) => RE!Has(n)'
  BY <1>3, <1>4, <1>5 DEF RE!Has
<1> QED BY <1>1, <1>4, <1>5, <1>6, <1>7

\* A command that is over, or has not begun.
LEMMA CommandEnds ==
  ASSUME RE!Inv, RE!Ended, UNCHANGED <<v1, v4, v5>>,
         v3' = v3 \/ \E names \in SUBSET RE!Names : v3' = RE!With(names)
  PROVE  RE!CommandInv' /\ RE!FilesInv' /\ RE!OwnInv' /\ RE!FoundInv' /\ (v6' = v6 => RE!Inv')
<1>1. RE!CommandInv /\ RE!FilesInv /\ RE!FoundInv /\ RE!BundleIsWhole /\ RE!BundleIsHealthy
  BY DEF RE!Inv
<1>2. /\ v7'.name = "none" /\ v7'.at = "none" /\ v7'.area = "all" /\ v7'.verified = FALSE
      /\ v7' \in RE!Commands
  BY DEF RE!Ended, RE!Idle, RE!Commands
<1>3. /\ DOMAIN v3' = {"run", "fresh", "files"} /\ v3'.run = v3.run /\ v3'.fresh = v3.fresh
      /\ RE!Present \subseteq RE!Present' /\ RE!Present' \subseteq RE!Names
  <2>1. CASE v3' = v3
    BY <1>1, <2>1 DEF RE!FilesInv, RE!Present
  <2>2. CASE v3' # v3
    BY <1>1, <2>2, WithKeeps
  <2> QED BY <2>1, <2>2
<1>4. RE!CommandInv'
  BY <1>1, <1>2 DEF RE!CommandInv
<1>5. RE!FilesInv'
  BY <1>1, <1>2, <1>3, TheNames DEF RE!FilesInv, RE!Beyond, RE!Writing
<1>6. RE!FoundInv'
  BY <1>1, <1>2 DEF RE!FoundInv, RE!Beyond, RE!Writing, RE!Releasing, RE!InWorkspace
<1>7. RE!OwnInv'
  BY <1>2 DEF RE!OwnInv, RE!Beyond
<1> QED BY <1>1, <1>4, <1>5, <1>6, <1>7 DEF RE!Inv, RE!Undisturbed, RE!BundleIsWhole, RE!BundleIsHealthy

LEMMA EvidenceInit == Init => EvidenceInv
<1> SUFFICES ASSUME Init, which = "evidence" PROVE RE!Inv
  BY DEF EvidenceInv
<1>1. /\ v1 = {} /\ v3 = [run |-> 0, fresh |-> FALSE, files |-> <<>>]
      /\ v4 = None /\ v5 = None /\ v6 = None /\ v7 = RE!Idle
  BY DEF Init, RE!Init
<1>2. /\ v7.name = "none" /\ v7.at = "none" /\ v7.area = "all" /\ v7.verified = FALSE
      /\ v7 \in RE!Commands
  BY <1>1 DEF RE!Idle, RE!Commands
<1>3. RE!CommandInv
  BY <1>1, <1>2 DEF RE!CommandInv
<1>4. RE!Present = {}
  BY <1>1 DEF RE!Present
<1>5. RE!FilesInv /\ RE!OwnInv
  BY <1>1, <1>2, <1>4 DEF RE!FilesInv, RE!OwnInv, RE!Beyond, RE!Writing
<1>6. RE!FoundInv
  BY <1>1, <1>2 DEF RE!FoundInv, RE!Beyond, RE!Writing, RE!Releasing
<1> QED BY <1>1, <1>3, <1>5, <1>6 DEF RE!Inv, RE!Undisturbed, RE!BundleIsWhole, RE!BundleIsHealthy

\* The fields of a command.
LEMMA CommandFields ==
  ASSUME v7 \in RE!Commands
  PROVE  /\ v7 = [name |-> v7.name, at |-> v7.at, area |-> v7.area, built |-> v7.built,
                  run |-> v7.run, verified |-> v7.verified, found |-> v7.found, written |-> v7.written, rewritten |-> v7.rewritten,
                  edited |-> v7.edited]
         /\ v7.name \in {"none", "build", "verify", "audit", "release", "doctor"}
         /\ v7.at \in {"none", "reports", "build", "audit", "scores", "index", "gates", "load",
                       "gather", "write", "bundle"}
         /\ v7.area \in Areas \cup {"all"} /\ v7.built \in Nat /\ v7.run \in Nat /\ v7.verified \in BOOLEAN
         /\ v7.found \in SUBSET (Flaws \cup {"failed", "invalid", "missing"})
         /\ v7.written \in 0 .. 6 /\ v7.rewritten \in BOOLEAN /\ v7.edited \in BOOLEAN
BY DEF RE!Commands

\* A command goes one step on: what it asks of the workspace and of the server stays.
Onward(c, d) ==
  /\ d \in RE!Commands /\ d.name = c.name /\ d.area = c.area /\ d.rewritten = c.rewritten
  /\ d.edited = c.edited /\ d.built = c.built /\ d.run = c.run

LEMMA EvidenceNext == EvidenceInv /\ [Next]_all => EvidenceInv'
<1> SUFFICES ASSUME EvidenceInv, [Next]_all, which' = "evidence" PROVE RE!Inv'
  BY DEF EvidenceInv
<1>1. RE!Inv /\ [RE!Next]_evidence
  BY EvidenceSteps DEF EvidenceInv
<1>2. /\ RE!CommandInv /\ RE!FilesInv /\ RE!OwnInv /\ RE!FoundInv /\ RE!BundleIsWhole /\ RE!BundleIsHealthy
      /\ v7 \in RE!Commands
  BY <1>1 DEF RE!Inv, RE!CommandInv
<1> USE DEF RE!Inv
<1>3. CASE UNCHANGED evidence
  <2>1. UNCHANGED <<v1, v3, v4, v5, v6, v7>>
    BY <1>3 DEF evidence
  <2>2. RE!CommandInv' /\ RE!FilesInv' /\ RE!OwnInv' /\ RE!FoundInv'
    BY <1>2, <2>1 DEF RE!CommandInv, RE!FilesInv, RE!OwnInv, RE!FoundInv, RE!Present, RE!Has, RE!Beyond, RE!Writing,
                      RE!Releasing, RE!InWorkspace
  <2> QED BY <1>2, <2>1, <2>2 DEF RE!Undisturbed, RE!BundleIsWhole, RE!BundleIsHealthy
<1>4. ASSUME NEW name \in {"build", "verify", "audit", "release", "doctor"}, NEW area \in Areas \cup {"all"},
             name # "doctor" => area = "all", RE!Begin(name, area)
      PROVE  RE!Inv'
  <2> DEFINE at == CASE name = "audit" -> "reports"
                     [] name = "doctor" /\ ~RE!ShouldBuild(area) -> "load"
                     [] OTHER -> "build"
  <2>1. v7' = [RE!Idle EXCEPT !.name = name, !.area = area, !.at = at] /\ UNCHANGED <<v1, v3, v4, v5, v6>>
    BY <1>4 DEF RE!Begin
  <2>2. /\ at \in {"reports", "load", "build"} /\ (at = "load" => name = "doctor" /\ ~RE!ShouldBuild(area))
        /\ at = "build" => name \in {"build", "verify", "release", "doctor"}
        /\ at = "reports" => name = "audit"
    OBVIOUS
  <2> HIDE DEF at
  <2>3. /\ v7'.name = name /\ v7'.at = at /\ v7'.area = area /\ v7'.verified = FALSE /\ v7' \in RE!Commands
    <3>1. v7' = [name |-> name, at |-> at, area |-> area, built |-> 0, run |-> 0, verified |-> FALSE,
                 found |-> {}, written |-> 0, rewritten |-> FALSE, edited |-> FALSE]
      BY <2>1 DEF RE!Idle
    <3>2. at \in {"none", "reports", "build", "audit", "scores", "index", "gates", "load", "gather",
                  "write", "bundle"}
      BY <2>2
    <3> QED BY <3>1, <3>2 DEF RE!Commands
  <2>4. RE!CommandInv'
    BY <1>2, <1>4, <2>1, <2>2, <2>3 DEF RE!CommandInv
  <2>5. RE!FilesInv' /\ RE!OwnInv'
    BY <1>2, <2>1, <2>2, <2>3 DEF RE!FilesInv, RE!OwnInv, RE!Beyond, RE!Writing, RE!Has, RE!Present
  <2>6. RE!FoundInv'
    BY <1>2, <2>1, <2>2, <2>3 DEF RE!FoundInv, RE!Beyond, RE!Writing, RE!Releasing
  <2> QED BY <1>2, <2>1, <2>4, <2>5, <2>6 DEF RE!Undisturbed, RE!BundleIsWhole, RE!BundleIsHealthy
<1>5. CASE RE!Kill
  BY <1>1, <1>5, CommandEnds DEF RE!Kill
<1>6. CASE RE!BuildFails
  <2>1. CASE RE!Ended
    BY <1>1, <1>6, <2>1, CommandEnds DEF RE!BuildFails
  <2>2. CASE ~RE!Ended
    <3>1. /\ v7.at = "build" /\ v7.name = "doctor" /\ UNCHANGED <<v1, v3, v4, v5, v6>>
          /\ v7' = [v7 EXCEPT !.at = "gather", !.found = {"failed"}]
      BY <1>6, <2>2 DEF RE!BuildFails
    <3>2. v7'.at = "gather" /\ v7'.found = {"failed"} /\ v7'.verified = v7.verified /\ Onward(v7, v7')
      BY <1>2, <3>1 DEF RE!Commands, Onward
    <3>3. RE!CommandInv'
      BY <1>2, <3>1, <3>2 DEF RE!CommandInv, Onward
    <3>4. RE!FilesInv' /\ RE!OwnInv'
      BY <1>2, <3>1, <3>2 DEF RE!FilesInv, RE!OwnInv, RE!Beyond, RE!Writing, RE!Has, RE!Present, Onward
    <3>5. RE!FoundInv'
      BY <1>2, <3>1, <3>2 DEF RE!FoundInv, RE!Beyond, RE!Writing, RE!Releasing, Onward
    <3> QED BY <1>2, <3>1, <3>3, <3>4, <3>5 DEF RE!Undisturbed, RE!BundleIsWhole, RE!BundleIsHealthy
  <2> QED BY <2>1, <2>2

<1>7. CASE RE!Build
  <2> DEFINE h == RE!Holding({"build"}, v3.run + 1)
  <2>1. /\ v7.at = "build" /\ "broken" \notin v1 /\ v4' = {"build"} /\ UNCHANGED <<v1, v5, v6>>
        /\ v3' = [run |-> v3.run + 1, fresh |-> TRUE, files |-> h]
    BY <1>7 DEF RE!Build, RE!NewBuild
  <2>2. v7.name \in {"build", "verify", "release", "doctor"}
    BY <1>2, <2>1 DEF RE!CommandInv
  <2> DEFINE examined == [name |-> v7.name, at |-> "gather", area |-> v7.area, built |-> v7.built,
                          run |-> v3'.run, verified |-> TRUE, found |-> v7.found, written |-> v7.written,
                          rewritten |-> v7.rewritten, edited |-> v7.edited]
             built == [name |-> v7.name, at |-> "audit", area |-> v7.area, built |-> v3'.run,
                       run |-> v3'.run, verified |-> v7.verified, found |-> v7.found, written |-> v7.written,
                       rewritten |-> FALSE, edited |-> v7.edited]
  <2>3. \/ RE!Ended
        \/ v7.name = "doctor" /\ v7' = examined
        \/ v7.name \in {"verify", "release"} /\ v7' = built
    <3>1. \/ v7.name = "doctor" /\ v7' = examined
          \/ v7.name = "build" /\ RE!Ended
          \/ /\ v7.name \in {"verify", "release"}
             /\ IF "budget" \in v1 THEN RE!Ended ELSE v7' = built
      BY <1>2, <1>7, CommandFields DEF RE!Build
    <3>2. CASE "budget" \in v1
      BY <3>1, <3>2, Zenon
    <3>3. CASE "budget" \notin v1
      BY <3>1, <3>3, Zenon
    <3> QED BY <3>2, <3>3
  <2>4. DOMAIN h = {"build"} \cup RE!Present /\ h["build"] = v3.run + 1
    BY DEF RE!Holding
  <2> HIDE DEF h
  <2>5. /\ DOMAIN v3' = {"run", "fresh", "files"} /\ v3'.run = v3.run + 1 /\ v3'.fresh = TRUE /\ v3'.files = h
        /\ v3'.run \in Nat /\ v3'.run > 0
    BY <1>2, <2>1 DEF RE!FilesInv
  <2>6. /\ RE!Present' = {"build"} \cup RE!Present /\ RE!Present' \subseteq RE!Names
        /\ v7'.run = v3'.run => RE!Has("build")'
    BY <1>2, <2>4, <2>5, TheNames DEF RE!Present, RE!Has, RE!FilesInv
  <2>7. /\ \/ v7'.name = "none" /\ v7'.at = "none" /\ v7'.area = "all" /\ v7'.verified = FALSE
           \/ v7'.name = "doctor" /\ v7'.at = "gather"
           \/ /\ v7'.name \in {"verify", "release"} /\ v7'.at = "audit"
              /\ v7'.built = v3'.run /\ v7'.run = v3'.run
        /\ v7' \in RE!Commands /\ (v7'.name = "release" => v7'.area = "all")
    <3>1. CASE RE!Ended
      BY <3>1 DEF RE!Ended, RE!Idle, RE!Commands
    <3>2. CASE v7.name = "doctor" /\ v7' = examined
      BY <1>2, <2>5, <3>2, CommandFields DEF RE!Commands
    <3>3. CASE v7.name \in {"verify", "release"} /\ v7' = built
      BY <1>2, <2>5, <3>3, CommandFields DEF RE!Commands, RE!CommandInv
    <3> HIDE DEF examined, built
    <3> QED BY <2>3, <3>1, <3>2, <3>3
  <2>8. RE!CommandInv'
    BY <1>2, <2>1, <2>7 DEF RE!CommandInv
  <2> HIDE DEF examined, built
  <2>9. RE!FilesInv' /\ RE!OwnInv'
    BY <2>1, <2>5, <2>6, <2>7 DEF RE!FilesInv, RE!OwnInv, RE!Beyond, RE!Writing
  <2>10. RE!FoundInv'
    BY <1>2, <2>1, <2>7 DEF RE!FoundInv, RE!Beyond, RE!Writing, RE!Releasing
  <2> QED BY <1>2, <2>1, <2>8, <2>9, <2>10 DEF RE!Undisturbed, RE!BundleIsWhole, RE!BundleIsHealthy
<1>8. {"audit"} \in SUBSET RE!Names /\ {"scoreboard", "matrix"} \in SUBSET RE!Names
      /\ {"report"} \in SUBSET RE!Names /\ {"remedies"} \in SUBSET RE!Names
  BY TheNames
<1>9. CASE RE!Audit
  BY <1>1, <1>8, <1>9, CommandEnds DEF RE!Audit
<1>10. CASE RE!VerifyOutput
  <2>1. CASE RE!Ended
    BY <1>1, <1>8, <1>10, <2>1, CommandEnds DEF RE!VerifyOutput
  <2>2. CASE ~RE!Ended
    <3>1. /\ v7.at = "audit" /\ v7' = [v7 EXCEPT !.at = "scores"] /\ v3' = RE!With({"audit"})
          /\ UNCHANGED <<v1, v4, v5, v6>>
      BY <1>10, <2>2 DEF RE!VerifyOutput
    <3>2. v7'.at = "scores" /\ v7'.found = v7.found /\ v7'.verified = v7.verified /\ Onward(v7, v7')
      BY <1>2, <3>1 DEF RE!Commands, Onward
    <3>3. /\ DOMAIN v3' = {"run", "fresh", "files"} /\ v3'.run = v3.run /\ v3'.fresh = v3.fresh
          /\ RE!Present \subseteq RE!Present' /\ RE!Present' \subseteq RE!Names
          /\ {"audit"} \subseteq RE!Present' /\ RE!Has("audit")' /\ \A n \in RE!Names : RE!Has(n) => RE!Has(n)'
      BY <1>2, <1>8, <3>1, <3>2, WithKeeps DEF Onward
    <3>4. RE!CommandInv'
      BY <1>2, <3>1, <3>2 DEF RE!CommandInv, Onward
    <3>5. RE!FilesInv' /\ RE!OwnInv'
      BY <1>2, <3>1, <3>2, <3>3, TheNames DEF RE!FilesInv, RE!OwnInv, RE!Beyond, RE!Writing, Onward
    <3>6. RE!FoundInv'
      BY <1>2, <3>1, <3>2 DEF RE!FoundInv, RE!Beyond, RE!Writing, RE!Releasing, Onward
    <3> QED BY <1>2, <3>1, <3>4, <3>5, <3>6 DEF RE!Undisturbed, RE!BundleIsWhole, RE!BundleIsHealthy
  <2> QED BY <2>1, <2>2
<1>11. CASE RE!WriteScores
  <2>1. /\ v7.at = "scores" /\ v7' = [v7 EXCEPT !.at = "index"] /\ v3' = RE!With({"scoreboard", "matrix"})
        /\ UNCHANGED <<v1, v4, v5, v6>>
    BY <1>11 DEF RE!WriteScores
  <2>2. v7'.at = "index" /\ v7'.found = v7.found /\ v7'.verified = v7.verified /\ Onward(v7, v7')
    BY <1>2, <2>1 DEF RE!Commands, Onward
  <2>3. /\ DOMAIN v3' = {"run", "fresh", "files"} /\ v3'.run = v3.run /\ v3'.fresh = v3.fresh
        /\ RE!Present \subseteq RE!Present' /\ RE!Present' \subseteq RE!Names
        /\ {"scoreboard", "matrix"} \subseteq RE!Present'
        /\ RE!Has("scoreboard")' /\ RE!Has("matrix")' /\ \A n \in RE!Names : RE!Has(n) => RE!Has(n)'
    BY <1>2, <1>8, <2>1, <2>2, WithKeeps DEF Onward
  <2>4. RE!CommandInv'
    BY <1>2, <2>1, <2>2 DEF RE!CommandInv, Onward
  <2>5. RE!FilesInv' /\ RE!OwnInv'
    BY <1>2, <2>1, <2>2, <2>3, TheNames DEF RE!FilesInv, RE!OwnInv, RE!Beyond, RE!Writing, Onward
  <2>6. RE!FoundInv'
    BY <1>2, <2>1, <2>2 DEF RE!FoundInv, RE!Beyond, RE!Writing, RE!Releasing, Onward
  <2> QED BY <1>2, <2>1, <2>4, <2>5, <2>6 DEF RE!Undisturbed, RE!BundleIsWhole, RE!BundleIsHealthy
<1>12. CASE RE!VerifyIndex
  <2>1. /\ v7.at = "index" /\ v7' = [v7 EXCEPT !.at = "gates"] /\ UNCHANGED <<v1, v3, v5, v6>>
        /\ v4' = {"build", "scoreboard", "matrix", "audit"} \cup ({"report", "remedies"} \cap RE!Present)
    BY <1>12 DEF RE!VerifyIndex
  <2>2. v7'.at = "gates" /\ v7'.found = v7.found /\ v7'.verified = v7.verified /\ Onward(v7, v7')
    BY <1>2, <2>1 DEF RE!Commands, Onward
  <2>3. RE!Beyond({"audit", "scores"}) /\ RE!Beyond({"audit"}) /\ RE!Beyond({})
    BY <1>2, <2>1 DEF RE!Beyond, RE!CommandInv
  <2>4. {"build", "scoreboard", "matrix", "audit"} \subseteq RE!Present
    BY <1>2, <2>3 DEF RE!FilesInv
  <2>5. v4' \subseteq RE!Present /\ v4' \subseteq RE!Names
    BY <1>2, <2>1, <2>4 DEF RE!FilesInv
  <2>6. v4' # None
    BY <2>5, NoneAssumption
  <2>7. RE!CommandInv'
    BY <1>2, <2>1, <2>2 DEF RE!CommandInv, Onward
  <2>8. RE!FilesInv' /\ RE!OwnInv'
    BY <1>2, <2>1, <2>2, <2>3, <2>5, <2>6 DEF RE!FilesInv, RE!OwnInv, RE!Beyond, RE!Writing, RE!Has, RE!Present, Onward
  <2>9. RE!FoundInv'
    BY <1>2, <2>1, <2>2 DEF RE!FoundInv, RE!Beyond, RE!Writing, RE!Releasing, Onward
  <2> QED BY <1>2, <2>1, <2>7, <2>8, <2>9 DEF RE!Undisturbed, RE!BundleIsWhole, RE!BundleIsHealthy
<1>13. CASE RE!Gates
  <2>1. CASE RE!Ended
    BY <1>1, <1>13, <2>1, CommandEnds DEF RE!Gates
  <2>2. CASE ~RE!Ended
    <3>1. /\ v7.at = "gates" /\ v7.name = "release" /\ "package" \notin v1 /\ v7' = [v7 EXCEPT !.at = "load"]
          /\ UNCHANGED <<v1, v3, v4, v5, v6>>
      BY <1>13, <2>2 DEF RE!Gates, RE!PassesGates
    <3>2. v7'.at = "load" /\ v7'.found = v7.found /\ v7'.verified = v7.verified /\ Onward(v7, v7')
      BY <1>2, <3>1 DEF RE!Commands, Onward
    <3>3. RE!CommandInv'
      BY <1>2, <3>1, <3>2 DEF RE!CommandInv, Onward
    <3>4. RE!FilesInv' /\ RE!OwnInv'
      BY <1>2, <3>1, <3>2 DEF RE!FilesInv, RE!OwnInv, RE!Beyond, RE!Writing, RE!Has, RE!Present, Onward
    <3>5. RE!FoundInv'
      BY <1>2, <3>1, <3>2 DEF RE!FoundInv, RE!Beyond, RE!Writing, RE!Releasing, Onward
    <3> QED BY <1>2, <3>1, <3>3, <3>4, <3>5 DEF RE!Undisturbed, RE!BundleIsWhole, RE!BundleIsHealthy
  <2> QED BY <2>1, <2>2
<1>14. CASE RE!LoadExisting
  <2> DEFINE verified == v3.run > 0 /\ v3.fresh
             found == IF v3.run > 0 /\ ~v3.fresh THEN {"invalid"} ELSE {}
  <2>1. /\ v7.at = "load" /\ v7' = [v7 EXCEPT !.at = "gather", !.run = v3.run, !.verified = verified, !.found = found]
        /\ UNCHANGED <<v1, v3, v4, v5, v6>>
    BY <1>14 DEF RE!LoadExisting
  <2>2. verified \in BOOLEAN /\ found \in SUBSET {"invalid"} /\ (verified => v3.run > 0)
        /\ (v3.run > 0 /\ v3.fresh => verified /\ found = {})
    OBVIOUS
  <2> HIDE DEF verified, found
  <2>3. /\ v7'.at = "gather" /\ v7'.found = found /\ (v7'.verified <=> verified) /\ v7'.written = v7.written
        /\ v7' \in RE!Commands /\ v7'.name = v7.name /\ v7'.area = v7.area /\ v7'.run = v3.run
        /\ v7'.built = v7.built /\ v7'.rewritten = v7.rewritten /\ v7'.edited = v7.edited
    <3>1. v7' = [name |-> v7.name, at |-> "gather", area |-> v7.area, built |-> v7.built, run |-> v3.run,
                 verified |-> verified, found |-> found, written |-> v7.written, rewritten |-> v7.rewritten, edited |-> v7.edited]
      BY <1>2, <2>1, CommandFields
    <3>2. v7' \in RE!Commands
      BY <1>2, <2>2, <3>1, CommandFields DEF RE!Commands, RE!FilesInv
    <3> QED BY <3>1, <3>2
  <2>4. RE!CommandInv'
    BY <1>2, <2>1, <2>3 DEF RE!CommandInv
  <2>5. RE!FilesInv' /\ RE!OwnInv'
    <3>1. RE!Beyond({}) /\ ~v7.rewritten => v7.run = v3.run
      BY <1>2 DEF RE!OwnInv
    <3>2. RE!FilesInv'
      BY <1>2, <2>1, <2>2, <2>3 DEF RE!FilesInv, RE!Beyond, RE!Writing, RE!Present
    <3>3. RE!OwnInv'
      BY <1>2, <2>1, <2>3, <3>1 DEF RE!OwnInv, RE!Beyond, RE!Writing, RE!Has, RE!Present
    <3> QED BY <3>2, <3>3
  <2>6. RE!FoundInv'
    <3>1. v7.name = "release" => RE!Beyond({})
      BY <2>1 DEF RE!Beyond
    <3>2. v7.name = "release" /\ ~v7.rewritten => v3.run > 0 /\ v3.fresh
      BY <1>2, <3>1 DEF RE!FilesInv, RE!OwnInv
    <3>3. v7.name = "release" /\ ~v7.rewritten => v7'.verified /\ RE!Passed(v7'.found)
      BY <2>2, <2>3, <3>2 DEF RE!Passed
    <3>4. ~(v7'.name = "doctor" /\ v7'.area = "all")
      BY <1>2, <2>1, <2>3 DEF RE!CommandInv, RE!ShouldBuild
    <3> QED BY <1>2, <2>1, <2>3, <3>3, <3>4 DEF RE!FoundInv, RE!Beyond, RE!Writing, RE!Releasing
  <2> QED BY <1>2, <2>1, <2>4, <2>5, <2>6 DEF RE!Undisturbed, RE!BundleIsWhole, RE!BundleIsHealthy
<1>15. CASE RE!Gather
  <2> DEFINE found == v7.found \cup RE!InWorkspace(v7.area)
  <2>1. /\ v7.at = "gather" /\ v7' = [v7 EXCEPT !.at = "write", !.written = 1, !.found = found]
        /\ v3' = (IF RE!Audits(v7.area) THEN RE!With({"audit"}) ELSE v3) /\ UNCHANGED <<v1, v4, v5, v6>>
    BY <1>15 DEF RE!Gather
  <2>2. found \in SUBSET (Flaws \cup {"failed", "invalid", "missing"})
    BY <1>2, CommandFields DEF RE!InWorkspace, RE!CommandInv
  <2>3. /\ v7'.at = "write" /\ v7'.found = found /\ v7'.verified = v7.verified /\ v7'.written = 1
        /\ Onward(v7, v7')
    <3> HIDE DEF found
    <3>1. v7' = [name |-> v7.name, at |-> "write", area |-> v7.area, built |-> v7.built, run |-> v7.run, verified |-> v7.verified,
                 found |-> found, written |-> 1, rewritten |-> v7.rewritten, edited |-> v7.edited]
      BY <1>2, <2>1, CommandFields
    <3>2. v7' \in RE!Commands
      BY <1>2, <2>2, <3>1, CommandFields DEF RE!Commands
    <3> QED BY <3>1, <3>2 DEF Onward
  <2>4. /\ DOMAIN v3' = {"run", "fresh", "files"} /\ v3'.run = v3.run /\ v3'.fresh = v3.fresh
        /\ RE!Present \subseteq RE!Present' /\ RE!Present' \subseteq RE!Names
        /\ (RE!Audits(v7.area) => {"audit"} \subseteq RE!Present') /\ \A n \in RE!Names : RE!Has(n) => RE!Has(n)'
    <3>1. CASE RE!Audits(v7.area)
      BY <1>2, <1>8, <2>1, <2>3, <3>1, WithKeeps DEF Onward
    <3>2. CASE ~RE!Audits(v7.area)
      BY <1>2, <2>1, <3>2 DEF RE!FilesInv, RE!Has, RE!Present
    <3> QED BY <3>1, <3>2
  <2>5. RE!CommandInv'
    BY <1>2, <2>1, <2>3 DEF RE!CommandInv, Onward
  <2>6. RE!FilesInv' /\ RE!OwnInv'
    BY <1>2, <2>1, <2>3, <2>4, TheNames DEF RE!FilesInv, RE!OwnInv, RE!Beyond, RE!Writing, Onward
  <2>7. RE!FoundInv'
    <3>1. "failed" \notin found => "failed" \notin v7.found
      OBVIOUS
    <3>2. RE!InWorkspace(v7.area)' = RE!InWorkspace(v7.area) /\ RE!InWorkspace(v7.area) \subseteq found
      BY <2>1 DEF RE!InWorkspace
    <3>3. v7.name = "release" /\ ~v7.rewritten /\ ~v7.edited => RE!Passed(found)
      <4> SUFFICES ASSUME v7.name = "release", ~v7.rewritten, ~v7.edited, NEW f \in found
                   PROVE  RE!Severity(f) # "error"
        BY DEF RE!Passed
      <4>1. "package" \notin v1 /\ RE!Passed(v7.found)
        BY <1>2, <2>1 DEF RE!FoundInv, RE!Releasing, RE!Writing
      <4>2. CASE f \in v7.found
        BY <4>1, <4>2 DEF RE!Passed
      <4>3. CASE f \in v1 /\ v7.area \in RE!AreasOf(f)
        BY <4>1, <4>3 DEF RE!AreasOf, RE!Severity
      <4> QED BY <4>2, <4>3 DEF RE!InWorkspace
    <3> HIDE DEF found
    <3> QED BY <1>2, <2>1, <2>3, <3>1, <3>2, <3>3 DEF RE!FoundInv, RE!Beyond, RE!Writing, RE!Releasing, Onward
  <2> QED BY <1>2, <2>1, <2>5, <2>6, <2>7 DEF RE!Undisturbed, RE!BundleIsWhole, RE!BundleIsHealthy
<1>16. RE!DoctorWrites[1] = "report" /\ RE!DoctorWrites[2] = "remedies" /\ RE!DoctorWrites[3] = "index"
       /\ RE!DoctorWrites[4] = "report" /\ RE!DoctorWrites[5] = "remedies" /\ Len(RE!DoctorWrites) = 5
  BY DEF RE!DoctorWrites
<1>17. CASE RE!Write
  <2> DEFINE n == v7.written
  <2>1. v7.at = "write" /\ n \in {1, 2, 3, 4, 5} /\ n \in Nat /\ UNCHANGED <<v1, v6>>
    <3>1. n \in 0 .. 6 /\ v7.at = "write" /\ n >= 1 /\ n <= 5 /\ UNCHANGED <<v1, v6>>
      BY <1>2, <1>16, <1>17, CommandFields DEF RE!Write, RE!CommandInv
    <3> QED BY <3>1
  <2>2. (RE!WriteReport /\ n \in {1, 4}) \/ (RE!WriteRemedies /\ n \in {2, 5}) \/ (RE!WriteIndex /\ n = 3)
    <3>1. RE!DoctorWrites[n] = IF n \in {1, 4} THEN "report" ELSE IF n \in {2, 5} THEN "remedies" ELSE "index"
      BY <1>16, <2>1
    <3>2. RE!WriteReport => n \in {1, 4}
      BY <2>1, <3>1 DEF RE!WriteReport
    <3>3. RE!WriteRemedies => n \in {2, 5}
      BY <2>1, <3>1 DEF RE!WriteRemedies
    <3>4. RE!WriteIndex => n = 3
      BY <2>1, <3>1 DEF RE!WriteIndex
    <3>5. RE!WriteReport \/ RE!WriteRemedies \/ RE!WriteIndex
      BY <1>17 DEF RE!Write
    <3> QED BY <3>2, <3>3, <3>4, <3>5, Zenon
  <2>3. v7.name \in {"release", "doctor"} /\ v7.verified \in BOOLEAN /\ RE!Writing(1)
        /\ (n >= 2 => RE!Writing(2)) /\ (n >= 3 => RE!Writing(3)) /\ (n >= 4 => RE!Writing(4))
    BY <1>2, <2>1, CommandFields DEF RE!CommandInv, RE!Writing
  \* What the steps have in common: the count, and what is found.
  <2>4. ASSUME NEW found \in SUBSET (Flaws \cup {"failed", "invalid", "missing"}), v7.found \subseteq found,
               found \subseteq v7.found \cup {"missing"},
               v7' = [v7 EXCEPT !.written = n + 1, !.found = found]
        PROVE  /\ v7'.at = "write" /\ v7'.found = found /\ v7'.written = n + 1 /\ v7'.verified = v7.verified
               /\ Onward(v7, v7') /\ RE!CommandInv'
               /\ RE!Passed(v7.found) => RE!Passed(found)
    <3>1. v7' = [name |-> v7.name, at |-> "write", area |-> v7.area, built |-> v7.built, run |-> v7.run, verified |-> v7.verified,
                 found |-> found, written |-> n + 1, rewritten |-> v7.rewritten, edited |-> v7.edited]
      BY <1>2, <2>1, <2>4, CommandFields
    <3>2. n + 1 \in 0 .. 6 /\ n + 1 >= 1
      BY <2>1
    <3> HIDE DEF n
    <3>3. v7' \in RE!Commands
      BY <1>2, <2>1, <3>1, <3>2, CommandFields DEF RE!Commands
    <3>4. Onward(v7, v7') /\ v7'.at = "write" /\ v7'.found = found /\ v7'.written = n + 1
          /\ v7'.verified = v7.verified
      BY <3>1, <3>3 DEF Onward
    <3>5. RE!CommandInv'
      BY <1>2, <2>1, <3>2, <3>4 DEF RE!CommandInv, Onward
    <3>6. RE!Passed(v7.found) => RE!Passed(found)
      BY <2>4 DEF RE!Passed, RE!Severity
    <3> QED BY <3>4, <3>5, <3>6
  <2>5. v7.found \in SUBSET (Flaws \cup {"failed", "invalid", "missing"}) /\ v7 = [v7 EXCEPT !.found = v7.found]
    BY <1>2, CommandFields
  <2>6. CASE RE!WriteReport /\ n \in {1, 4}
    <3>1. /\ v5' = [area |-> v7.area, run |-> v7.run, found |-> v7.found, saw |-> IF v7.edited THEN None ELSE v1]
          /\ v3' = RE!With({"report"}) /\ v7' = [v7 EXCEPT !.written = n + 1] /\ v4' = v4
      BY <2>6 DEF RE!WriteReport
    <3>2. v7' = [v7 EXCEPT !.written = n + 1, !.found = v7.found]
      BY <1>2, <3>1, CommandFields
    <3>3. /\ v7'.at = "write" /\ v7'.found = v7.found /\ v7'.written = n + 1 /\ v7'.verified = v7.verified
          /\ Onward(v7, v7') /\ RE!CommandInv'
      BY <2>4, <2>5, <3>2
    <3>4. /\ DOMAIN v3' = {"run", "fresh", "files"} /\ v3'.run = v3.run /\ v3'.fresh = v3.fresh
          /\ RE!Present \subseteq RE!Present' /\ RE!Present' \subseteq RE!Names
          /\ {"report"} \subseteq RE!Present' /\ RE!Has("report")' /\ \A m \in RE!Names : RE!Has(m) => RE!Has(m)'
      BY <1>2, <1>8, <3>1, <3>3, WithKeeps DEF Onward
    <3>5. RE!FilesInv' /\ RE!OwnInv'
      <4>1. (RE!Writing(3)' => RE!Writing(3)) /\ (RE!Writing(4)' => RE!Writing(4))
        BY <2>1, <2>6, <3>3 DEF RE!Writing
      <4>2. (RE!Writing(2) => "report" \in RE!Present) /\ (RE!Writing(3) => "remedies" \in RE!Present)
        BY <1>2 DEF RE!FilesInv
      <4>3. RE!Beyond({})' = RE!Beyond({}) /\ RE!Beyond({"audit"})' = RE!Beyond({"audit"})
            /\ RE!Beyond({"audit", "scores"})' = RE!Beyond({"audit", "scores"})
            /\ RE!Beyond({"audit", "scores", "index"})' = RE!Beyond({"audit", "scores", "index"})
        BY <2>1, <3>3 DEF RE!Beyond, Onward
      <4> QED BY <1>2, <2>3, <3>1, <3>3, <3>4, <4>1, <4>2, <4>3, TheNames DEF RE!FilesInv, RE!OwnInv, Onward
    <3>6. RE!FoundInv'
      <4>1. v5'.area = v7.area /\ v5'.found = v7.found /\ v5'.saw = (IF v7.edited THEN None ELSE v1)
        BY <3>1
      <4>2. v5'.area = "all" /\ RE!Passed(v5'.found) /\ v5'.saw # None =>
              "broken" \notin v5'.saw /\ \A f \in v5'.saw : "all" \in RE!AreasOf(f) => f \in v5'.found
        <5> SUFFICES ASSUME v7.area = "all", RE!Passed(v7.found), ~v7.edited
                     PROVE  "broken" \notin v1 /\ \A f \in v1 : "all" \in RE!AreasOf(f) => f \in v7.found
          BY <4>1
        <5>1. "failed" \notin v7.found
          BY DEF RE!Passed, RE!Severity
        <5>2. v7.name = "doctor" \/ RE!Beyond({})
          BY <2>1, <2>3 DEF RE!Beyond
        <5>3. "broken" \notin v1
          BY <1>2, <2>1, <5>1, <5>2 DEF RE!FoundInv
        <5>4. RE!InWorkspace("all") \subseteq v7.found
          BY <1>2, <2>3 DEF RE!FoundInv
        <5> QED BY <5>3, <5>4 DEF RE!InWorkspace
      <4>3. RE!Releasing({"gather", "write", "bundle"})' /\ ~v7'.rewritten =>
              v7'.verified /\ (~v7'.edited => RE!Passed(v7'.found) /\ RE!Passed(v5'.found))
        BY <1>2, <2>1, <3>3, <4>1 DEF RE!FoundInv, RE!Releasing, Onward
      <4> QED BY <1>2, <2>1, <2>3, <3>3, <4>2, <4>3
              DEF RE!FoundInv, RE!Beyond, RE!Releasing, RE!InWorkspace, Onward
    <3> QED BY <1>2, <2>1, <3>3, <3>5, <3>6 DEF RE!Undisturbed, RE!BundleIsWhole, RE!BundleIsHealthy
  <2>7. CASE RE!WriteRemedies /\ n \in {2, 5}
    <3>1. v3' = RE!With({"remedies"}) /\ v7' = [v7 EXCEPT !.written = n + 1] /\ UNCHANGED <<v4, v5>>
      BY <2>7 DEF RE!WriteRemedies
    <3>2. v7' = [v7 EXCEPT !.written = n + 1, !.found = v7.found]
      BY <1>2, <3>1, CommandFields
    <3>3. /\ v7'.at = "write" /\ v7'.found = v7.found /\ v7'.written = n + 1 /\ v7'.verified = v7.verified
          /\ Onward(v7, v7') /\ RE!CommandInv'
      BY <2>4, <2>5, <3>2
    <3>4. /\ DOMAIN v3' = {"run", "fresh", "files"} /\ v3'.run = v3.run /\ v3'.fresh = v3.fresh
          /\ RE!Present \subseteq RE!Present' /\ RE!Present' \subseteq RE!Names
          /\ {"remedies"} \subseteq RE!Present' /\ RE!Has("remedies")' /\ \A m \in RE!Names : RE!Has(m) => RE!Has(m)'
      BY <1>2, <1>8, <3>1, <3>3, WithKeeps DEF Onward
    <3>5. RE!FilesInv' /\ RE!OwnInv'
      <4>1. RE!Writing(2) /\ (RE!Writing(4)' => RE!Writing(4))
        BY <2>1, <2>7, <3>3 DEF RE!Writing
      <4>2. "report" \in RE!Present /\ (~v7.rewritten /\ RE!Beyond({}) => RE!Has("report"))
        BY <1>2, <4>1 DEF RE!FilesInv, RE!OwnInv
      <4>3. RE!Beyond({})' = RE!Beyond({}) /\ RE!Beyond({"audit"})' = RE!Beyond({"audit"})
            /\ RE!Beyond({"audit", "scores"})' = RE!Beyond({"audit", "scores"})
            /\ RE!Beyond({"audit", "scores", "index"})' = RE!Beyond({"audit", "scores", "index"})
        BY <2>1, <3>3 DEF RE!Beyond, Onward
      <4> QED BY <1>2, <2>3, <3>1, <3>3, <3>4, <4>1, <4>2, <4>3, TheNames DEF RE!FilesInv, RE!OwnInv, Onward
    <3>6. RE!FoundInv'
      <4>1. RE!Writing(2)
        BY <2>1, <2>7 DEF RE!Writing
      <4> QED BY <1>2, <2>1, <2>3, <3>1, <3>3, <4>1
              DEF RE!FoundInv, RE!Beyond, RE!Releasing, RE!InWorkspace, Onward
    <3> QED BY <1>2, <2>1, <3>1, <3>3, <3>5, <3>6 DEF RE!Undisturbed, RE!BundleIsWhole, RE!BundleIsHealthy
  <2>8. CASE RE!WriteIndex /\ n = 3
    <3> DEFINE named == RE!DoctorIndex
               found == IF v7.verified THEN v7.found \cup RE!Missing(named) ELSE v7.found
    <3>1. /\ v7' = [v7 EXCEPT !.written = n + 1, !.found = found] /\ UNCHANGED <<v3, v5>>
          /\ v4' = IF v7.verified THEN named ELSE v4
      <4>1. CASE v7.verified
        BY <2>8, <4>1 DEF RE!WriteIndex
      <4>2. CASE ~v7.verified
        <5>1. v7' = [v7 EXCEPT !.written = n + 1] /\ v4' = v4 /\ UNCHANGED <<v3, v5>>
          BY <2>8, <4>2 DEF RE!WriteIndex
        <5>2. v7' = [v7 EXCEPT !.written = n + 1, !.found = v7.found]
          BY <1>2, <5>1, CommandFields
        <5> QED BY <4>2, <5>1, <5>2
      <4> QED BY <4>1, <4>2
    <3>2. RE!Writing(3) /\ RE!Writing(2)
      BY <2>1, <2>8 DEF RE!Writing
    <3>3. /\ {"report", "remedies"} \subseteq RE!Present /\ (RE!Audits(v7.area) => "audit" \in RE!Present)
          /\ v7.verified => "build" \in RE!Present
          /\ RE!Beyond({}) /\ ~v7.rewritten => RE!Has("report") /\ RE!Has("remedies")
      BY <1>2, <2>3, <3>2 DEF RE!FilesInv, RE!OwnInv
    <3>4. /\ v7.verified => named \subseteq RE!Present
          /\ {"build", "report", "remedies"} \subseteq named
          /\ v4 # None => v4 \cap {"scoreboard", "matrix", "audit"} \subseteq named
      BY <1>2, <3>3 DEF RE!DoctorIndex, RE!FilesInv
    <3>5. RE!Missing(named) \subseteq {"missing"}
      BY DEF RE!Missing
    <3> HIDE DEF named
    <3>6. /\ found \in SUBSET (Flaws \cup {"failed", "invalid", "missing"}) /\ v7.found \subseteq found
          /\ found \subseteq v7.found \cup {"missing"}
      BY <2>5, <3>5
    <3> HIDE DEF found
    <3>7. /\ v7'.at = "write" /\ v7'.found = found /\ v7'.written = n + 1 /\ v7'.verified = v7.verified
          /\ Onward(v7, v7') /\ RE!CommandInv' /\ (RE!Passed(v7.found) => RE!Passed(found))
      BY <2>4, <3>1, <3>6
    <3>8. RE!FilesInv' /\ RE!OwnInv'
      <4>1. v7.verified => named # None
        <5>1. RE!Present \subseteq RE!Names
          BY <1>2 DEF RE!FilesInv
        <5> QED BY <3>4, <5>1, NoneAssumption
      <4>2. /\ v4' # None => v4' \subseteq RE!Present
            /\ ~v7.rewritten /\ RE!Beyond({"audit", "scores", "index"}) =>
                 v4' # None /\ {"scoreboard", "matrix", "audit"} \subseteq v4'
            /\ v7.verified => v4' # None /\ {"build", "report", "remedies"} \subseteq v4'
        BY <1>2, <3>1, <3>4, <4>1 DEF RE!FilesInv, RE!OwnInv
      <4>3. RE!Beyond({})' = RE!Beyond({}) /\ RE!Beyond({"audit"})' = RE!Beyond({"audit"})
            /\ RE!Beyond({"audit", "scores"})' = RE!Beyond({"audit", "scores"})
            /\ RE!Beyond({"audit", "scores", "index"})' = RE!Beyond({"audit", "scores", "index"})
        BY <2>1, <3>7 DEF RE!Beyond, Onward
      <4>4. RE!Present' = RE!Present /\ \A m \in RE!Names : RE!Has(m)' = RE!Has(m)
        BY <3>1, <3>7 DEF RE!Present, RE!Has, Onward
      <4> QED BY <1>2, <2>3, <3>1, <3>2, <3>3, <3>7, <4>2, <4>3, <4>4, TheNames DEF RE!FilesInv, RE!OwnInv, Onward
    <3>9. RE!FoundInv'
      BY <1>2, <2>1, <2>3, <3>1, <3>2, <3>6, <3>7
         DEF RE!FoundInv, RE!Beyond, RE!Releasing, RE!InWorkspace, Onward
    <3> QED BY <1>2, <2>1, <3>1, <3>7, <3>8, <3>9 DEF RE!Undisturbed, RE!BundleIsWhole, RE!BundleIsHealthy
  <2> QED BY <2>2, <2>6, <2>7, <2>8
<1>18. CASE RE!DoctorDone
  <2>1. CASE RE!Ended
    BY <1>1, <1>18, <2>1, CommandEnds DEF RE!DoctorDone
  <2>2. CASE ~RE!Ended
    <3>1. /\ v7.at = "write" /\ v7.written > 5 /\ v7.name = "release" /\ v7' = [v7 EXCEPT !.at = "bundle"]
          /\ UNCHANGED <<v1, v3, v4, v5, v6>>
      BY <1>16, <1>18, <2>2 DEF RE!DoctorDone
    <3>2. /\ v7'.at = "bundle" /\ v7'.found = v7.found /\ v7'.verified = v7.verified /\ v7'.written = v7.written
          /\ Onward(v7, v7')
      BY <1>2, <3>1 DEF RE!Commands, Onward
    <3>3. v7.written = 6
      BY <1>2, <3>1, CommandFields
    <3>4. RE!CommandInv'
      BY <1>2, <3>1, <3>2, <3>3 DEF RE!CommandInv, Onward
    <3>5. RE!FilesInv' /\ RE!OwnInv'
      BY <1>2, <3>1, <3>2 DEF RE!FilesInv, RE!OwnInv, RE!Beyond, RE!Writing, RE!Has, RE!Present, Onward
    <3>6. RE!FoundInv'
      BY <1>2, <3>1, <3>2 DEF RE!FoundInv, RE!Beyond, RE!Writing, RE!Releasing, RE!InWorkspace, Onward
    <3> QED BY <1>2, <3>1, <3>4, <3>5, <3>6 DEF RE!Undisturbed, RE!BundleIsWhole, RE!BundleIsHealthy
  <2> QED BY <2>1, <2>2
<1>19. CASE RE!Bundle
  <2> DEFINE items == [n \in v4 \cap RE!Present |-> v3.files[n]]
  <2>1. /\ v7.at = "bundle" /\ RE!Ended /\ UNCHANGED <<v1, v3, v4, v5>>
        /\ v6' = [run |-> v7.built, elsewhere |-> FALSE, passed |-> RE!Passed(v5.found),
                  rewritten |-> v7.rewritten, edited |-> v7.edited, items |-> items]
    BY <1>19 DEF RE!Bundle
  <2>2. v7.name = "release" /\ v7.written = 6
    BY <1>2, <2>1 DEF RE!CommandInv
  <2>3. RE!Beyond({"audit", "scores", "index"}) /\ RE!Beyond({"audit", "scores"}) /\ RE!Beyond({"audit"})
        /\ RE!Beyond({}) /\ RE!Writing(2) /\ RE!Writing(3) /\ RE!Writing(4)
        /\ RE!Releasing({"gather", "write", "bundle"})
    BY <2>1, <2>2 DEF RE!Beyond, RE!Writing, RE!Releasing
  <2>4. ~v7.rewritten => v7.built = v7.run /\ \A n \in RE!Names : RE!Has(n)
    BY <1>2, <2>3, TheNames DEF RE!OwnInv
  <2>5. ~v7.rewritten => v7.verified
    BY <1>2, <2>3 DEF RE!FoundInv
  <2>6. ~v7.rewritten => RE!RequiredForRelease \subseteq v4
    BY <1>2, <2>3, <2>5 DEF RE!OwnInv, RE!RequiredForRelease
  <2>7. RE!Present \subseteq RE!Names /\ RE!RequiredForRelease \subseteq RE!Names
    BY <1>2, TheNames DEF RE!FilesInv, RE!RequiredForRelease
  <2>8. ~v7.rewritten => /\ RE!RequiredForRelease \subseteq DOMAIN items
                         /\ \A n \in DOMAIN items : items[n] = v7.built
    BY <2>4, <2>6, <2>7 DEF RE!Has
  <2>9. ~v7.rewritten /\ ~v7.edited => RE!Passed(v5.found)
    BY <1>2, <2>3 DEF RE!FoundInv
  <2> HIDE DEF items
  <2>10. /\ v6'.run = v7.built /\ v6'.elsewhere = FALSE /\ (v6'.passed <=> RE!Passed(v5.found)) /\ v6'.rewritten = v7.rewritten
         /\ v6'.edited = v7.edited /\ v6'.items = items
    BY <2>1
  <2>11. RE!BundleIsWhole' /\ RE!BundleIsHealthy'
    BY <2>8, <2>9, <2>10 DEF RE!Undisturbed, RE!BundleIsWhole, RE!BundleIsHealthy
  <2>12. RE!CommandInv' /\ RE!FilesInv' /\ RE!OwnInv' /\ RE!FoundInv'
    BY <1>1, <2>1, CommandEnds
  <2> QED BY <2>11, <2>12
<1>20. ASSUME NEW f \in Flaws, RE!Edit(f) PROVE RE!Inv'
  <2>1. /\ v1' \subseteq Flaws /\ UNCHANGED <<v3, v4, v5, v6>>
        /\ IF v7.at = "none" THEN v7' = v7 ELSE v7' = [v7 EXCEPT !.edited = TRUE]
    BY <1>2, <1>20 DEF RE!Edit, RE!CommandInv
  <2>2. /\ v7' \in RE!Commands /\ v7'.name = v7.name /\ v7'.at = v7.at /\ v7'.area = v7.area
        /\ v7'.found = v7.found /\ v7'.verified = v7.verified /\ v7'.written = v7.written
        /\ v7'.rewritten = v7.rewritten /\ v7'.built = v7.built /\ v7'.run = v7.run
        /\ (v7.at # "none" => v7'.edited)
    <3>1. CASE v7.at = "none"
      BY <1>2, <2>1, <3>1
    <3>2. CASE v7.at # "none"
      <4>1. v7' = [name |-> v7.name, at |-> v7.at, area |-> v7.area, built |-> v7.built, run |-> v7.run, verified |-> v7.verified, found |-> v7.found,
                   written |-> v7.written, rewritten |-> v7.rewritten, edited |-> TRUE]
        BY <1>2, <2>1, <3>2, CommandFields
      <4> QED BY <1>2, <4>1, CommandFields DEF RE!Commands
    <3> QED BY <3>1, <3>2
  <2>3. RE!CommandInv'
    BY <1>2, <2>1, <2>2 DEF RE!CommandInv
  <2>4. RE!FilesInv' /\ RE!OwnInv'
    BY <1>2, <2>1, <2>2 DEF RE!FilesInv, RE!OwnInv, RE!Beyond, RE!Writing, RE!Has, RE!Present
  <2>5. RE!FoundInv'
    BY <1>2, <2>1, <2>2 DEF RE!FoundInv, RE!Beyond, RE!Writing, RE!Releasing
  <2> QED BY <1>2, <2>1, <2>3, <2>4, <2>5 DEF RE!Undisturbed, RE!BundleIsWhole, RE!BundleIsHealthy
<1>21. CASE RE!ServerRewrites
  <2>1. /\ v3' = [v3 EXCEPT !.fresh = FALSE] /\ UNCHANGED <<v1, v4, v5, v6>>
        /\ IF v7.at = "none" THEN v7' = v7 ELSE v7' = [v7 EXCEPT !.rewritten = TRUE]
    BY <1>21 DEF RE!ServerRewrites
  <2>2. /\ v7' \in RE!Commands /\ v7'.name = v7.name /\ v7'.at = v7.at /\ v7'.area = v7.area
        /\ v7'.found = v7.found /\ v7'.verified = v7.verified /\ v7'.written = v7.written
        /\ v7'.edited = v7.edited /\ v7'.built = v7.built /\ v7'.run = v7.run
        /\ (v7.at # "none" => v7'.rewritten)
    <3>1. CASE v7.at = "none"
      BY <1>2, <2>1, <3>1
    <3>2. CASE v7.at # "none"
      <4>1. v7' = [name |-> v7.name, at |-> v7.at, area |-> v7.area, built |-> v7.built, run |-> v7.run, verified |-> v7.verified, found |-> v7.found,
                   written |-> v7.written, rewritten |-> TRUE, edited |-> v7.edited]
        BY <1>2, <2>1, <3>2, CommandFields
      <4> QED BY <1>2, <4>1, CommandFields DEF RE!Commands
    <3> QED BY <3>1, <3>2
  <2>3. DOMAIN v3' = {"run", "fresh", "files"} /\ v3'.run = v3.run /\ v3'.files = v3.files
    BY <1>2, <2>1 DEF RE!FilesInv
  <2>4. RE!Present' = RE!Present /\ \A n \in RE!Names : RE!Has(n)' = RE!Has(n)
    BY <2>2, <2>3 DEF RE!Present, RE!Has
  <2>5. RE!CommandInv'
    BY <1>2, <2>1, <2>2 DEF RE!CommandInv
  <2>6. RE!FilesInv' /\ RE!OwnInv'
    BY <1>2, <2>1, <2>2, <2>3, <2>4, TheNames DEF RE!FilesInv, RE!OwnInv, RE!Beyond, RE!Writing
  <2>7. RE!FoundInv'
    BY <1>2, <2>1, <2>2 DEF RE!FoundInv, RE!Beyond, RE!Writing, RE!Releasing, RE!InWorkspace
  <2> QED BY <1>2, <2>1, <2>5, <2>6, <2>7 DEF RE!Undisturbed, RE!BundleIsWhole, RE!BundleIsHealthy
<1>22. CASE RE!OtherBuild
  <2> DEFINE h == RE!Holding({"build"}, v3.run + 1)
  <2>1. /\ v7.at # "none" /\ v4' = {"build"} /\ UNCHANGED <<v1, v5, v6>>
        /\ v3' = [run |-> v3.run + 1, fresh |-> TRUE, files |-> h]
        /\ v7' = [v7 EXCEPT !.rewritten = TRUE]
    BY <1>22 DEF RE!OtherBuild, RE!NewBuild
  <2>2. DOMAIN h = {"build"} \cup RE!Present
    BY DEF RE!Holding
  <2> HIDE DEF h
  <2>3. /\ DOMAIN v3' = {"run", "fresh", "files"} /\ v3'.run = v3.run + 1 /\ v3'.files = h
        /\ v3'.run \in Nat /\ v3'.run > 0
    BY <1>2, <2>1 DEF RE!FilesInv
  <2>4. RE!Present' = {"build"} \cup RE!Present /\ RE!Present' \subseteq RE!Names
    BY <1>2, <2>2, <2>3, TheNames DEF RE!Present, RE!FilesInv
  <2>5. /\ v7' \in RE!Commands /\ v7'.name = v7.name /\ v7'.at = v7.at /\ v7'.area = v7.area
        /\ v7'.found = v7.found /\ v7'.verified = v7.verified /\ v7'.written = v7.written
        /\ v7'.edited = v7.edited /\ v7'.rewritten
    <3>1. v7' = [name |-> v7.name, at |-> v7.at, area |-> v7.area, built |-> v7.built, run |-> v7.run,
                 verified |-> v7.verified, found |-> v7.found, written |-> v7.written, rewritten |-> TRUE,
                 edited |-> v7.edited]
      BY <1>2, <2>1, CommandFields
    <3> QED BY <1>2, <3>1, CommandFields DEF RE!Commands
  <2>6. RE!CommandInv'
    BY <1>2, <2>1, <2>5 DEF RE!CommandInv
  <2>7. RE!FilesInv'
    BY <1>2, <2>1, <2>3, <2>4, <2>5 DEF RE!FilesInv, RE!Beyond, RE!Writing
  <2>8. RE!OwnInv'
    BY <2>5 DEF RE!OwnInv
  <2>9. RE!FoundInv'
    BY <1>2, <2>1, <2>5 DEF RE!FoundInv, RE!Beyond, RE!Writing, RE!Releasing, RE!InWorkspace
  <2> QED BY <1>2, <2>1, <2>6, <2>7, <2>8, <2>9 DEF RE!Undisturbed, RE!BundleIsWhole, RE!BundleIsHealthy
<1>23. CASE RE!LoadElsewhere
  <2>1. RE!Ended /\ UNCHANGED <<v1, v3, v4, v5>> /\ (v6' = v6 \/ v6' = [run |-> v7.built, elsewhere |-> TRUE])
    BY <1>23 DEF RE!LoadElsewhere
  <2>2. RE!CommandInv' /\ RE!FilesInv' /\ RE!OwnInv' /\ RE!FoundInv' /\ (v6' = v6 => RE!Inv')
    BY <1>1, <2>1, CommandEnds
  <2>3. CASE v6' = [run |-> v7.built, elsewhere |-> TRUE]
    <3>1. v6'.elsewhere
      BY <2>3
    <3> QED BY <2>2, <3>1 DEF RE!Undisturbed, RE!BundleIsWhole, RE!BundleIsHealthy
  <2> QED BY <2>1, <2>2, <2>3
<1> QED BY <1>1, <1>3, <1>4, <1>5, <1>6, <1>7, <1>9, <1>10, <1>11, <1>12, <1>13, <1>14, <1>15, <1>17, <1>18,
           <1>19, <1>20, <1>21, <1>22, <1>23 DEF RE!Next, RE!Step

LEMMA EvidenceAlways == Spec => []EvidenceInv
BY EvidenceInit, EvidenceNext, PTL DEF Spec

\* A full examination that passed has seen no error, of whatever area.
LEMMA EvidenceSays ==
  EvidenceInv => RE_EvidenceIsThere /\ RE_BundleIsWhole /\ RE_BundleIsHealthy /\ RE_FullExaminationSpeaksForAll
<1> SUFFICES ASSUME which = "evidence", RE!Inv
             PROVE  /\ RE!EvidenceIsThere /\ RE!BundleIsWhole /\ RE!BundleIsHealthy
                    /\ RE!FullExaminationSpeaksForAll
  BY DEF EvidenceInv, RE_EvidenceIsThere, RE_BundleIsWhole, RE_BundleIsHealthy, RE_FullExaminationSpeaksForAll
<1>1. RE!EvidenceIsThere
  BY DEF RE!Inv, RE!FilesInv, RE!EvidenceIsThere
<1>2. RE!FullExaminationSpeaksForAll
  <2> SUFFICES ASSUME v5 # None, v5.area = "all", RE!Passed(v5.found), v5.saw # None, v5.saw = v1,
                      NEW area \in Areas
               PROVE  RE!Passed({f \in v1 : area \in RE!AreasOf(f)}) /\ "broken" \notin v1
    BY DEF RE!FullExaminationSpeaksForAll
  <2>1. "broken" \notin v1 /\ \A f \in v1 : "all" \in RE!AreasOf(f) => f \in v5.found
    BY DEF RE!Inv, RE!FoundInv
  <2>2. ASSUME NEW f \in v1, area \in RE!AreasOf(f) PROVE RE!Severity(f) # "error"
    <3> SUFFICES ASSUME RE!Severity(f) = "error" PROVE FALSE
      OBVIOUS
    <3>1. f \in {"failed", "invalid", "package"}
      BY DEF RE!Severity
    <3>2. f = "package"
      BY <2>2, <3>1 DEF RE!AreasOf
    <3>3. f \in v5.found
      BY <2>1, <3>2 DEF RE!AreasOf
    <3> QED BY <3>3 DEF RE!Passed
  <2> QED BY <2>1, <2>2 DEF RE!Passed
<1> QED BY <1>1, <1>2 DEF RE!Inv

-----------------------------------------------------------------------------
(* The diffs of two builds and of two releases.                            *)
InspectInv == which = "inspect" => AI!Inv
inspect == <<v1, v2, v3, v4, v5, v6, v7>>

LEMMA InspectSteps ==
  ASSUME [Next]_all, which' = "inspect"
  PROVE  which = "inspect" /\ [AI!Next]_inspect
BY DEF Next, all, shared, inspect

\* What a diff loads, in order.
LEMMA TheLoads ==
  /\ Len(AI!LoadPlan) = 4 /\ AI!LoadPlan[1] = "current" /\ AI!LoadPlan[2] = "baseline"
  /\ AI!LoadPlan[3] = "current" /\ AI!LoadPlan[4] = "baseline"
  /\ \A i \in 1 .. 4 : AI!LoadPlan[i] \in AI!Dirs
<1>1. /\ Len(AI!LoadPlan) = 4 /\ AI!LoadPlan[1] = "current" /\ AI!LoadPlan[2] = "baseline"
      /\ AI!LoadPlan[3] = "current" /\ AI!LoadPlan[4] = "baseline"
  BY DEF AI!LoadPlan
<1>2. \A i \in 1 .. 4 : i = 1 \/ i = 2 \/ i = 3 \/ i = 4
  OBVIOUS
<1> QED BY <1>1, <1>2 DEF AI!Dirs

LEMMA FewLoads ==
  ASSUME NEW n \in Nat, n < 4
  PROVE  n \in 0 .. 3 /\ n + 1 \in 1 .. 4
OBVIOUS

LEMMA InspectInit == Init => InspectInv
<1> SUFFICES ASSUME AI!Init PROVE AI!Inv
  BY DEF Init, InspectInv
<1>1. PICK f \in [AI!Dirs -> {AI!Whole(b) : b \in AI!Maybe}] : v1 = f
  BY DEF AI!Init, AI!Maybe
<1>2. ASSUME NEW d \in AI!Dirs
      PROVE  v1[d] \in AI!Directories /\ v1[d].deploy = v1[d].rest /\ v1[d].signed = v1[d].rest
  <2>1. PICK b \in AI!Maybe : v1[d] = AI!Whole(b)
    BY <1>1
  <2> QED BY <2>1 DEF AI!Whole, AI!Directories
<1>3. AI!DiskInv /\ AI!OneBuild
  BY <1>1, <1>2 DEF AI!DiskInv, AI!OneBuild
<1>4. v2 = <<>> /\ v3 = None /\ DOMAIN v5 = AI!Ids /\ v6 = None
  BY DEF AI!Init
<1>5. AI!LoadsInv
  BY <1>4, TheLoads DEF AI!LoadsInv
<1>6. AI!QuietInv /\ AI!ReleasesInv
  BY <1>3, <1>4 DEF AI!QuietInv, AI!ReleasesInv, AI!ReleaseDiffIsOfTheBaseline
<1> QED BY <1>3, <1>5, <1>6 DEF AI!Inv

\* A step of a build: what is loaded stays as it is.
LEMMA BuildStepKeeps ==
  ASSUME AI!Inv, NEW d \in AI!Dirs, NEW new \in AI!Directories, v1' = [v1 EXCEPT ![d] = new],
         v1[d].rest # None => new.rest # None, new.deploy # None => new.rest # None,
         v4' = FALSE, UNCHANGED <<v2, v3, v5, v6>>
  PROVE  AI!Inv'
<1>1. AI!DiskInv /\ AI!LoadsInv /\ AI!ReleasesInv
  BY DEF AI!Inv
<1>2. v1' \in [AI!Dirs -> AI!Directories] /\ \A e \in AI!Dirs : v1'[e] = IF e = d THEN new ELSE v1[e]
  BY <1>1 DEF AI!DiskInv
<1>3. AI!DiskInv'
  BY <1>1, <1>2 DEF AI!DiskInv
<1>4. AI!LoadsInv'
  <2>1. v3 # None => AI!Loading \in AI!Dirs /\ v1'[AI!Loading].rest # None
    <3> SUFFICES ASSUME v3 # None PROVE AI!Loading \in AI!Dirs /\ v1'[AI!Loading].rest # None
      OBVIOUS
    <3>1. v2 \in Seq(AI!Contexts) /\ Len(v2) < 4 /\ v1[AI!Loading].rest # None
      BY <1>1, TheLoads DEF AI!LoadsInv
    <3>2. Len(v2) \in Nat
      BY <3>1
    <3>3. AI!Loading \in AI!Dirs
      BY <3>1, <3>2, FewLoads, TheLoads DEF AI!Loading
    <3> QED BY <1>2, <3>1, <3>3
  <2> QED BY <1>1, <2>1 DEF AI!LoadsInv, AI!Loading
<1>5. AI!QuietInv' /\ AI!ReleasesInv'
  BY <1>1 DEF AI!QuietInv, AI!ReleasesInv, AI!ReleaseDiffIsOfTheBaseline
<1> QED BY <1>3, <1>4, <1>5 DEF AI!Inv

\* A directory of which a build has written one part.
LEMMA PartWritten ==
  ASSUME NEW old \in AI!Directories, NEW y, NEW x
  PROVE  /\ x = [old EXCEPT !.deploy = y] =>
              x = [deploy |-> y, rest |-> old.rest, signed |-> old.signed, examined |-> old.examined]
         /\ x = [old EXCEPT !.signed = y] =>
              x = [deploy |-> old.deploy, rest |-> old.rest, signed |-> y, examined |-> old.examined]
         /\ x = [old EXCEPT !.rest = y] =>
              x = [deploy |-> old.deploy, rest |-> y, signed |-> old.signed, examined |-> old.examined]
<1>1. old = [deploy |-> old.deploy, rest |-> old.rest, signed |-> old.signed, examined |-> old.examined]
  BY DEF AI!Directories
<1> QED BY <1>1

LEMMA InspectNext == InspectInv /\ [Next]_all => InspectInv'
<1> SUFFICES ASSUME InspectInv, [Next]_all, which' = "inspect"
             PROVE  AI!Inv'
  BY DEF InspectInv
<1>1. which = "inspect" /\ [AI!Next]_inspect
  BY InspectSteps
<1>2. AI!DiskInv /\ AI!LoadsInv /\ AI!QuietInv /\ AI!ReleasesInv /\ AI!Inv
  BY <1>1 DEF InspectInv, AI!Inv
<1>3. CASE UNCHANGED inspect
  BY <1>2, <1>3 DEF inspect, AI!Inv, AI!DiskInv, AI!LoadsInv, AI!QuietInv, AI!ReleasesInv, AI!OneBuild, AI!Loading,
                    AI!ReleaseDiffIsOfTheBaseline, AI!Kept, AI!Found
<1>4. ASSUME NEW d \in AI!Dirs
      PROVE  v1[d] \in AI!Directories
  BY <1>2 DEF AI!DiskInv
<1>5. ASSUME NEW d \in AI!Dirs, AI!Deploy(d) PROVE AI!Inv'
  <2> DEFINE new == [deploy |-> v1[d].rest, rest |-> v1[d].rest, signed |-> v1[d].signed,
                     examined |-> v1[d].examined]
  <2>1. v1' = [v1 EXCEPT ![d] = new] /\ v4' = FALSE /\ UNCHANGED <<v2, v3, v5, v6>>
    <3>1. ASSUME NEW x, x = [v1[d] EXCEPT !.deploy = v1[d].rest] PROVE x = new
      BY <1>4, <3>1, PartWritten
    <3> HIDE DEF new
    <3> QED BY <1>5, <3>1 DEF AI!Deploy
  <2>2. new \in AI!Directories
    BY <1>4 DEF AI!Directories
  <2> QED BY <1>2, <2>1, <2>2, BuildStepKeeps
<1>6. ASSUME NEW d \in AI!Dirs, AI!Sign(d) PROVE AI!Inv'
  <2> DEFINE new == [deploy |-> v1[d].deploy, rest |-> v1[d].rest, signed |-> v1[d].rest,
                     examined |-> v1[d].examined]
  <2>1. v1' = [v1 EXCEPT ![d] = new] /\ v4' = FALSE /\ UNCHANGED <<v2, v3, v5, v6>>
    <3>1. ASSUME NEW x, x = [v1[d] EXCEPT !.signed = v1[d].rest] PROVE x = new
      BY <1>4, <3>1, PartWritten
    <3> HIDE DEF new
    <3> QED BY <1>6, <3>1 DEF AI!Sign
  <2>2. new \in AI!Directories /\ (new.deploy # None => new.rest # None)
    BY <1>2, <1>4 DEF AI!Directories, AI!DiskInv
  <2> QED BY <1>2, <2>1, <2>2, BuildStepKeeps
<1>7. ASSUME NEW d \in AI!Dirs, NEW b \in Builds, AI!Build(d, b) PROVE AI!Inv'
  <2> DEFINE new == [deploy |-> v1[d].deploy, rest |-> b, signed |-> v1[d].signed, examined |-> v1[d].examined]
  <2>1. v1' = [v1 EXCEPT ![d] = new] /\ v4' = FALSE /\ UNCHANGED <<v2, v3, v5, v6>>
    <3>1. ASSUME NEW x, x = [v1[d] EXCEPT !.rest = b] PROVE x = new
      BY <1>4, <3>1, PartWritten
    <3> HIDE DEF new
    <3> QED BY <1>7, <3>1 DEF AI!Build
  <2>2. new \in AI!Directories /\ new.rest # None
    BY <1>4, NoneAssumption DEF AI!Directories, AI!Maybe
  <2> QED BY <1>2, <2>1, <2>2, BuildStepKeeps
\* What the two ways to begin a context have in common.
<1>8. ASSUME AI!LoadFirst \/ AI!LoadBuilding
      PROVE  /\ Len(v2) \in 0 .. 3 /\ v3 = None /\ UNCHANGED <<v2, v4, v5, v6>> /\ Len(v2) + 1 \in 1 .. 4
             /\ AI!Loading = AI!LoadPlan[Len(v2) + 1] /\ AI!Loading \in AI!Dirs /\ AI!Loading' = AI!Loading
             /\ v1[AI!Loading] \in AI!Directories /\ DOMAIN v2 = 1 .. Len(v2) /\ AI!ReleasesInv'
  <2>1. v2 \in Seq(AI!Contexts)
    BY <1>2 DEF AI!LoadsInv
  <2>2. Len(v2) \in Nat /\ DOMAIN v2 = 1 .. Len(v2)
    BY <2>1
  <2>3. Len(v2) < 4 /\ v3 = None /\ UNCHANGED <<v2, v4, v5, v6>>
    BY <1>8, TheLoads DEF AI!LoadFirst, AI!LoadBuilding
  <2>4. Len(v2) \in 0 .. 3 /\ Len(v2) + 1 \in 1 .. 4
    BY <2>2, <2>3, FewLoads
  <2>5. AI!Loading = AI!LoadPlan[Len(v2) + 1] /\ AI!Loading' = AI!Loading
    BY <2>3 DEF AI!Loading
  <2>6. AI!Loading \in AI!Dirs
    BY <2>4, <2>5, TheLoads
  <2>7. AI!ReleasesInv'
    BY <1>2, <2>3 DEF AI!ReleasesInv, AI!ReleaseDiffIsOfTheBaseline
  <2> QED BY <1>4, <2>2, <2>3, <2>4, <2>5, <2>6, <2>7
<1>9. CASE AI!LoadFirst
  <2> DEFINE new == [deploy |-> v1[AI!Loading].deploy, rest |-> None, signed |-> None, built |-> FALSE]
  <2>1. AI!Found(AI!Loading) /\ v3' = new /\ v1' = v1 /\ v1[AI!Loading].deploy # None
    BY <1>9 DEF AI!LoadFirst, AI!Found
  <2>2. new \in AI!Contexts
    BY <1>8, <1>9, <2>1 DEF AI!Contexts, AI!Directories, AI!Maybe
  <2>3. new.deploy = v1[AI!Loading].deploy /\ new.rest = None
    OBVIOUS
  <2> HIDE DEF new
  <2>4. AI!DiskInv'
    BY <1>2, <2>1 DEF AI!DiskInv
  <2>5. AI!LoadsInv'
    BY <1>2, <1>8, <1>9, <2>1, <2>2, TheLoads DEF AI!LoadsInv, AI!DiskInv
  <2>6. AI!QuietInv'
    <3> SUFFICES ASSUME v4
                 PROVE  /\ AI!OneBuild'
                        /\ \A i \in DOMAIN v2' : AI!Kept(i, v2[i])' /\ v2'[i].signed = v2'[i].rest
                        /\ v3' # None => AI!Kept(Len(v2) + 1, v3)'
      BY <1>8, <1>9 DEF AI!QuietInv
    <3>1. AI!OneBuild /\ \A i \in DOMAIN v2 : AI!Kept(i, v2[i]) /\ v2[i].signed = v2[i].rest
      BY <1>2 DEF AI!QuietInv
    <3>2. AI!OneBuild' /\ \A i \in DOMAIN v2' : AI!Kept(i, v2[i])' /\ v2'[i].signed = v2'[i].rest
      BY <1>8, <1>9, <2>1, <3>1 DEF AI!OneBuild, AI!Kept, AI!Found
    <3>3. v1[AI!Loading].deploy = v1[AI!Loading].rest
      BY <1>8, <1>9, <3>1 DEF AI!OneBuild
    <3>4. AI!Kept(Len(v2) + 1, v3)'
      BY <1>8, <1>9, <2>1, <2>3, <3>3 DEF AI!Kept, AI!Found
    <3> QED BY <3>2, <3>4
  <2> QED BY <1>8, <1>9, <2>4, <2>5, <2>6 DEF AI!Inv
<1>10. CASE AI!LoadBuilding
  <2>1. PICK b \in (IF v1[AI!Loading].deploy = None THEN Builds ELSE {v1[AI!Loading].deploy}), c \in Builds :
          /\ v3' = [deploy |-> b, rest |-> None, signed |-> None, built |-> TRUE]
          /\ v1' = [v1 EXCEPT ![AI!Loading] = [AI!Whole(c) EXCEPT !.examined = TRUE]]
    BY <1>10 DEF AI!LoadBuilding
  <2> DEFINE whole == [deploy |-> c, rest |-> c, signed |-> c, examined |-> TRUE]
             new == [deploy |-> b, rest |-> None, signed |-> None, built |-> TRUE]
  <2>2. v1' = [v1 EXCEPT ![AI!Loading] = whole] /\ v3' = new
    <3>1. ASSUME NEW x, x = [AI!Whole(c) EXCEPT !.examined = TRUE] PROVE x = whole
      BY <3>1 DEF AI!Whole
    <3> HIDE DEF whole
    <3> QED BY <2>1, <3>1
  <2>3. whole \in AI!Directories /\ c # None /\ b \in Builds /\ new \in AI!Contexts
    <3>1. c # None /\ whole \in AI!Directories
      BY NoneAssumption DEF AI!Directories, AI!Maybe
    <3>2. b \in Builds
      BY <1>8, <1>10, <2>1 DEF AI!Directories, AI!Maybe
    <3> QED BY <3>1, <3>2 DEF AI!Contexts, AI!Maybe
  <2>4. whole.deploy = c /\ whole.rest = c /\ whole.signed = c /\ whole.examined /\ new.built /\ new.rest = None
    OBVIOUS
  <2> HIDE DEF whole, new
  <2>5. v1'[AI!Loading] = whole /\ \A e \in AI!Dirs : e # AI!Loading => v1'[e] = v1[e]
    BY <1>2, <1>8, <1>10, <2>2 DEF AI!DiskInv
  <2>6. AI!DiskInv'
    BY <1>2, <1>8, <1>10, <2>2, <2>3, <2>4, <2>5 DEF AI!DiskInv
  <2>7. AI!LoadsInv'
    BY <1>2, <1>8, <1>10, <2>2, <2>3, <2>4, <2>5, TheLoads DEF AI!LoadsInv
  <2>8. AI!QuietInv'
    <3> SUFFICES ASSUME v4
                 PROVE  /\ AI!OneBuild'
                        /\ \A i \in DOMAIN v2' : AI!Kept(i, v2[i])' /\ v2'[i].signed = v2'[i].rest
                        /\ v3' # None => AI!Kept(Len(v2) + 1, v3)'
      BY <1>8, <1>10 DEF AI!QuietInv
    <3>1. AI!OneBuild /\ \A i \in DOMAIN v2 : AI!Kept(i, v2[i]) /\ v2[i].signed = v2[i].rest
      BY <1>2 DEF AI!QuietInv
    <3>2. AI!OneBuild'
      BY <2>4, <2>5, <3>1 DEF AI!OneBuild
    <3>3. ~AI!Found(AI!Loading)
      BY <1>10 DEF AI!LoadBuilding
    <3>4. ASSUME NEW i \in DOMAIN v2 PROVE AI!LoadPlan[i] \in AI!Dirs /\ AI!LoadPlan[i] # AI!Loading
      <4>1. i \in 1 .. 4
        BY <1>8, <1>10
      <4>2. AI!Found(AI!LoadPlan[i])
        BY <3>1 DEF AI!Kept
      <4> QED BY <3>3, <4>1, <4>2, TheLoads
    <3>5. \A i \in DOMAIN v2' : AI!Kept(i, v2[i])' /\ v2'[i].signed = v2'[i].rest
      BY <1>8, <1>10, <2>5, <3>1, <3>4 DEF AI!Kept, AI!Found
    <3>6. Len(v2) + 1 <= 2
      <4> SUFFICES ASSUME Len(v2) = 2 \/ Len(v2) = 3 PROVE FALSE
        BY <1>8, <1>10
      <4>1. Len(v2) - 1 \in DOMAIN v2
        BY <1>8, <1>10
      <4>2. AI!LoadPlan[Len(v2) - 1] = AI!Loading
        BY <1>8, <1>10, TheLoads
      <4> QED BY <3>4, <4>1, <4>2
    <3>7. AI!Kept(Len(v2) + 1, v3)'
      BY <1>8, <1>10, <2>2, <2>3, <2>4, <2>5, <3>6 DEF AI!Kept, AI!Found
    <3> QED BY <3>2, <3>5, <3>7
  <2> QED BY <1>8, <1>10, <2>6, <2>7, <2>8 DEF AI!Inv
\* And the two ways to go on with one.
<1>11. ASSUME AI!LoadRest \/ AI!LoadSigned
       PROVE  /\ v3 # None /\ v3 \in AI!Contexts /\ UNCHANGED <<v1, v4, v5, v6>>
              /\ v3 = [deploy |-> v3.deploy, rest |-> v3.rest, signed |-> v3.signed, built |-> v3.built]
              /\ v2 \in Seq(AI!Contexts) /\ Len(v2) \in 0 .. 3 /\ Len(v2) + 1 \in 1 .. 4
              /\ AI!Loading = AI!LoadPlan[Len(v2) + 1] /\ AI!Loading \in AI!Dirs
              /\ v1[AI!Loading] \in AI!Directories /\ v1[AI!Loading].rest # None
              /\ AI!DiskInv' /\ AI!ReleasesInv'
  <2>1. v3 # None /\ UNCHANGED <<v1, v4, v5, v6>>
    BY <1>11 DEF AI!LoadRest, AI!LoadSigned
  <2>2. v3 \in AI!Contexts /\ Len(v2) < 4 /\ v1[AI!Loading].rest # None /\ v2 \in Seq(AI!Contexts)
    BY <1>2, <2>1, TheLoads DEF AI!LoadsInv
  <2>3. Len(v2) \in Nat
    BY <2>2
  <2>4. Len(v2) \in 0 .. 3 /\ Len(v2) + 1 \in 1 .. 4
    BY <2>2, <2>3, FewLoads
  <2>5. AI!Loading = AI!LoadPlan[Len(v2) + 1] /\ AI!Loading \in AI!Dirs
    BY <2>4, TheLoads DEF AI!Loading
  <2>6. v3 = [deploy |-> v3.deploy, rest |-> v3.rest, signed |-> v3.signed, built |-> v3.built]
    BY <2>2 DEF AI!Contexts
  <2>7. AI!DiskInv' /\ AI!ReleasesInv'
    BY <1>2, <2>1 DEF AI!DiskInv, AI!ReleasesInv, AI!ReleaseDiffIsOfTheBaseline
  <2> QED BY <1>4, <2>1, <2>2, <2>4, <2>5, <2>6, <2>7
<1>12. CASE AI!LoadRest
  <2> DEFINE new == [deploy |-> v3.deploy, rest |-> v1[AI!Loading].rest, signed |-> v3.signed,
                     built |-> v3.built]
  <2>1. v3' = [v3 EXCEPT !.rest = v1[AI!Loading].rest] /\ v2' = v2
    BY <1>12 DEF AI!LoadRest
  <2>2. v3' = new
    BY <1>11, <1>12, <2>1
  <2>3. new \in AI!Contexts
    BY <1>11, <1>12 DEF AI!Contexts, AI!Directories
  <2>4. new.deploy = v3.deploy /\ new.rest = v1[AI!Loading].rest /\ new.built = v3.built
    OBVIOUS
  <2> HIDE DEF new
  <2>5. AI!LoadsInv'
    BY <1>2, <1>11, <1>12, <2>1, <2>2, <2>3 DEF AI!LoadsInv, AI!Loading
  <2>6. AI!QuietInv'
    <3> SUFFICES ASSUME v4
                 PROVE  /\ AI!OneBuild'
                        /\ \A i \in DOMAIN v2' : AI!Kept(i, v2[i])' /\ v2'[i].signed = v2'[i].rest
                        /\ v3' # None => AI!Kept(Len(v2) + 1, v3)'
      BY <1>11, <1>12 DEF AI!QuietInv
    <3>1. /\ AI!OneBuild /\ AI!Kept(Len(v2) + 1, v3)
          /\ \A i \in DOMAIN v2 : AI!Kept(i, v2[i]) /\ v2[i].signed = v2[i].rest
      BY <1>2, <1>11, <1>12 DEF AI!QuietInv
    <3>2. AI!OneBuild' /\ \A i \in DOMAIN v2' : AI!Kept(i, v2[i])' /\ v2'[i].signed = v2'[i].rest
      BY <1>11, <1>12, <2>1, <3>1 DEF AI!OneBuild, AI!Kept, AI!Found
    <3>3. AI!Kept(Len(v2) + 1, v3)'
      BY <1>11, <1>12, <2>1, <2>2, <2>4, <3>1 DEF AI!Kept, AI!Found
    <3> QED BY <3>2, <3>3
  <2> QED BY <1>11, <1>12, <2>5, <2>6 DEF AI!Inv
<1>13. CASE AI!LoadSigned
  <2> DEFINE new == [deploy |-> v3.deploy, rest |-> v3.rest, signed |-> v1[AI!Loading].signed,
                     built |-> v3.built]
  <2>1. v3.rest # None /\ v3' = None /\ v2' = Append(v2, [v3 EXCEPT !.signed = v1[AI!Loading].signed])
    BY <1>13 DEF AI!LoadSigned
  <2>2. v2' = Append(v2, new)
    BY <1>11, <1>13, <2>1
  <2>3. new \in AI!Contexts
    BY <1>11, <1>13 DEF AI!Contexts, AI!Directories
  <2>4. new.deploy = v3.deploy /\ new.rest = v3.rest /\ new.built = v3.built
        /\ new.signed = v1[AI!Loading].signed
    OBVIOUS
  <2> HIDE DEF new
  <2>5. /\ v2' \in Seq(AI!Contexts) /\ Len(v2') = Len(v2) + 1 /\ DOMAIN v2' = 1 .. Len(v2) + 1
        /\ DOMAIN v2 = 1 .. Len(v2)
        /\ v2'[Len(v2) + 1] = new /\ \A i \in DOMAIN v2 : v2'[i] = v2[i]
    BY <1>11, <1>13, <2>2, <2>3
  <2>6. \A i \in DOMAIN v2' : i \in DOMAIN v2 \/ i = Len(v2) + 1
    BY <1>11, <1>13, <2>5
  <2>7. AI!LoadsInv'
    BY <1>2, <1>11, <1>13, <2>1, <2>4, <2>5, <2>6, TheLoads DEF AI!LoadsInv
  <2>8. AI!QuietInv'
    <3> SUFFICES ASSUME v4
                 PROVE  AI!OneBuild' /\ \A i \in DOMAIN v2' : AI!Kept(i, v2[i])' /\ v2'[i].signed = v2'[i].rest
      BY <1>11, <1>13, <2>1 DEF AI!QuietInv
    <3>1. /\ AI!OneBuild /\ AI!Kept(Len(v2) + 1, v3)
          /\ \A i \in DOMAIN v2 : AI!Kept(i, v2[i]) /\ v2[i].signed = v2[i].rest
      BY <1>2, <1>11, <1>13 DEF AI!QuietInv
    <3>2. AI!OneBuild'
      BY <1>11, <1>13, <3>1 DEF AI!OneBuild
    <3>3. \A i \in DOMAIN v2 : AI!Kept(i, v2[i])' /\ v2'[i].signed = v2'[i].rest
      BY <1>11, <1>13, <2>5, <3>1 DEF AI!Kept, AI!Found
    <3>4. v3.rest = v1[AI!Loading].rest /\ v1[AI!Loading].signed = v1[AI!Loading].rest
      BY <1>11, <1>13, <2>1, <3>1 DEF AI!Kept, AI!OneBuild
    <3>5. ASSUME NEW i \in DOMAIN v2', i = Len(v2) + 1
          PROVE  AI!Kept(i, v2[i])' /\ v2'[i].signed = v2'[i].rest
      <4>1. v2'[i] = new /\ v1' = v1 /\ AI!Kept(i, v3)
        BY <1>11, <1>13, <2>5, <3>1, <3>5
      <4>2. AI!Kept(i, v2[i])'
        BY <2>4, <3>4, <1>11, <1>13, <3>5, <4>1 DEF AI!Kept, AI!Found
      <4> QED BY <2>4, <3>4, <4>1, <4>2
    <3> QED BY <2>6, <3>2, <3>3, <3>5
  <2> QED BY <1>11, <1>13, <2>7, <2>8 DEF AI!Inv
<1>14. CASE AI!Again
  <2>1. Len(v2) = 4 /\ v2' = <<>> /\ v4' = AI!OneBuild /\ UNCHANGED <<v1, v3, v5, v6>>
    BY <1>14, TheLoads DEF AI!Again
  <2>2. v3 = None
    BY <1>2, <2>1, TheLoads DEF AI!LoadsInv
  <2>3. AI!DiskInv' /\ AI!ReleasesInv'
    BY <1>2, <2>1 DEF AI!DiskInv, AI!ReleasesInv, AI!ReleaseDiffIsOfTheBaseline
  <2>4. AI!LoadsInv'
    BY <2>1, <2>2, TheLoads DEF AI!LoadsInv
  <2>5. v4' => AI!OneBuild'
    BY <2>1 DEF AI!OneBuild
  <2>6. AI!QuietInv'
    BY <2>1, <2>2, <2>5 DEF AI!QuietInv
  <2> QED BY <2>3, <2>4, <2>6 DEF AI!Inv
<1>15. ASSUME NEW i \in AI!Ids, AI!Release(i) PROVE AI!Inv'
  <2> DEFINE b == v1["current"].rest
  <2>1. /\ v5' = [v5 EXCEPT ![b.id] = b] /\ UNCHANGED <<v1, v2, v3, v4>>
        /\ v6' = [of |-> b, target |-> i, before |-> v5[i], shown |-> AI!StatusChanges(b, AI!BundledMatrix(i))]
    BY <1>15 DEF AI!Release
  <2>2. AI!DiskInv' /\ AI!LoadsInv' /\ AI!QuietInv'
    BY <1>2, <2>1 DEF AI!DiskInv, AI!LoadsInv, AI!QuietInv, AI!OneBuild, AI!Loading, AI!Kept, AI!Found
  <2>3. i # b.id => v5'[i] = v5[i]
    BY <1>2, <2>1 DEF AI!ReleasesInv
  <2>4. AI!ReleasesInv'
    BY <1>2, <2>1, <2>3 DEF AI!ReleasesInv, AI!ReleaseDiffIsOfTheBaseline, AI!BundledMatrix
  <2> QED BY <2>2, <2>4 DEF AI!Inv
<1> QED BY <1>1, <1>3, <1>5, <1>6, <1>7, <1>9, <1>10, <1>12, <1>13, <1>14, <1>15 DEF AI!Next

LEMMA InspectAlways == Spec => []InspectInv
BY InspectInit, InspectNext, PTL DEF Spec

\* Every non-empty set of indices has a least and a greatest one.
LEMMA LeastIndex ==
  ASSUME NEW T \in SUBSET Nat, T # {}
  PROVE  \E x \in T : \A y \in T : x <= y
<1> DEFINE R == OpToRel(<, Nat)
<1>1. IsWellFoundedOn(R, Nat)
  BY NatLessThanWellFounded
<1>2. R = {s \in Nat \X Nat : s[1] < s[2]}
  BY DEF OpToRel
<1> HIDE DEF R
<1>3. PICK x \in T : \A y \in T : ~(<<y, x>> \in R)
  BY <1>1, WFMin
<1>4. \A y \in T : x <= y
  <2> SUFFICES ASSUME NEW y \in T, ~(x <= y) PROVE FALSE
    OBVIOUS
  <2>1. y < x /\ y \in Nat /\ x \in Nat
    OBVIOUS
  <2> QED BY <1>2, <1>3, <2>1
<1> QED BY <1>4

LEMMA GreatestIndex ==
  ASSUME NEW n \in Nat, NEW T \in SUBSET (1 .. n), T # {}
  PROVE  \E x \in T : \A y \in T : y <= x
<1> DEFINE S == {n - x : x \in T}
<1>1. S \in SUBSET Nat /\ S # {}
  <2>1. \A x \in T : x \in Nat /\ x <= n
    OBVIOUS
  <2>2. \A x \in T : n - x \in Nat
    BY <2>1
  <2> QED BY <2>2
<1>2. PICK m \in S : \A k \in S : m <= k
  <2> HIDE DEF S
  <2> QED BY <1>1, LeastIndex
<1>3. PICK x \in T : m = n - x
  OBVIOUS
<1>4. \A y \in T : y <= x
  <2> SUFFICES ASSUME NEW y \in T PROVE y <= x
    OBVIOUS
  <2>1. n - x <= n - y
    BY <1>2, <1>3
  <2>2. x \in Nat /\ y \in Nat
    OBVIOUS
  <2> QED BY <2>1, <2>2
<1> QED BY <1>4

\* What is found by an id or a pathname of a build is a page of it.
LEMMA FoundRoute ==
  ASSUME NEW b \in Builds, NEW s \in AI!PageIds(b) \cup AI!Paths(b)
  PROVE  AI!FindRoute(b, s) \in AI!ToSet(b.pages)
<1> DEFINE those == {i \in DOMAIN b.pages : s \in {b.pages[i].id, b.pages[i].path}}
           first == CHOOSE i \in those : \A j \in those : i <= j
<1>1. DOMAIN b.pages \subseteq Nat
  BY BuildsAssumption
<1>2. those # {} /\ those \in SUBSET Nat
  BY <1>1 DEF AI!PageIds, AI!Paths, AI!ToSet
<1>3. \E i \in those : \A j \in those : i <= j
  <2> HIDE DEF those
  <2> QED BY <1>2, LeastIndex
<1>4. first \in those
  BY <1>3
<1>5. AI!FindRoute(b, s) = b.pages[first]
  BY DEF AI!FindRoute
<1> QED BY <1>4, <1>5 DEF AI!ToSet

\* The last page of a pathname is a page of it, and has that pathname.
LEMMA PageAt ==
  ASSUME NEW b \in Builds, NEW path \in AI!Paths(b)
  PROVE  AI!At(b, path) \in AI!ToSet(b.pages) /\ AI!At(b, path).path = path
<1> DEFINE those == {i \in DOMAIN b.pages : b.pages[i].path = path}
           last == CHOOSE i \in those : \A j \in those : j <= i
<1>1. Len(b.pages) \in Nat /\ DOMAIN b.pages = 1 .. Len(b.pages)
  BY BuildsAssumption
<1>2. those # {} /\ those \in SUBSET (1 .. Len(b.pages))
  BY <1>1 DEF AI!Paths, AI!ToSet
<1>3. \E i \in those : \A j \in those : j <= i
  <2> HIDE DEF those
  <2> QED BY <1>1, <1>2, GreatestIndex
<1>4. last \in those
  BY <1>3
<1>5. AI!At(b, path) = b.pages[last]
  BY DEF AI!At
<1> QED BY <1>4, <1>5 DEF AI!ToSet

\* A page's listed entries are invalidated by links that are listed with it, or with a tag of theirs.
LEMMA ListedLinks ==
  ASSUME NEW b \in Builds, NEW c \in Builds, NEW p \in AI!ToSet(c.pages),
         NEW e \in AI!RouteEntries(b, p), NEW l \in AI!Links(b), AI!Invalidates(l, e)
  PROVE  l \in AI!RouteLinks(b, p) \/ \E t \in e.tags : l \in AI!TagLinks(b, t)
<1>1. PICK q \in AI!ToSet(b.pages), kind \in {"route", "data"} : e = AI!Entry(kind, q)
  BY DEF AI!RouteEntries, AI!Entries
<1>2. e.key = <<kind, q.id>> /\ e.route = q.id /\ e.path = q.path
  BY <1>1 DEF AI!Entry
<1>3. PICK a \in DOMAIN b.owners : l = AI!Link(b, a)
  BY DEF AI!Links
<1> DEFINE mine == {x \in AI!ToSet(b.pages) : x.id \in b.owners[a]}
<1>4. /\ l.routes = b.owners[a] /\ l.paths = {x.path : x \in mine} /\ l.keys = {"route", "data"} \X b.owners[a]
  BY <1>3 DEF AI!Link
<1>5. q.id = p.id => q.path = p.path
  BY BuildsAssumption DEF AI!ToSet
<1>6. q.id = p.id \/ q.path = p.path
  BY <1>2 DEF AI!RouteEntries
<1>7. CASE e.key \in l.keys
  <2>1. q.id \in l.routes /\ q.path \in l.paths
    BY <1>2, <1>4, <1>7
  <2> QED BY <1>6, <2>1 DEF AI!RouteLinks
<1>8. CASE e.path \in l.paths
  <2>1. p.path \in l.paths
    BY <1>2, <1>5, <1>6, <1>8
  <2> QED BY <2>1 DEF AI!RouteLinks
<1>9. CASE e.tags \cap l.tags # {}
  BY <1>9 DEF AI!TagLinks
<1> QED BY <1>7, <1>8, <1>9 DEF AI!Invalidates

\* What each side says of a pathname that both have does not depend on the side it is read from.
LEMMA DiffMirrors ==
  ASSUME NEW x, NEW y
  PROVE  /\ AI!Diff(x, y).added = AI!Diff(y, x).removed /\ AI!Diff(x, y).removed = AI!Diff(y, x).added
         /\ AI!Diff(x, y).changed = AI!Diff(y, x).changed /\ AI!Diff(x, y).manifests = AI!Diff(y, x).manifests
<1>1. \A path : AI!RouteChanged(x, y, path) <=> AI!RouteChanged(y, x, path)
  BY DEF AI!RouteChanged, AI!TraitsDiffer, AI!DecisionDiffers, AI!BothReplay
<1>2. AI!Diff(x, y).changed = AI!Diff(y, x).changed
  BY <1>1 DEF AI!Diff
<1>3. AI!Diff(x, y).manifests = AI!Diff(y, x).manifests
  BY DEF AI!Diff
<1>4. AI!Diff(x, y).added = AI!Diff(y, x).removed /\ AI!Diff(x, y).removed = AI!Diff(y, x).added
  BY DEF AI!Diff
<1> QED BY <1>2, <1>3, <1>4

LEMMA InspectSays ==
  InspectInv => /\ AI_ReportIsOfTwoBuilds /\ AI_DiffIsMirrored /\ AI_EveryChangedPageIsShown
                /\ AI_InspectionFindsEveryInvalidation /\ AI_ReleaseDiffIsOfTheBaseline
<1> SUFFICES ASSUME which = "inspect", AI!DiskInv, AI!LoadsInv, AI!QuietInv, AI!ReleasesInv
             PROVE  /\ AI!ReportIsOfTwoBuilds /\ AI!DiffIsMirrored /\ AI!EveryChangedPageIsShown
                    /\ AI!InspectionFindsEveryInvalidation /\ AI!ReleaseDiffIsOfTheBaseline
  BY DEF InspectInv, AI!Inv, AI_ReportIsOfTwoBuilds, AI_DiffIsMirrored, AI_EveryChangedPageIsShown,
         AI_InspectionFindsEveryInvalidation, AI_ReleaseDiffIsOfTheBaseline
<1>1. \A i \in DOMAIN v2 : v2[i].rest \in Builds /\ v2[i].deploy \in Builds
  <2> SUFFICES ASSUME NEW i \in DOMAIN v2 PROVE v2[i].rest \in Builds /\ v2[i].deploy \in Builds
    OBVIOUS
  <2>1. v2 \in Seq(AI!Contexts) /\ v2[i].rest # None
    BY DEF AI!LoadsInv
  <2>2. v2[i] \in AI!Contexts
    BY <2>1
  <2> QED BY <2>1, <2>2 DEF AI!Contexts, AI!Maybe
<1>2. ASSUME AI!Reported PROVE Len(v2) = 4 /\ \A i \in 1 .. 4 : i \in DOMAIN v2
  BY <1>2, TheLoads DEF AI!Reported, AI!LoadsInv
<1>3. AI!ReportIsOfTwoBuilds
  <2> SUFFICES ASSUME AI!Reported, v4, NEW i \in {1, 2}
               PROVE  /\ v2[i].rest = v2[i + 2].rest /\ v2[i].signed = v2[i + 2].rest
                      /\ v2[i + 2].signed = v2[i + 2].rest /\ v2[i + 2].deploy = v2[i + 2].rest
                      /\ v2[i].deploy = v2[i].rest \/ v2[i].built
    BY DEF AI!ReportIsOfTwoBuilds
  <2>1. \A j \in DOMAIN v2 : AI!Kept(j, v2[j]) /\ v2[j].signed = v2[j].rest /\ v2[j].rest # None
    BY DEF AI!QuietInv, AI!LoadsInv
  <2>2. i \in DOMAIN v2 /\ i + 2 \in DOMAIN v2 /\ AI!LoadPlan[i + 2] = AI!LoadPlan[i] /\ ~(i + 2 <= 2)
    BY <1>2, TheLoads
  <2> QED BY <2>1, <2>2 DEF AI!Kept
<1>4. AI!DiffIsMirrored
  BY DiffMirrors DEF AI!DiffIsMirrored
<1>5. AI!EveryChangedPageIsShown
  <2> SUFFICES ASSUME NEW x \in Builds, NEW y \in Builds,
                      NEW p \in AI!ToSet(x.pages), NEW q \in AI!ToSet(y.pages), p.path = q.path,
                      \A r \in AI!ToSet(x.pages) : r.path = p.path => r = p,
                      \A r \in AI!ToSet(y.pages) : r.path = q.path => r = q, p.traits # q.traits
               PROVE  \A c, d : c.deploy = x /\ d.deploy = y => p.path \in AI!Diff(c, d).changed
    BY <1>1, <1>2 DEF AI!EveryChangedPageIsShown
  <2>1. p.path \in AI!Paths(x) /\ p.path \in AI!Paths(y)
    BY DEF AI!Paths
  <2>2. AI!At(x, p.path) = p /\ AI!At(y, p.path) = q
    BY <2>1, PageAt
  <2>3. \A c, d : c.deploy = x /\ d.deploy = y => AI!RouteChanged(c, d, p.path)
    BY <2>2 DEF AI!RouteChanged, AI!TraitsDiffer
  <2> QED BY <2>1, <2>3 DEF AI!Diff
<1>6. AI!InspectionFindsEveryInvalidation
  <2> SUFFICES ASSUME NEW b \in Builds, NEW c \in Builds, NEW s \in AI!PageIds(c) \cup AI!Paths(c),
                      NEW e \in AI!RouteEntries(b, AI!FindRoute(c, s)), NEW l \in AI!Links(b), AI!Invalidates(l, e)
               PROVE  l \in AI!RouteLinks(b, AI!FindRoute(c, s)) \/ \E t \in e.tags : l \in AI!TagLinks(b, t)
    BY <1>1 DEF AI!InspectionFindsEveryInvalidation
  <2> QED BY FoundRoute, ListedLinks
<1> QED BY <1>3, <1>4, <1>5, <1>6 DEF AI!ReleasesInv

(* EvidenceIsOfTheBuild: whatever a release bundles is there, of one build and of a     *)
(* passed examination, unless another process rewrote the directory under the release,  *)
(* the workspace was edited under it, or the directory is not the doctor's; a diff is   *)
(* of one build in each directory, unless a build ran into it or it had to build one    *)
(* itself, and shows each change of a page that has its pathname alone; and an          *)
(* inspection lists each action that invalidates what it lists.                         *)
THEOREM EvidenceIsWhole == Spec => []EvidenceIsOfTheBuild
<1>1. EvidenceInv /\ InspectInv => EvidenceIsOfTheBuild
  BY EvidenceSays, InspectSays DEF EvidenceIsOfTheBuild
<1> QED BY <1>1, EvidenceAlways, InspectAlways, PTL

-----------------------------------------------------------------------------
(* The manifests.  They are made in one pass from the analysis, so what    *)
(* they say of each other holds of whatever the analysis found.            *)
LEMMA TheModes ==
  ASSUME NEW r \in RA!Pages
  PROVE  \/ /\ RA!HydrationMode(r) = "none" /\ RA!ClientFiles(r) = {} /\ RA!BoundaryRefs(r) = {}
            /\ RA!BrowserEntry(r) = <<>> /\ RA!RenderMode(r) = "server-components"
         \/ /\ RA!HydrationMode(r) = "full-route" /\ RA!ClientFiles(r) # {} /\ RA!BoundaryRefs(r) = {RA!Root(r)}
            /\ RA!BrowserEntry(r) = <<"entry", r>> /\ RA!RenderMode(r) = "client-root"
         \/ /\ RA!HydrationMode(r) = "mixed-route" /\ RA!ClientFiles(r) # {}
            /\ RA!BoundaryRefs(r) = {RA!Island(r, f) : f \in RA!ClientFiles(r)}
            /\ RA!BrowserEntry(r) = <<>> /\ RA!RenderMode(r) = "server-components"
<1>1. CASE RA!ClientFiles(r) = {}
  BY <1>1 DEF RA!HydrationMode, RA!BoundaryRefs, RA!BrowserEntry, RA!RenderMode
<1>2. CASE RA!ClientFiles(r) # {} /\ (RA!SourceFile(r) \in RA!ClientFiles(r) \/ RA!ActionsOf(r) = {})
  BY <1>2 DEF RA!HydrationMode, RA!BoundaryRefs, RA!BrowserEntry, RA!RenderMode
<1>3. CASE RA!ClientFiles(r) # {} /\ ~(RA!SourceFile(r) \in RA!ClientFiles(r) \/ RA!ActionsOf(r) = {})
  BY <1>3 DEF RA!HydrationMode, RA!BoundaryRefs, RA!BrowserEntry, RA!RenderMode, RA!IslandWritten
<1> QED BY <1>1, <1>2, <1>3

LEMMA TheBoundaries ==
  ASSUME NEW r, NEW f
  PROVE  /\ RA!Root(r).strategy = "hydrate-root" /\ RA!Root(r).module = RA!SourceFile(r) /\ RA!Root(r).asset = <<>>
         /\ RA!Island(r, f).strategy = "hydrate-island" /\ RA!Island(r, f).module = f
         /\ RA!Island(r, f).asset = <<"boundary", r, f>> /\ <<"boundary", r, f>> # <<>> /\ <<"entry", r>> # <<>>
BY DEF RA!Root, RA!Island

LEMMA EntriesOfPages ==
  /\ RA!Pages \subseteq RA!Routes
  /\ \A r \in RA!Pages :
       /\ RA!BundleManifest[r].mode = RA!HydrationMode(r) /\ RA!BundleManifest[r].render = RA!RenderMode(r)
       /\ RA!BundleManifest[r].entry = RA!BrowserEntry(r) /\ RA!BundleManifest[r].refs = RA!ClientFiles(r)
       /\ RA!BundleManifest[r].boundaries = RA!BoundaryRefs(r)
       /\ RA!ClientBoundaryManifest[r].mode = RA!HydrationMode(r)
       /\ RA!ClientBoundaryManifest[r].boundaries = RA!BoundaryRefs(r)
  /\ \A r \in RA!Routes \ RA!Pages :
       RA!BundleManifest[r].mode = "none" /\ RA!BundleManifest[r].boundaries = {}
  /\ DOMAIN RA!BundleManifest = RA!Routes /\ DOMAIN RA!ClientBoundaryManifest = RA!Pages
  /\ RA!RouteOwnershipManifest = RA!BundleManifest
<1>1. RA!Pages \subseteq RA!Routes
  BY DEF RA!Pages
<1>2. ASSUME NEW r \in RA!Routes PROVE RA!BundleManifest[r] = RA!ClientEntry(r)
  BY DEF RA!BundleManifest
<1>3. ASSUME NEW r \in RA!Pages
      PROVE  RA!ClientBoundaryManifest[r] = [mode |-> RA!HydrationMode(r), boundaries |-> RA!BoundaryRefs(r)]
  BY DEF RA!ClientBoundaryManifest
<1>4. DOMAIN RA!BundleManifest = RA!Routes /\ DOMAIN RA!ClientBoundaryManifest = RA!Pages
      /\ RA!RouteOwnershipManifest = RA!BundleManifest
  BY DEF RA!BundleManifest, RA!ClientBoundaryManifest, RA!RouteOwnershipManifest
<1> QED BY <1>1, <1>2, <1>3, <1>4 DEF RA!ClientEntry

\* A mixed page has islands, each with an asset, and no entry of its own.
LEMMA MilestonesHold == RA!MilestonesAskTheCompiler
<1>1. ASSUME NEW r \in RA!Pages, RA!HydrationMode(r) = "mixed-route"
      PROVE  /\ RA!BrowserEntry(r) = <<>> /\ RA!BoundaryRefs(r) # {}
             /\ \A b \in RA!BoundaryRefs(r) : b.strategy = "hydrate-island" /\ b.asset # <<>>
  <2>1. RA!BrowserEntry(r) = <<>> /\ RA!ClientFiles(r) # {}
        /\ RA!BoundaryRefs(r) = {RA!Island(r, f) : f \in RA!ClientFiles(r)}
    BY <1>1, TheModes
  <2>2. PICK f \in RA!ClientFiles(r) : TRUE
    BY <2>1
  <2>3. RA!Island(r, f) \in RA!BoundaryRefs(r)
    BY <2>1
  <2>4. ASSUME NEW b \in RA!BoundaryRefs(r) PROVE b.strategy = "hydrate-island" /\ b.asset # <<>>
    <3>1. PICK g \in RA!ClientFiles(r) : b = RA!Island(r, g)
      BY <2>1
    <3> QED BY <3>1 DEF RA!Island
  <2> QED BY <2>1, <2>3, <2>4
<1> DEFINE mixed == {r \in RA!Pages : RA!HydrationMode(r) = "mixed-route"}
<1>2. RA!MixedIn(RA!BundleManifest) = mixed /\ RA!MixedIn(RA!ClientBoundaryManifest) = mixed
  BY EntriesOfPages DEF RA!MixedIn
<1>3. RA!ManifestDriven(RA!BundleManifest) /\ RA!ManifestDriven(RA!RouteOwnershipManifest)
  BY <1>1, <1>2, EntriesOfPages DEF RA!ManifestDriven
<1>4. RA!Milestone2Complete <=> mixed # {}
  BY <1>1, <1>2, <1>3, EntriesOfPages DEF RA!Milestone2Complete, RA!Milestone1Complete
<1>5. RA!ReferencesAreReal
  BY TheModes, EntriesOfPages DEF RA!ReferencesAreReal
<1> QED BY <1>4, <1>5 DEF RA!MilestonesAskTheCompiler

LEMMA Preloads == RA!PreloadsAreWritten
<1> SUFFICES ASSUME NEW r \in RA!Pages
             PROVE  /\ RA!PreloadAssets(r) \subseteq RA!Written
                    /\ ({RA!BrowserEntry(r)} \cup {b.asset : b \in RA!BoundaryRefs(r)}) \ {<<>>}
                         \subseteq RA!PreloadAssets(r)
  BY DEF RA!PreloadsAreWritten, RA!RouteClientAssets
<1>1. {<<"runtime">>, <<"route", r>>, <<"metadata", r>>} \subseteq RA!Written
  BY DEF RA!Written
<1>2. {<<"chunk", f>> : f \in RA!SharedChunkIds(r)} \subseteq RA!Written
  BY DEF RA!Written, RA!SharedChunkIds
<1>3. {RA!BrowserEntry(r)} \ {<<>>} \subseteq RA!Written
  <2>1. {<<"entry", q>> : q \in {p \in RA!Pages : RA!HydrationMode(p) = "full-route"}} \subseteq RA!Written
    BY DEF RA!Written
  <2>2. CASE RA!HydrationMode(r) = "full-route"
    <3>1. RA!BrowserEntry(r) = <<"entry", r>>
      BY <2>2, TheModes
    <3> QED BY <2>1, <2>2, <3>1
  <2>3. CASE RA!HydrationMode(r) # "full-route"
    BY <2>3, TheModes
  <2> QED BY <2>2, <2>3
<1>4. {b.asset : b \in RA!BoundaryRefs(r)} \ {<<>>} \subseteq RA!Written
  <2>1. CASE RA!HydrationMode(r) = "mixed-route"
    <3>1. RA!BoundaryRefs(r) = {RA!Island(r, f) : f \in RA!ClientFiles(r)}
      BY <2>1, TheModes
    <3>3. RA!Islands(r) \subseteq RA!Written
      BY <2>1 DEF RA!Written
    <3>4. ASSUME NEW b \in RA!BoundaryRefs(r) PROVE b.asset \in RA!Written
      <4>1. PICK f \in RA!ClientFiles(r) : b = RA!Island(r, f)
        BY <3>1
      <4>2. b.asset = <<"boundary", r, f>>
        BY <4>1 DEF RA!Island
      <4> QED BY <3>3, <4>2 DEF RA!Islands
    <3> QED BY <3>4
  <2>2. CASE RA!HydrationMode(r) # "mixed-route"
    <3>1. \A b \in RA!BoundaryRefs(r) : b.asset = <<>>
      BY <2>2, TheModes, TheBoundaries
    <3> QED BY <3>1
  <2> QED BY <2>1, <2>2
<1>5. RA!PreloadAssets(r) \subseteq RA!Written
  BY <1>1, <1>2, <1>3, <1>4 DEF RA!PreloadAssets
<1> QED BY <1>5 DEF RA!PreloadAssets

\* What the scripts of a page start is what its mode asks for.
LEMMA StartedBy ==
  ASSUME NEW r \in RA!Pages
  PROVE  \/ /\ RA!BoundaryRefs(r) = {} /\ RA!RouteClientAssets(r).started = {}
         \/ /\ RA!HydrationMode(r) = "full-route" /\ RA!BoundaryRefs(r) = {RA!Root(r)}
            /\ RA!RouteClientAssets(r).started = {<<"entry", r>>}
         \/ /\ RA!BoundaryRefs(r) = {RA!Island(r, f) : f \in RA!ClientFiles(r)}
            /\ RA!RouteClientAssets(r).started = {<<"boundary", r, f>> : f \in RA!ClientFiles(r)}
<1> DEFINE given == ({RA!BrowserEntry(r)} \cup {b.asset : b \in RA!BoundaryRefs(r)}) \ {<<>>}
<1>1. RA!RouteClientAssets(r).started = given
  BY DEF RA!RouteClientAssets
<1>2. CASE RA!HydrationMode(r) = "none"
  BY <1>1, <1>2, TheModes
<1>3. CASE RA!HydrationMode(r) = "full-route"
  <2>1. RA!BoundaryRefs(r) = {RA!Root(r)} /\ RA!BrowserEntry(r) = <<"entry", r>>
    BY <1>3, TheModes
  <2>2. RA!Root(r).asset = <<>>
    BY DEF RA!Root
  <2>3. {b.asset : b \in RA!BoundaryRefs(r)} = {<<>>}
    BY <2>1, <2>2
  <2>4. <<"entry", r>> # <<>>
    OBVIOUS
  <2>5. given = {<<"entry", r>>}
    BY <2>1, <2>3, <2>4
  <2> QED BY <1>1, <1>3, <2>1, <2>5
<1>4. CASE RA!HydrationMode(r) = "mixed-route"
  <2>1. RA!BoundaryRefs(r) = {RA!Island(r, f) : f \in RA!ClientFiles(r)} /\ RA!BrowserEntry(r) = <<>>
    BY <1>4, TheModes
  <2>2. {b.asset : b \in RA!BoundaryRefs(r)} = {RA!Island(r, f).asset : f \in RA!ClientFiles(r)}
    BY <2>1
  <2>3. <<>> \notin {<<"boundary", r, f>> : f \in RA!ClientFiles(r)}
    BY TheBoundaries
  <2>4. {RA!Island(r, f).asset : f \in RA!ClientFiles(r)} = {<<"boundary", r, f>> : f \in RA!ClientFiles(r)}
    BY DEF RA!Island
  <2> QED BY <1>1, <2>1, <2>2, <2>3, <2>4
<1> QED BY <1>2, <1>3, <1>4, TheModes

LEMMA Hydration == RA!HydrationIsDeclared
<1> SUFFICES ASSUME NEW r \in RA!Pages
             PROVE  /\ RA!Hydrated(r) = {<<b.strategy, b.module>> : b \in RA!BoundaryRefs(r)}
                    /\ \A h \in RA!Hydrated(r) : h[2] \in RA!ServerModules
  BY EntriesOfPages DEF RA!HydrationIsDeclared
<1>1. RA!ServerModules = RA!ClientReferences \cup RA!Synthetic
  BY DEF RA!ServerModules, RA!Registry
<1>2. CASE RA!BoundaryRefs(r) = {} /\ RA!RouteClientAssets(r).started = {}
  BY <1>2 DEF RA!Hydrated
<1>3. CASE /\ RA!HydrationMode(r) = "full-route" /\ RA!BoundaryRefs(r) = {RA!Root(r)}
           /\ RA!RouteClientAssets(r).started = {<<"entry", r>>}
  <2>1. RA!Hydrated(r) = {<<"hydrate-root", RA!SourceFile(r)>>}
    BY <1>3 DEF RA!Hydrated, RA!EntryBootstraps
  <2>2. RA!SourceFile(r) \in RA!ServerModules
    BY <1>1, <1>3 DEF RA!Synthetic
  <2> QED BY <1>3, <2>1, <2>2, TheBoundaries
<1>4. CASE /\ RA!BoundaryRefs(r) = {RA!Island(r, f) : f \in RA!ClientFiles(r)}
           /\ RA!RouteClientAssets(r).started = {<<"boundary", r, f>> : f \in RA!ClientFiles(r)}
  <2>1. RA!Hydrated(r) = {<<"hydrate-island", f>> : f \in RA!ClientFiles(r)}
    <3> DEFINE of(a) == IF a[1] = "entry" THEN RA!EntryBootstraps(a) ELSE RA!BoundaryBootstraps(a)
    <3>1. RA!Hydrated(r) = UNION {of(a) : a \in RA!RouteClientAssets(r).started}
      BY DEF RA!Hydrated
    <3>2. \A f : of(<<"boundary", r, f>>) = {<<"hydrate-island", f>>}
      BY DEF RA!BoundaryBootstraps
    <3> HIDE DEF of
    <3>3. {of(a) : a \in RA!RouteClientAssets(r).started} = {{<<"hydrate-island", f>>} : f \in RA!ClientFiles(r)}
      <4>1. {of(a) : a \in RA!RouteClientAssets(r).started} = {of(<<"boundary", r, f>>) : f \in RA!ClientFiles(r)}
        BY <1>4
      <4> QED BY <3>2, <4>1
    <3>4. \A S : UNION {{<<"hydrate-island", f>>} : f \in S} = {<<"hydrate-island", f>> : f \in S}
      OBVIOUS
    <3> QED BY <3>1, <3>3, <3>4
  <2>2. {<<b.strategy, b.module>> : b \in RA!BoundaryRefs(r)} = {<<"hydrate-island", f>> : f \in RA!ClientFiles(r)}
    BY <1>4, TheBoundaries
  <2>3. RA!ClientFiles(r) \subseteq RA!ServerModules
    BY <1>1 DEF RA!ClientFiles
  <2> QED BY <2>1, <2>2, <2>3
<1> QED BY <1>2, <1>3, <1>4, StartedBy

LEMMA ChunksOfReferences == RA!ReferencesHaveChunks
<1> SUFFICES ASSUME NEW f \in DOMAIN RA!Registry
             PROVE  /\ \A a \in RA!Chunks(f) : f \in RA!Bundled(a)
                    /\ \A r \in {q \in RA!Pages : f \in RA!ClientFiles(q)} :
                         RA!Chunks(f) \cap RA!RouteClientAssets(r).preload # {}
  BY DEF RA!ReferencesHaveChunks, RA!Registry
<1> DEFINE entries == {RA!BrowserEntry(r) : r \in {q \in RA!Pages : RA!BrowserEntry(q) # <<>>
                                                       /\ f \in {RA!SourceFile(q)} \cup RA!ClientFiles(q)}}
           all_refs == UNION {RA!BoundaryRefs(r) : r \in RA!Pages}
           islands == {b.asset : b \in {c \in all_refs : c.module = f /\ c.asset # <<>>}}
<1>1. RA!Chunks(f) = entries \cup islands
  BY DEF RA!Chunks
<1>2. ASSUME NEW a \in entries PROVE f \in RA!Bundled(a)
  <2>1. PICK r \in RA!Pages : /\ a = RA!BrowserEntry(r) /\ RA!BrowserEntry(r) # <<>>
                              /\ f \in {RA!SourceFile(r)} \cup RA!ClientFiles(r)
    OBVIOUS
  <2>2. a = <<"entry", r>>
    BY <2>1, TheModes
  <2> QED BY <2>1, <2>2 DEF RA!Bundled
<1>3. ASSUME NEW a \in islands PROVE f \in RA!Bundled(a)
  <2>0. PICK b \in all_refs : a = b.asset /\ b.module = f /\ b.asset # <<>>
    OBVIOUS
  <2>1. PICK r \in RA!Pages : b \in RA!BoundaryRefs(r)
    OBVIOUS
  <2>2. PICK g \in RA!ClientFiles(r) : b = RA!Island(r, g)
    BY <2>0, <2>1, TheModes, TheBoundaries
  <2>3. a = <<"boundary", r, f>>
    BY <2>0, <2>2, TheBoundaries
  <2> QED BY <2>3 DEF RA!Bundled
<1>4. ASSUME NEW r \in RA!Pages, f \in RA!ClientFiles(r)
      PROVE  \E a \in RA!Chunks(f) : a \in RA!PreloadAssets(r)
  <2>1. CASE RA!HydrationMode(r) = "full-route"
    <3>1. RA!BrowserEntry(r) # <<>>
      BY <2>1, TheModes, TheBoundaries
    <3> QED BY <1>1, <1>4, <3>1 DEF RA!PreloadAssets
  <2>2. CASE RA!HydrationMode(r) = "mixed-route"
    <3>1. RA!Island(r, f) \in RA!BoundaryRefs(r)
      BY <1>4, <2>2, TheModes
    <3>2. RA!Island(r, f).module = f /\ RA!Island(r, f).asset # <<>>
      BY DEF RA!Island
    <3>3. RA!Island(r, f).asset \in RA!Chunks(f)
      BY <1>1, <3>1, <3>2
    <3>4. RA!Island(r, f).asset \in RA!PreloadAssets(r)
      BY <3>1, <3>2 DEF RA!PreloadAssets
    <3> QED BY <3>3, <3>4
  <2> QED BY <1>4, <2>1, <2>2, TheModes
<1>5. ASSUME NEW r \in RA!Pages PROVE RA!RouteClientAssets(r).preload = RA!PreloadAssets(r)
  BY DEF RA!RouteClientAssets
<1> HIDE DEF entries, islands
<1> QED BY <1>1, <1>2, <1>3, <1>4, <1>5

LEMMA EdgeSupport == RA!EdgeSupportAgrees
<1> SUFFICES ASSUME NEW r \in RA!Pages, v1.routes[r].edge
             PROVE  "edge" \in RA!SupportedRuntimeTargets(r)
                      <=> \A f \in v4 : r \in v2[f] => "edge" \in RA!RuntimeTargets(f)
  BY DEF RA!EdgeSupportAgrees
<1>1. "edge" \in RA!SupportedRuntimeTargets(r) <=> RA!UnsupportedReasons(r) = {}
  BY DEF RA!SupportedRuntimeTargets
<1>2. ASSUME NEW f \in v4, r \in v2[f]
      PROVE  "edge" \in RA!RuntimeTargets(f) <=> ~(v1.builtins[f] \/ f \in RA!Actions)
  <2>1. \E q \in v2[f] : v1.routes[q].edge
    BY <1>2
  <2> QED BY <2>1, ZenonT(30) DEF RA!RuntimeTargets
<1>3. RA!UnsupportedReasons(r) = {} <=> \A f \in v4 : r \in v2[f] => ~(v1.builtins[f] \/ f \in RA!Actions)
  BY ZenonT(30) DEF RA!UnsupportedReasons
<1> QED BY <1>1, <1>2, <1>3

LEMMA MutualLinks == RA!LinksAreMutual
<1> SUFFICES ASSUME NEW e \in RA!CacheEntries, NEW f \in RA!Actions
             PROVE  f \in RA!EntryActions(e) <=> e.key \in RA!TargetCacheKeys(f)
  BY DEF RA!LinksAreMutual
<1>1. PICK kind, r : kind \in {"route", "data"} /\ e.key = <<kind, r>>
  BY DEF RA!CacheEntries
<1> QED BY <1>1 DEF RA!EntryActions, RA!TargetCacheKeys

(* ManifestsAgree: the manifests of a build agree with each other and with the files   *)
(* written for the browser, whatever application was analysed.                         *)
THEOREM ManifestsAreOfOneBuild == Spec => []ManifestsAgree
<1>1. ManifestsAgree
  BY MilestonesHold, Preloads, Hydration, ChunksOfReferences, EdgeSupport, MutualLinks
     DEF ManifestsAgree, RA_MilestonesAskTheCompiler, RA_PreloadsAreWritten, RA_HydrationIsDeclared,
         RA_ReferencesHaveChunks, RA_EdgeSupportAgrees, RA_LinksAreMutual
<1> QED BY <1>1, PTL

-----------------------------------------------------------------------------
(* The boundaries of the modules.                                          *)
LEMMA ElementsOfConcat ==
  ASSUME NEW T, NEW s \in Seq(T), NEW t \in Seq(T)
  PROVE  s \o t \in Seq(T) /\ RA!ToSet(s \o t) = RA!ToSet(s) \cup RA!ToSet(t)
<1>1. s \o t \in Seq(T) /\ Len(s \o t) = Len(s) + Len(t)
      /\ \A i \in 1 .. Len(s) + Len(t) : (s \o t)[i] = IF i <= Len(s) THEN s[i] ELSE t[i - Len(s)]
  BY ConcatProperties
<1>2. Len(s) \in Nat /\ Len(t) \in Nat /\ DOMAIN s = 1 .. Len(s) /\ DOMAIN t = 1 .. Len(t)
      /\ DOMAIN (s \o t) = 1 .. Len(s) + Len(t)
  BY <1>1
<1>3. ASSUME NEW x \in RA!ToSet(s \o t) PROVE x \in RA!ToSet(s) \cup RA!ToSet(t)
  <2>1. PICK i \in 1 .. Len(s) + Len(t) : x = (s \o t)[i]
    BY <1>2 DEF RA!ToSet
  <2>2. CASE i <= Len(s)
    BY <1>1, <1>2, <2>1, <2>2 DEF RA!ToSet
  <2>3. CASE ~(i <= Len(s))
    <3>1. i - Len(s) \in DOMAIN t
      BY <1>2, <2>3
    <3> QED BY <1>1, <2>1, <2>3, <3>1 DEF RA!ToSet
  <2> QED BY <2>2, <2>3
<1>4. ASSUME NEW x \in RA!ToSet(s) PROVE x \in RA!ToSet(s \o t)
  <2>1. PICK i \in 1 .. Len(s) : x = s[i]
    BY <1>2 DEF RA!ToSet
  <2>2. i \in 1 .. Len(s) + Len(t) /\ (s \o t)[i] = x
    BY <1>1, <1>2, <2>1
  <2> QED BY <1>2, <2>2 DEF RA!ToSet
<1>5. ASSUME NEW x \in RA!ToSet(t) PROVE x \in RA!ToSet(s \o t)
  <2>1. PICK i \in 1 .. Len(t) : x = t[i]
    BY <1>2 DEF RA!ToSet
  <2> DEFINE k == i + Len(s)
  <2>2. k \in 1 .. Len(s) + Len(t) /\ ~(k <= Len(s)) /\ k - Len(s) = i
    BY <1>2
  <2>3. (s \o t)[k] = x
    BY <1>1, <2>1, <2>2
  <2> QED BY <1>2, <2>2, <2>3 DEF RA!ToSet
<1> QED BY <1>1, <1>3, <1>4, <1>5

\* A sequence of sequences, one behind the other: a recursive function, which exists up to
\* every length, as there would be a least one up to which it does not.
LEMMA Flattened ==
  ASSUME NEW T, NEW ss \in Seq(Seq(T))
  PROVE  RA!FlattenSeq(ss) \in Seq(T)
         /\ RA!ToSet(RA!FlattenSeq(ss)) = UNION {RA!ToSet(ss[i]) : i \in DOMAIN ss}
<1> DEFINE N == Len(ss)
           Up(n, G) == G = [i \in 1 .. n |-> IF i = 1 THEN ss[i] ELSE G[i - 1] \o ss[i]]
<1>1. N \in Nat /\ DOMAIN ss = 1 .. N /\ \A i \in 1 .. N : ss[i] \in Seq(T)
  OBVIOUS
<1>2. CASE N = 0
  <2>1. ss = <<>> /\ RA!FlattenSeq(ss) = ss
    BY <1>2 DEF RA!FlattenSeq
  <2>2. DOMAIN ss = {}
    BY <1>1, <1>2
  <2>3. RA!ToSet(ss) = {} /\ UNION {RA!ToSet(ss[i]) : i \in DOMAIN ss} = {}
    BY <2>2 DEF RA!ToSet
  <2>4. <<>> \in Seq(T)
    OBVIOUS
  <2> QED BY <2>1, <2>3, <2>4
<1>3. CASE N # 0
  <2>1. \E G : Up(N, G)
    <3> SUFFICES ASSUME ~\E G : Up(N, G) PROVE FALSE
      OBVIOUS
    <3> DEFINE none == {n \in Nat : ~\E G : Up(n, G)}
    <3>1. PICK m \in none : \A k \in none : m <= k
      <4>1. none \in SUBSET Nat /\ none # {}
        BY <1>1
      <4> HIDE DEF none
      <4> QED BY <4>1, LeastIndex
    <3>2. m # 0
      <4>1. Up(0, [i \in 1 .. 0 |-> ss[i]])
        OBVIOUS
      <4> QED BY <4>1
    <3>3. m - 1 \in Nat /\ m - 1 \notin none
      <4>1. m \in Nat
        OBVIOUS
      <4>2. m - 1 \in Nat /\ ~(m <= m - 1)
        BY <3>2, <4>1
      <4> HIDE DEF none
      <4> QED BY <3>1, <4>2
    <3>4. PICK G : Up(m - 1, G)
      BY <3>3
    <3> DEFINE H == [i \in 1 .. m |-> IF i = m THEN IF m = 1 THEN ss[m] ELSE G[m - 1] \o ss[m] ELSE G[i]]
    <3>5. ASSUME NEW i \in 1 .. m PROVE H[i] = IF i = 1 THEN ss[i] ELSE H[i - 1] \o ss[i]
      <4>1. CASE i = m
        BY <3>2, <4>1
      <4>2. CASE i # m
        <5>1. i \in 1 .. (m - 1) /\ H[i] = G[i] /\ (i # 1 => H[i - 1] = G[i - 1])
          BY <4>2
        <5> QED BY <3>4, <5>1
      <4> QED BY <4>1, <4>2
    <3>6. Up(m, H)
      <4> HIDE DEF H
      <4>1. H = [i \in 1 .. m |-> H[i]]
        BY DEF H
      <4> QED BY <3>5, <4>1
    <3> QED BY <3>1, <3>6
  <2> DEFINE F == CHOOSE G : Up(N, G)
  <2>2. Up(N, F)
    BY <2>1
  <2>3. RA!FlattenSeq(ss) = F[N]
    BY <1>3 DEF RA!FlattenSeq
  <2> HIDE DEF F
  <2> DEFINE Right(i) == F[i] \in Seq(T) /\ RA!ToSet(F[i]) = UNION {RA!ToSet(ss[j]) : j \in 1 .. i}
             wrong == {i \in 1 .. N : ~Right(i)}
  <2>4. \A i \in 1 .. N : F[i] = IF i = 1 THEN ss[i] ELSE F[i - 1] \o ss[i]
    BY <2>2
  <2>5. wrong = {}
    <3> SUFFICES ASSUME wrong # {} PROVE FALSE
      OBVIOUS
    <3>1. PICK m \in wrong : \A k \in wrong : m <= k
      <4>1. wrong \in SUBSET Nat
        OBVIOUS
      <4> HIDE DEF wrong
      <4> QED BY <4>1, LeastIndex
    <3>2. m \in 1 .. N /\ ~Right(m)
      OBVIOUS
    <3>3. CASE m = 1
      <4>1. F[m] = ss[m] /\ ss[m] \in Seq(T)
        BY <1>1, <2>4, <3>2, <3>3
      <4>2. UNION {RA!ToSet(ss[j]) : j \in 1 .. m} = RA!ToSet(ss[m])
        BY <3>3
      <4> QED BY <3>2, <4>1, <4>2
    <3>4. CASE m # 1
      <4>1. m - 1 \in 1 .. N /\ m - 1 \notin wrong
        <5>1. m - 1 \in 1 .. N /\ ~(m <= m - 1)
          BY <1>1, <3>2, <3>4
        <5> HIDE DEF wrong
        <5> QED BY <3>1, <5>1
      <4>2. Right(m - 1)
        BY <4>1
      <4>3. F[m] = F[m - 1] \o ss[m] /\ ss[m] \in Seq(T)
        BY <1>1, <2>4, <3>2, <3>4
      <4>4. F[m] \in Seq(T) /\ RA!ToSet(F[m]) = RA!ToSet(F[m - 1]) \cup RA!ToSet(ss[m])
        BY <4>2, <4>3, ElementsOfConcat
      <4>5. \A j : j \in 1 .. m <=> j \in 1 .. (m - 1) \/ j = m
        BY <3>2
      <4>6. UNION {RA!ToSet(ss[j]) : j \in 1 .. m} = RA!ToSet(ss[m]) \cup UNION {RA!ToSet(ss[j]) : j \in 1 .. (m - 1)}
        BY <4>5
      <4> QED BY <3>2, <4>2, <4>4, <4>6
    <3> QED BY <3>3, <3>4
  <2>6. Right(N)
    <3>1. N \in 1 .. N
      BY <1>1, <1>3
    <3>2. N \notin wrong
      <4> HIDE DEF wrong
      <4> QED BY <2>5
    <3> QED BY <3>1, <3>2
  <2> QED BY <1>1, <2>3, <2>6
<1> QED BY <1>2, <1>3

\* What is kept of a sequence.
LEMMA Kept ==
  ASSUME NEW T, NEW s \in Seq(T), NEW S
  PROVE  RA!Those(s, S) \in Seq(T) /\ RA!ToSet(RA!Those(s, S)) = RA!ToSet(s) \cap S
<1> DEFINE ss == [i \in DOMAIN s |-> IF s[i] \in S THEN <<s[i]>> ELSE <<>>]
<1>1. Len(s) \in Nat /\ DOMAIN s = 1 .. Len(s) /\ \A i \in 1 .. Len(s) : s[i] \in T
  OBVIOUS
<1>2. \A i \in 1 .. Len(s) : ss[i] \in Seq(T)
  BY <1>1
<1>3. ss \in Seq(Seq(T)) /\ DOMAIN ss = DOMAIN s
  BY <1>1, <1>2
<1>4. \A i \in DOMAIN s : RA!ToSet(ss[i]) = IF s[i] \in S THEN {s[i]} ELSE {}
  BY DEF RA!ToSet
<1>5. RA!Those(s, S) = RA!FlattenSeq(ss)
  BY DEF RA!Those
<1> HIDE DEF ss
<1>6. RA!FlattenSeq(ss) \in Seq(T) /\ RA!ToSet(RA!FlattenSeq(ss)) = UNION {RA!ToSet(ss[i]) : i \in DOMAIN s}
  BY <1>3, Flattened
<1>7. UNION {RA!ToSet(ss[i]) : i \in DOMAIN s} = RA!ToSet(s) \cap S
  <2>1. ASSUME NEW x \in RA!ToSet(s) \cap S PROVE x \in UNION {RA!ToSet(ss[i]) : i \in DOMAIN s}
    <3>1. PICK i \in DOMAIN s : s[i] = x
      BY <2>1 DEF RA!ToSet
    <3>2. x \in RA!ToSet(ss[i])
      BY <1>4, <3>1
    <3> QED BY <3>2
  <2>2. ASSUME NEW x \in UNION {RA!ToSet(ss[i]) : i \in DOMAIN s} PROVE x \in RA!ToSet(s) \cap S
    <3>1. PICK i \in DOMAIN s : x \in RA!ToSet(ss[i])
      BY <2>2
    <3>2. s[i] \in S /\ x = s[i]
      BY <1>4, <3>1
    <3> QED BY <3>2 DEF RA!ToSet
  <2> QED BY <2>1, <2>2
<1> QED BY <1>5, <1>6, <1>7

RoutesInv == which = "routes" => RA!Inv
routes == <<v1, v2, v3, v4, v5>>

LEMMA RoutesSteps ==
  ASSUME [Next]_all, which' = "routes"
  PROVE  which = "routes" /\ [RA!Next]_routes
BY DEF Next, all, shared, routes

\* An application of the constant.
LEMMA TheApplication ==
  ASSUME v1 \in Applications
  PROVE  /\ \A r \in RA!Routes : /\ RA!Owned(r) \in Seq(RA!Files) /\ RA!SourceFile(r) \in RA!Files
                                 /\ RA!SourceFile(r) \in RA!ToSet(RA!Owned(r))
         /\ \A f \in RA!Files : v1.imports[f] \in Seq(RA!Files) /\ v1.edgeImports[f] \in Seq(RA!Files)
         /\ v1.order \in Seq(RA!Routes) /\ RA!ToSet(v1.order) = RA!Routes
<1>1. ASSUME NEW r \in RA!Routes
      PROVE  /\ RA!Owned(r) \in Seq(RA!Files) /\ RA!SourceFile(r) \in RA!Files
             /\ RA!SourceFile(r) \in RA!ToSet(RA!Owned(r))
  <2>1. RA!Owned(r) \in Seq(RA!Files) /\ RA!Owned(r) # <<>>
    BY <1>1, ApplicationsAssumption DEF RA!Routes, RA!Owned, RA!Files
  <2>2. 1 \in DOMAIN RA!Owned(r) /\ RA!Owned(r)[1] \in RA!Files
    BY <2>1
  <2> QED BY <2>1, <2>2 DEF RA!SourceFile, RA!ToSet
<1>2. \A f \in RA!Files : v1.imports[f] \in Seq(RA!Files) /\ v1.edgeImports[f] \in Seq(RA!Files)
  BY ApplicationsAssumption DEF RA!Files
<1>3. v1.order \in Seq(RA!Routes) /\ \A r \in RA!Routes : \E i \in DOMAIN v1.order : v1.order[i] = r
  BY ApplicationsAssumption DEF RA!Routes
<1>4. RA!ToSet(v1.order) = RA!Routes
  BY <1>3 DEF RA!ToSet
<1> QED BY <1>1, <1>2, <1>3, <1>4

LEMMA ElementsAre ==
  ASSUME NEW T, NEW s \in Seq(T)
  PROVE  RA!ToSet(s) \subseteq T /\ (s = <<>> => RA!ToSet(s) = {})
BY DEF RA!ToSet

\* What is needed is needed by what needs it, and is the least that is.
LEMMA NeededIsClosed ==
  ASSUME v1 \in Applications, NEW S \in SUBSET RA!Files
  PROVE  /\ S \subseteq RA!Needed(S) /\ RA!Needed(S) \subseteq RA!Files
         /\ \A f \in RA!Needed(S) : ~RA!IsClient(f) => RA!ToSet(v1.imports[f]) \subseteq RA!Needed(S)
         /\ \A C \in SUBSET RA!Files : S \subseteq C /\ RA!Closed(C) => RA!Needed(S) \subseteq C
<1>1. S \subseteq RA!Needed(S) /\ RA!Needed(S) \subseteq RA!Files
  BY DEF RA!Needed
<1>2. \A C \in SUBSET RA!Files : S \subseteq C /\ RA!Closed(C) => RA!Needed(S) \subseteq C
  BY DEF RA!Needed
<1>3. ASSUME NEW f \in RA!Needed(S), ~RA!IsClient(f), NEW g \in RA!ToSet(v1.imports[f]) PROVE g \in RA!Needed(S)
  <2>1. f \in RA!Files
    BY <1>1
  <2>2. g \in RA!Files
    BY <2>1, TheApplication, ElementsAre
  <2>3. ASSUME NEW C \in SUBSET RA!Files, S \subseteq C, RA!Closed(C) PROVE g \in C
    BY <1>2, <1>3, <2>3 DEF RA!Closed
  <2> QED BY <2>2, <2>3 DEF RA!Needed
<1> QED BY <1>1, <1>2, <1>3

\* A queue loses its head and gains what is put behind it.
LEMMA TakenAndAdded ==
  ASSUME NEW T, NEW q \in Seq(T), q # <<>>, NEW added \in Seq(T)
  PROVE  /\ Head(q) \in T /\ Head(q) \in RA!ToSet(q) /\ Tail(q) \o added \in Seq(T)
         /\ RA!ToSet(Tail(q) \o added) \subseteq RA!ToSet(q) \cup RA!ToSet(added)
         /\ RA!ToSet(q) \ {Head(q)} \subseteq RA!ToSet(Tail(q) \o added)
         /\ RA!ToSet(added) \subseteq RA!ToSet(Tail(q) \o added)
         /\ Tail(q) \in Seq(T) /\ RA!ToSet(Tail(q)) \subseteq RA!ToSet(q)
         /\ RA!ToSet(q) \ {Head(q)} \subseteq RA!ToSet(Tail(q))
<1>1. /\ Len(q) \in Nat /\ Len(q) # 0 /\ DOMAIN q = 1 .. Len(q) /\ Head(q) = q[1] /\ Tail(q) \in Seq(T)
      /\ Len(Tail(q)) = Len(q) - 1 /\ DOMAIN Tail(q) = 1 .. (Len(q) - 1)
      /\ \A i \in 1 .. (Len(q) - 1) : Tail(q)[i] = q[i + 1]
  BY HeadTailProperties, EmptySeq
<1>2. Head(q) \in T /\ Head(q) \in RA!ToSet(q)
  BY <1>1 DEF RA!ToSet
<1>3. RA!ToSet(Tail(q)) \subseteq RA!ToSet(q)
  <2> SUFFICES ASSUME NEW i \in 1 .. (Len(q) - 1) PROVE Tail(q)[i] \in RA!ToSet(q)
    BY <1>1 DEF RA!ToSet
  <2>1. i + 1 \in DOMAIN q
    BY <1>1
  <2> QED BY <1>1, <2>1 DEF RA!ToSet
<1>4. RA!ToSet(q) \ {Head(q)} \subseteq RA!ToSet(Tail(q))
  <2> SUFFICES ASSUME NEW i \in 1 .. Len(q), q[i] # Head(q) PROVE q[i] \in RA!ToSet(Tail(q))
    BY <1>1 DEF RA!ToSet
  <2>1. i # 1
    BY <1>1
  <2>2. i - 1 \in DOMAIN Tail(q) /\ Tail(q)[i - 1] = q[i]
    BY <1>1, <2>1
  <2> QED BY <2>2 DEF RA!ToSet
<1>5. Tail(q) \o added \in Seq(T) /\ RA!ToSet(Tail(q) \o added) = RA!ToSet(Tail(q)) \cup RA!ToSet(added)
  BY <1>1, ElementsOfConcat
<1> QED BY <1>1, <1>2, <1>3, <1>4, <1>5

LEMMA RoutesInit == Init => RoutesInv
<1> SUFFICES ASSUME RA!Init PROVE RA!Inv
  BY DEF Init, RoutesInv
<1> DEFINE ss == [i \in DOMAIN v1.order |-> RA!Owned(v1.order[i])]
<1>1. /\ v1 \in Applications /\ v2 = [f \in RA!Files |-> {r \in RA!Routes : f \in RA!ToSet(RA!Owned(r))}]
      /\ v3 = RA!FlattenSeq(ss) /\ v4 = {} /\ v5 = RA!NoWalk
  BY DEF RA!Init
<1>2. /\ v1.order \in Seq(RA!Routes) /\ RA!ToSet(v1.order) = RA!Routes
      /\ \A r \in RA!Routes : RA!Owned(r) \in Seq(RA!Files)
  BY <1>1, TheApplication
<1>3. ss \in Seq(Seq(RA!Files)) /\ DOMAIN ss = DOMAIN v1.order
  <2>1. /\ Len(v1.order) \in Nat /\ DOMAIN v1.order = 1 .. Len(v1.order)
        /\ \A i \in 1 .. Len(v1.order) : v1.order[i] \in RA!Routes
    BY <1>2
  <2>2. \A i \in 1 .. Len(v1.order) : RA!Owned(v1.order[i]) \in Seq(RA!Files)
    BY <1>2, <2>1
  <2> QED BY <2>1, <2>2
<1>4. \A r \in RA!Routes : \E i \in DOMAIN ss : ss[i] = RA!Owned(r)
  BY <1>2 DEF RA!ToSet
<1> HIDE DEF ss
<1>5. v3 \in Seq(RA!Files) /\ RA!ToSet(v3) = UNION {RA!ToSet(ss[i]) : i \in DOMAIN ss}
  BY <1>1, <1>3, Flattened
<1>6. \A r \in RA!Routes : RA!ToSet(RA!Owned(r)) \subseteq RA!ToSet(v3) /\ RA!ToSet(RA!Owned(r)) \subseteq RA!Files
  BY <1>2, <1>4, <1>5, ElementsAre
<1>7. \A f \in RA!Files : v2[f] \subseteq {r \in RA!Routes : f \in RA!Needed(RA!ToSet(RA!Owned(r)))}
  BY <1>1, <1>6, NeededIsClosed
<1>8. \A f \in RA!Files : v2[f] # {} => f \in RA!ToSet(v3)
  BY <1>1, <1>6
<1>9. \A r \in RA!Routes : \A f \in RA!ToSet(RA!Owned(r)) : r \in v2[f]
  BY <1>1, <1>6
<1>10. RA!AnalysisInv
  BY <1>1, <1>5, <1>7, <1>8, <1>9 DEF RA!AnalysisInv
<1>11. v5 \in RA!Walks /\ v5.of = ""
  <2>1. <<>> \in Seq(RA!Files)
    OBVIOUS
  <2> QED BY <1>1, <2>1 DEF RA!NoWalk, RA!Walks
<1> QED BY <1>10, <1>11 DEF RA!Inv, RA!WalkInv

LEMMA FilesStay ==
  ASSUME NEW f, v1' = v1
  PROVE  /\ RA!Files' = RA!Files /\ RA!Routes' = RA!Routes /\ RA!IsClient(f)' = RA!IsClient(f)
         /\ RA!Owned(f)' = RA!Owned(f) /\ RA!SourceFile(f)' = RA!SourceFile(f)
         /\ RA!Needed(f)' = RA!Needed(f) /\ RA!EdgeOnward(f)' = RA!EdgeOnward(f)
         /\ RA!ReachedByEdge(f)' = RA!ReachedByEdge(f)
BY DEF RA!Files, RA!Routes, RA!IsClient, RA!Directive, RA!Owned, RA!SourceFile, RA!Needed, RA!Closed, RA!EdgeOnward,
       RA!ReachedByEdge

\* The next file hands its routes on.
LEMMA TakeFileKeeps == RA!AnalysisInv /\ RA!TakeFile => RA!AnalysisInv'
<1> SUFFICES ASSUME RA!AnalysisInv, RA!TakeFile PROVE RA!AnalysisInv'
  OBVIOUS
<1> DEFINE f == Head(v3)
           lacking == {g \in RA!Files : ~(v2[f] \subseteq v2[g])}
           gained == IF RA!IsClient(f) THEN <<>> ELSE RA!Enqueued(f)
<1>1. /\ v1 \in Applications /\ DOMAIN v2 = RA!Files /\ v3 \in Seq(RA!Files) /\ v3 # <<>> /\ v4 \subseteq RA!Files
      /\ v4' = v4 \cup {f} /\ v3' = Tail(v3) \o gained /\ UNCHANGED <<v1, v5>>
      /\ v2' = [g \in RA!Files |-> IF g \in RA!ToSet(gained) THEN v2[g] \cup v2[f] ELSE v2[g]]
  BY DEF RA!AnalysisInv, RA!TakeFile
<1>2. f \in RA!Files /\ v1.imports[f] \in Seq(RA!Files)
  BY <1>1, TakenAndAdded, TheApplication
<1>3. RA!Enqueued(f) \in Seq(RA!Files) /\ RA!ToSet(RA!Enqueued(f)) = RA!ToSet(v1.imports[f]) \cap lacking
  BY <1>2, Kept DEF RA!Enqueued, RA!Gaining
<1>4. gained \in Seq(RA!Files)
      /\ RA!ToSet(gained) = IF RA!IsClient(f) THEN {} ELSE RA!ToSet(v1.imports[f]) \cap lacking
  BY <1>3 DEF RA!ToSet
<1> HIDE DEF gained
<1>5. /\ v3' \in Seq(RA!Files) /\ RA!ToSet(v3) \ {f} \subseteq RA!ToSet(v3') /\ RA!ToSet(gained) \subseteq RA!ToSet(v3')
  BY <1>1, <1>4, TakenAndAdded
<1>6. f \notin RA!ToSet(gained) /\ v2'[f] = v2[f]
  BY <1>1, <1>2, <1>4
<1>7. \A g \in RA!Files : v2[g] \subseteq v2'[g] /\ (g \notin RA!ToSet(gained) => v2'[g] = v2[g])
  BY <1>1
<1>8. ASSUME NEW g \in RA!Files PROVE v2'[g] \subseteq {r \in RA!Routes : g \in RA!Needed(RA!ToSet(RA!Owned(r)))}
  <2>1. \A h \in RA!Files : v2[h] \subseteq {r \in RA!Routes : h \in RA!Needed(RA!ToSet(RA!Owned(r)))}
    BY DEF RA!AnalysisInv
  <2>2. CASE g \notin RA!ToSet(gained)
    BY <1>7, <2>1, <2>2
  <2>3. CASE g \in RA!ToSet(gained)
    <3>1. ~RA!IsClient(f) /\ g \in RA!ToSet(v1.imports[f]) /\ v2'[g] = v2[g] \cup v2[f]
      BY <1>1, <1>4, <2>3
    <3>2. ASSUME NEW r \in v2[f] PROVE g \in RA!Needed(RA!ToSet(RA!Owned(r)))
      <4>1. r \in RA!Routes /\ f \in RA!Needed(RA!ToSet(RA!Owned(r)))
        BY <1>2, <2>1
      <4>2. RA!ToSet(RA!Owned(r)) \in SUBSET RA!Files
        BY <1>1, <4>1, TheApplication, ElementsAre
      <4> QED BY <1>1, <3>1, <4>1, <4>2, NeededIsClosed
    <3> QED BY <1>2, <2>1, <3>1, <3>2
  <2> QED BY <2>2, <2>3
<1>9. \A r \in RA!Routes : \A g \in RA!ToSet(RA!Owned(r)) : r \in v2'[g]
  BY <1>1, <1>7, TheApplication, ElementsAre DEF RA!AnalysisInv
<1>10. ASSUME NEW g \in RA!Files, v2'[g] # {}, g \notin RA!ToSet(v3')
       PROVE  g \in v4' /\ (RA!IsClient(g) \/ \A h \in RA!ToSet(v1.imports[g]) : v2'[g] \subseteq v2'[h])
  <2>1. g \notin RA!ToSet(gained) /\ v2'[g] = v2[g]
    BY <1>5, <1>7, <1>10
  <2>2. RA!ToSet(v1.imports[g]) \subseteq RA!Files
    BY <1>1, TheApplication, ElementsAre
  <2>3. CASE g = f
    <3>1. CASE ~RA!IsClient(f)
      <4>1. ASSUME NEW h \in RA!ToSet(v1.imports[f]) PROVE v2[f] \subseteq v2'[h]
        <5>1. h \in RA!Files
          BY <2>2, <2>3
        <5> QED BY <1>1, <1>4, <3>1, <5>1
      <4> QED BY <1>1, <1>6, <2>3, <4>1
    <3>2. CASE RA!IsClient(f)
      BY <1>1, <2>3, <3>2
    <3> QED BY <3>1, <3>2
  <2>4. CASE g # f
    <3>1. g \notin RA!ToSet(v3)
      BY <1>5, <1>10, <2>4
    <3>2. g \in v4 /\ (RA!IsClient(g) \/ \A h \in RA!ToSet(v1.imports[g]) : v2[g] \subseteq v2[h])
      BY <1>10, <2>1, <3>1 DEF RA!AnalysisInv
    <3> QED BY <1>1, <1>7, <2>1, <2>2, <3>2
  <2> QED BY <2>3, <2>4
<1>11. v4' \subseteq RA!Files /\ DOMAIN v2' = RA!Files
  BY <1>1, <1>2
<1> HIDE DEF f
<1>12. \A g : /\ RA!IsClient(g)' = RA!IsClient(g) /\ RA!Owned(g)' = RA!Owned(g) /\ RA!Needed(g)' = RA!Needed(g)
  BY <1>1, FilesStay
<1>13. RA!Files' = RA!Files /\ RA!Routes' = RA!Routes
  BY <1>1, FilesStay
<1> QED BY <1>1, <1>5, <1>8, <1>9, <1>10, <1>11, <1>12, <1>13 DEF RA!AnalysisInv

\* What the imports that the edge check sees lead to from a file: the file, and with each file
\* what it imports.
LEMMA EdgeReaches ==
  ASSUME v1 \in Applications, NEW r \in RA!Files
  PROVE  /\ r \in RA!ReachedByEdge(r) /\ RA!ReachedByEdge(r) \subseteq RA!Files
         /\ \A f \in RA!ReachedByEdge(r) : RA!ToSet(RA!EdgeOnward(f)) \subseteq RA!ReachedByEdge(r)
         /\ \A C \in SUBSET RA!Files :
              r \in C /\ (\A h \in C : RA!ToSet(RA!EdgeOnward(h)) \subseteq C) => RA!ReachedByEdge(r) \subseteq C
<1>1. \A f \in RA!Files : RA!ToSet(v1.edgeImports[f]) \subseteq RA!Files
  BY TheApplication, ElementsAre
<1>2. ASSUME NEW f \in RA!ReachedByEdge(r), NEW g \in RA!ToSet(v1.edgeImports[f])
      PROVE  g \in RA!ReachedByEdge(r)
  <2>1. f \in RA!Files /\ g \in RA!Files
    BY <1>1, <1>2 DEF RA!ReachedByEdge
  <2>2. ASSUME NEW C \in SUBSET RA!Files, r \in C, \A h \in C : RA!ToSet(v1.edgeImports[h]) \subseteq C
        PROVE  g \in C
    <3>1. f \in C
      BY <1>2, <2>2 DEF RA!ReachedByEdge
    <3> QED BY <1>2, <2>2, <3>1
  <2> QED BY <2>1, <2>2 DEF RA!ReachedByEdge
<1>3. r \in RA!ReachedByEdge(r) /\ RA!ReachedByEdge(r) \subseteq RA!Files
  BY DEF RA!ReachedByEdge
<1>4. \A C \in SUBSET RA!Files :
        r \in C /\ (\A h \in C : RA!ToSet(v1.edgeImports[h]) \subseteq C) => RA!ReachedByEdge(r) \subseteq C
  BY DEF RA!ReachedByEdge
<1> QED BY <1>2, <1>3, <1>4 DEF RA!EdgeOnward

\* A walk begins with the files of its route.
LEMMA StartWalkKeeps ==
  ASSUME RA!AnalysisInv, RA!WalkInv, NEW r \in RA!Routes, NEW edge \in BOOLEAN, RA!StartWalk(r, edge)
  PROVE  RA!WalkInv'
<1> DEFINE q == IF edge THEN <<RA!SourceFile(r)>> ELSE RA!Owned(r)
<1>1. /\ v1 \in Applications /\ RA!Analysed /\ UNCHANGED <<v1, v2, v3, v4>>
      /\ v5' = [RA!NoWalk EXCEPT !.of = r, !.edge = edge, !.queue = q]
  BY DEF RA!AnalysisInv, RA!StartWalk, RA!SourceFile
<1>2. /\ RA!Owned(r) \in Seq(RA!Files) /\ RA!SourceFile(r) \in RA!Files
      /\ \A f \in RA!ToSet(RA!Owned(r)) : r \in v2[f]
  BY <1>1, TheApplication DEF RA!AnalysisInv
<1>3. q \in Seq(RA!Files)
  BY <1>2
<1>4. RA!ToSet(q) = IF edge THEN {RA!SourceFile(r)} ELSE RA!ToSet(RA!Owned(r))
  BY DEF RA!ToSet
<1> HIDE DEF q
<1>5. v5' = [of |-> r, edge |-> edge, queue |-> q, visited |-> {}, server |-> {}, client |-> {}]
  BY <1>1 DEF RA!NoWalk
<1>6. v5' \in RA!Walks
  BY <1>3, <1>5 DEF RA!Walks
<1>7. v5'.of = r /\ v5'.edge = edge /\ v5'.visited = {} /\ v5'.server = {} /\ v5'.client = {} /\ RA!Reached' = RA!ToSet(q)
  BY <1>5 DEF RA!Reached
<1>8. RA!Analysed' /\ RA!Walks' = RA!Walks /\ RA!Owned(r)' = RA!Owned(r) /\ RA!SourceFile(r)' = RA!SourceFile(r)
  BY <1>1, FilesStay DEF RA!Analysed, RA!Walks
<1>9. v5'.edge => RA!SourceFile(v5'.of) \in RA!Reached' /\ RA!Reached' \subseteq RA!ReachedByEdge(RA!SourceFile(r))
  <2>1. RA!SourceFile(r) \in RA!ReachedByEdge(RA!SourceFile(r))
    BY <1>1, <1>2, EdgeReaches
  <2> QED BY <1>4, <1>7, <2>1
<1>10. ~v5'.edge => /\ RA!ToSet(RA!Owned(v5'.of)) \subseteq RA!Reached' /\ \A f \in RA!Reached' : v5'.of \in v2'[f]
  BY <1>1, <1>2, <1>4, <1>7
<1>11. (RA!SourceFile(v5.of))' = RA!SourceFile(v5'.of) /\ (RA!Owned(v5.of))' = RA!Owned(v5'.of)
  BY <1>1 DEF RA!SourceFile, RA!Owned
<1>12. (RA!ReachedByEdge(RA!SourceFile(v5.of)))' = RA!ReachedByEdge(RA!SourceFile(r))
  BY <1>1, <1>7 DEF RA!SourceFile, RA!Owned, RA!ReachedByEdge, RA!Files
<1> QED BY <1>6, <1>7, <1>8, <1>9, <1>10, <1>11, <1>12 DEF RA!WalkInv

\* A walk takes the next file, and puts what it leads to behind the others.
LEMMA TakeWalkKeeps ==
  ASSUME RA!AnalysisInv, RA!WalkInv, RA!TakeWalk
  PROVE  RA!WalkInv'
<1> DEFINE f == Head(v5.queue)
           seen == v5.visited \cup {f}
           client == f \in v4 /\ RA!IsClient(f)
           onward == IF v5.edge THEN RA!EdgeOnward(f) ELSE RA!Onward(f)
           added == RA!Those(onward, RA!Files \ seen)
<1>1. /\ v1 \in Applications /\ UNCHANGED <<v1, v2, v3, v4>> /\ v5 \in RA!Walks /\ v5.queue # <<>>
  BY DEF RA!AnalysisInv, RA!WalkInv, RA!TakeWalk
<1>2. /\ v5.of \in RA!Routes \cup {""} /\ v5.edge \in BOOLEAN /\ v5.queue \in Seq(RA!Files)
      /\ v5.visited \subseteq RA!Files /\ v5.server \subseteq RA!Files /\ v5.client \subseteq RA!Files
      /\ v5 = [of |-> v5.of, edge |-> v5.edge, queue |-> v5.queue, visited |-> v5.visited,
               server |-> v5.server, client |-> v5.client]
  BY <1>1 DEF RA!Walks
<1>3. /\ f \in RA!Files /\ f \in RA!ToSet(v5.queue) /\ Tail(v5.queue) \in Seq(RA!Files)
      /\ RA!ToSet(Tail(v5.queue)) \subseteq RA!ToSet(v5.queue)
      /\ RA!ToSet(v5.queue) \ {f} \subseteq RA!ToSet(Tail(v5.queue))
  BY <1>1, <1>2, TakenAndAdded, EmptySeq
<1>4. onward \in Seq(RA!Files)
  <2>1. /\ v1.imports[f] \in Seq(RA!Files) /\ v1.edgeImports[f] \in Seq(RA!Files)
        /\ <<>> \in Seq(RA!Files)
    BY <1>1, <1>3, TheApplication
  <2> QED BY <2>1 DEF RA!EdgeOnward, RA!Onward, RA!ImportsSeen
<1>5. added \in Seq(RA!Files) /\ RA!ToSet(added) = RA!ToSet(onward) \cap (RA!Files \ seen)
  <2> HIDE DEF onward, seen
  <2> QED BY <1>4, Kept
<1>6. /\ (RA!SourceFile(v5.of))' = RA!SourceFile(v5'.of) /\ (RA!Owned(v5.of))' = RA!Owned(v5'.of)
      /\ RA!Walks' = RA!Walks /\ RA!Analysed' = RA!Analysed
      /\ \A g : /\ RA!EdgeOnward(g)' = RA!EdgeOnward(g) /\ RA!Onward(g)' = RA!Onward(g)
                /\ RA!IsClient(g)' = RA!IsClient(g)
  BY <1>1 DEF RA!SourceFile, RA!Owned, RA!Walks, RA!Analysed, RA!EdgeOnward, RA!Onward, RA!ImportsSeen, RA!IsClient,
              RA!Directive, RA!Routes, RA!Files
<1>9. (RA!ReachedByEdge(RA!SourceFile(v5.of)))' = RA!ReachedByEdge(RA!SourceFile(v5'.of))
  BY <1>1 DEF RA!SourceFile, RA!Owned, RA!ReachedByEdge, RA!Files
<1>7. CASE f \in v5.visited
  <2>1. v5' = [of |-> v5.of, edge |-> v5.edge, queue |-> Tail(v5.queue), visited |-> v5.visited,
               server |-> v5.server, client |-> v5.client]
    BY <1>2, <1>7 DEF RA!TakeWalk
  <2>2. v5' \in RA!Walks
    BY <1>2, <1>3, <2>1 DEF RA!Walks
  <2>3. /\ v5'.of = v5.of /\ v5'.edge = v5.edge /\ v5'.visited = v5.visited /\ v5'.server = v5.server
        /\ v5'.client = v5.client /\ v5'.queue = Tail(v5.queue)
    BY <2>1
  <2>4. RA!Reached' = RA!Reached
    BY <1>3, <1>7, <2>3 DEF RA!Reached
  <2> HIDE DEF f
  <2> QED BY <1>1, <1>6, <1>9, <2>2, <2>3, <2>4 DEF RA!WalkInv
<1>8. CASE f \notin v5.visited
  <2>1. v5' = [of |-> v5.of, edge |-> v5.edge, queue |-> Tail(v5.queue) \o added, visited |-> seen,
               server |-> v5.server \cup (IF client THEN {} ELSE {f}),
               client |-> v5.client \cup (IF client THEN {f} ELSE {})]
    BY <1>2, <1>8 DEF RA!TakeWalk
  <2>2. /\ Tail(v5.queue) \o added \in Seq(RA!Files)
        /\ RA!ToSet(Tail(v5.queue) \o added) = RA!ToSet(Tail(v5.queue)) \cup RA!ToSet(added)
    <3>1. Tail(v5.queue) \in Seq(RA!Files) /\ added \in Seq(RA!Files)
      BY <1>3, <1>5
    <3> HIDE DEF added, f, onward, seen, client
    <3>2. \A s, t \in Seq(RA!Files) : s \o t \in Seq(RA!Files) /\ RA!ToSet(s \o t) = RA!ToSet(s) \cup RA!ToSet(t)
      BY ElementsOfConcat
    <3> QED BY <3>1, <3>2
  <2>3. /\ v5'.of = v5.of /\ v5'.edge = v5.edge /\ v5'.visited = v5.visited \cup {f}
        /\ v5'.server = v5.server \cup (IF client THEN {} ELSE {f})
        /\ v5'.client = v5.client \cup (IF client THEN {f} ELSE {})
        /\ RA!ToSet(v5'.queue) = RA!ToSet(Tail(v5.queue)) \cup RA!ToSet(added)
    BY <2>1, <2>2
  <2>4. v5' \in RA!Walks
    <3> HIDE DEF added, client, f
    <3> QED BY <1>2, <1>3, <2>1, <2>2 DEF RA!Walks
  <2>5. RA!Reached' = RA!Reached \cup RA!ToSet(added)
    BY <1>3, <2>3 DEF RA!Reached
  <2>6. RA!ToSet(onward) \subseteq RA!Reached'
    <3>1. RA!ToSet(onward) \subseteq RA!Files
      <4> HIDE DEF onward
      <4> QED BY <1>4, ElementsAre
    <3> HIDE DEF onward, added
    <3> QED BY <1>3, <1>5, <2>5, <3>1 DEF RA!Reached
  <2>7. ASSUME v5.of # "", v5.edge
        PROVE  /\ RA!SourceFile(v5.of) \in RA!Reached'
               /\ \A g \in v5'.visited : RA!ToSet(RA!EdgeOnward(g)) \subseteq RA!Reached'
    BY <2>3, <2>5, <2>6, <2>7 DEF RA!WalkInv
  <2>13. ASSUME v5.of # "", v5.edge
         PROVE  RA!Reached' \subseteq RA!ReachedByEdge(RA!SourceFile(v5.of))
    <3>1. RA!SourceFile(v5.of) \in RA!Files
      BY <1>1, <1>2, <2>13, TheApplication
    <3>2. RA!Reached \subseteq RA!ReachedByEdge(RA!SourceFile(v5.of))
      BY <2>13 DEF RA!WalkInv
    <3>3. f \in RA!ReachedByEdge(RA!SourceFile(v5.of))
      BY <1>3, <3>2 DEF RA!Reached
    <3>4. RA!ToSet(onward) \subseteq RA!ReachedByEdge(RA!SourceFile(v5.of))
      BY <1>1, <2>13, <3>1, <3>3, EdgeReaches
    <3> HIDE DEF onward, added, f
    <3> QED BY <1>5, <2>5, <3>2, <3>4
  <2>8. ASSUME v5.of # "", ~v5.edge
        PROVE  /\ RA!ToSet(RA!Owned(v5.of)) \subseteq RA!Reached'
               /\ \A g \in v5'.visited : RA!ToSet(RA!Onward(g)) \subseteq RA!Reached'
    BY <2>3, <2>5, <2>6, <2>8 DEF RA!WalkInv
  <2>9. ASSUME v5.of # "", ~v5.edge
        PROVE  \A g \in RA!Reached' : v5.of \in v2[g]
    <3>1. v5.of \in v2[f] /\ v3 = <<>>
      BY <1>3, <2>9 DEF RA!WalkInv, RA!Reached, RA!Analysed
    <3>2. f \in v4 /\ (RA!IsClient(f) \/ \A g \in RA!ToSet(v1.imports[f]) : v2[f] \subseteq v2[g])
      BY <1>3, <3>1 DEF RA!AnalysisInv, RA!ToSet
    <3>3. \A g \in RA!ToSet(RA!Onward(f)) : v5.of \in v2[g]
      <4>1. CASE RA!IsClient(f)
        BY <3>2, <4>1 DEF RA!Onward, RA!ToSet
      <4>2. CASE ~RA!IsClient(f)
        BY <3>1, <3>2, <4>2 DEF RA!Onward, RA!ImportsSeen
      <4> QED BY <4>1, <4>2
    <3>4. \A g \in RA!ToSet(added) : v5.of \in v2[g]
      <4> HIDE DEF added, f
      <4> QED BY <1>5, <2>9, <3>3
    <3> HIDE DEF added, f
    <3> QED BY <2>5, <2>9, <3>4 DEF RA!WalkInv
  <2>10. ASSUME v5.of # "", ~v5.edge
         PROVE  /\ v5'.client = {g \in v5'.visited : g \in v4 /\ RA!IsClient(g)}
                /\ v5'.server = v5'.visited \ v5'.client
    <3>1. v5.client = {g \in v5.visited : g \in v4 /\ RA!IsClient(g)} /\ v5.server = v5.visited \ v5.client
      BY <2>10 DEF RA!WalkInv
    <3> HIDE DEF f
    <3>2. CASE client
      BY <1>8, <2>3, <3>1, <3>2
    <3>3. CASE ~client
      BY <1>8, <2>3, <3>1, <3>3
    <3> QED BY <3>2, <3>3
  <2> HIDE DEF f, added, client, onward, seen
  <2>11. RA!Analysed = RA!Analysed'
    BY <1>6
  <2>12. v5.of # "" => RA!Analysed'
    BY <2>11 DEF RA!WalkInv
  <2> QED BY <1>1, <1>6, <1>9, <2>3, <2>4, <2>7, <2>8, <2>9, <2>10, <2>12, <2>13 DEF RA!WalkInv
<1> QED BY <1>7, <1>8

LEMMA RoutesNext == RoutesInv /\ [Next]_all => RoutesInv'
<1> SUFFICES ASSUME RoutesInv, [Next]_all, which' = "routes" PROVE RA!Inv'
  BY DEF RoutesInv
<1>1. which = "routes" /\ [RA!Next]_routes
  BY RoutesSteps
<1>2. RA!AnalysisInv /\ RA!WalkInv
  BY <1>1 DEF RoutesInv, RA!Inv
<1>3. ASSUME UNCHANGED <<v1, v2, v3, v4>> PROVE RA!AnalysisInv'
  <2>1. \A g : /\ RA!IsClient(g)' = RA!IsClient(g) /\ RA!Owned(g)' = RA!Owned(g) /\ RA!Needed(g)' = RA!Needed(g)
    BY <1>3, FilesStay
  <2>2. RA!Files' = RA!Files /\ RA!Routes' = RA!Routes
    BY <1>3, FilesStay
  <2> QED BY <1>2, <1>3, <2>1, <2>2 DEF RA!AnalysisInv
<1>4. CASE UNCHANGED routes
  <2>1. UNCHANGED <<v1, v2, v3, v4, v5>>
    BY <1>4 DEF routes
  <2>2. RA!WalkInv'
    BY <1>2, <2>1 DEF RA!WalkInv, RA!Walks, RA!Analysed, RA!Reached, RA!SourceFile, RA!Owned, RA!EdgeOnward, RA!Onward,
                      RA!ImportsSeen, RA!IsClient, RA!Directive, RA!Files, RA!Routes, RA!ReachedByEdge
  <2> QED BY <1>3, <2>1, <2>2 DEF RA!Inv
<1>5. CASE RA!TakeFile
  <2>1. RA!AnalysisInv'
    BY <1>2, <1>5, TakeFileKeeps
  <2>2. v3 # <<>> /\ v5' = v5 /\ v1' = v1
    BY <1>5 DEF RA!TakeFile
  <2>3. v5.of = ""
    BY <1>2, <2>2 DEF RA!WalkInv, RA!Analysed
  <2>4. RA!WalkInv'
    BY <1>2, <2>2, <2>3 DEF RA!WalkInv, RA!Walks, RA!Files, RA!Routes
  <2> QED BY <2>1, <2>4 DEF RA!Inv
<1>6. ASSUME NEW r \in RA!Routes, NEW edge \in BOOLEAN, RA!StartWalk(r, edge) PROVE RA!Inv'
  <2>1. UNCHANGED <<v1, v2, v3, v4>>
    BY <1>6 DEF RA!StartWalk
  <2> QED BY <1>2, <1>3, <1>6, <2>1, StartWalkKeeps DEF RA!Inv
<1>7. CASE RA!TakeWalk
  <2>1. UNCHANGED <<v1, v2, v3, v4>>
    BY <1>7 DEF RA!TakeWalk
  <2> QED BY <1>2, <1>3, <1>7, <2>1, TakeWalkKeeps DEF RA!Inv
<1> QED BY <1>1, <1>4, <1>5, <1>6, <1>7 DEF RA!Next

LEMMA RoutesAlways == Spec => []RoutesInv
BY RoutesInit, RoutesNext, PTL DEF Spec

\* When nothing is queued, what a route owns is closed, and so it is what the route needs.
LEMMA OwnersAreRight ==
  ASSUME RA!AnalysisInv, RA!Analysed
  PROVE  /\ \A f \in RA!Files : v2[f] = {r \in RA!Routes : f \in RA!Needed(RA!ToSet(RA!Owned(r)))}
         /\ \A f \in RA!Files : v2[f] # {} => f \in v4
<1>1. v1 \in Applications /\ RA!ToSet(v3) = {}
  BY DEF RA!AnalysisInv, RA!Analysed, RA!ToSet
<1>2. \A f \in RA!Files : v2[f] # {} => /\ f \in v4
                                        /\ RA!IsClient(f) \/ \A g \in RA!ToSet(v1.imports[f]) : v2[f] \subseteq v2[g]
  BY <1>1 DEF RA!AnalysisInv
<1>3. ASSUME NEW r \in RA!Routes PROVE \A f \in RA!Needed(RA!ToSet(RA!Owned(r))) : r \in v2[f]
  <2> DEFINE C == {f \in RA!Files : r \in v2[f]}
  <2>1. RA!ToSet(RA!Owned(r)) \subseteq RA!Files
    BY <1>1, TheApplication, ElementsAre
  <2>2. RA!ToSet(RA!Owned(r)) \subseteq C
    BY <2>1 DEF RA!AnalysisInv
  <2>3. \A f \in RA!Files : RA!ToSet(v1.imports[f]) \subseteq RA!Files
    BY <1>1, TheApplication, ElementsAre
  <2>4. RA!Closed(C)
    BY <1>2, <2>3 DEF RA!Closed
  <2>5. RA!Needed(RA!ToSet(RA!Owned(r))) \subseteq C
    <3> HIDE DEF C
    <3>1. C \in SUBSET RA!Files
      BY DEF C
    <3> QED BY <1>1, <2>1, <2>2, <2>4, <3>1, NeededIsClosed
  <2> QED BY <2>5
<1>4. \A f \in RA!Files : v2[f] \subseteq {r \in RA!Routes : f \in RA!Needed(RA!ToSet(RA!Owned(r)))}
  BY DEF RA!AnalysisInv
<1>5. \A f \in RA!Files : {r \in RA!Routes : f \in RA!Needed(RA!ToSet(RA!Owned(r)))} \subseteq v2[f]
  BY <1>3
<1> QED BY <1>2, <1>4, <1>5

LEMMA NothingInNone == RA!ToSet(<<>>) = {}
<1>1. DOMAIN <<>> = {}
  BY SMT
<1> QED BY <1>1 DEF RA!ToSet

LEMMA RoutesSay == RoutesInv => RA_OwnersAreThoseWhoNeed /\ RA_WalksAgree /\ RA_EdgeCheckMissesTheUnseen
<1> SUFFICES ASSUME RA!AnalysisInv, RA!WalkInv
             PROVE  RA!OwnersAreThoseWhoNeed /\ RA!WalksAgree /\ RA!EdgeCheckMissesTheUnseen
  BY DEF RoutesInv, RA!Inv, RA_OwnersAreThoseWhoNeed, RA_WalksAgree, RA_EdgeCheckMissesTheUnseen
<1>1. RA!OwnersAreThoseWhoNeed
  BY OwnersAreRight DEF RA!OwnersAreThoseWhoNeed, RA!Needed
<1>2. v1 \in Applications /\ v5 \in RA!Walks /\ v4 \subseteq RA!Files
  BY DEF RA!AnalysisInv, RA!WalkInv
<1>3. v5.of \in RA!Routes \cup {""} /\ v5.visited \subseteq RA!Files
  BY <1>2 DEF RA!Walks
<1>4. RA!WalksAgree
  <2> SUFFICES ASSUME v5.of # "", ~v5.edge, v5.queue = <<>>
               PROVE  /\ v5.server = {f \in RA!ServerReferences : v5.of \in v2[f]}
                      /\ v5.client = {f \in v4 : RA!IsClient(f) /\ v5.of \in v2[f]}
    BY DEF RA!WalksAgree
  <2>1. RA!Analysed /\ v5.of \in RA!Routes
    BY <1>3 DEF RA!WalkInv
  <2>2. RA!Reached = v5.visited
    <3>1. RA!ToSet(v5.queue) = {}
      BY NothingInNone
    <3> QED BY <3>1 DEF RA!Reached
  <2>3. /\ RA!ToSet(RA!Owned(v5.of)) \subseteq v5.visited /\ \A f \in v5.visited : v5.of \in v2[f]
        /\ \A f \in v5.visited : RA!ToSet(RA!Onward(f)) \subseteq v5.visited
        /\ v5.client = {f \in v5.visited : f \in v4 /\ RA!IsClient(f)} /\ v5.server = v5.visited \ v5.client
    BY <2>2 DEF RA!WalkInv
  <2>4. \A f \in v5.visited : f \in v4
    BY <1>3, <2>1, <2>3, OwnersAreRight
  <2>5. RA!Closed(v5.visited)
    BY <2>3, <2>4 DEF RA!Closed, RA!Onward, RA!ImportsSeen
  <2>6. RA!ToSet(RA!Owned(v5.of)) \in SUBSET RA!Files
    BY <1>3, <2>3
  <2>7. RA!Needed(RA!ToSet(RA!Owned(v5.of))) \subseteq v5.visited
    <3>1. v5.visited \in SUBSET RA!Files
      BY <1>3
    <3>2. \A C \in SUBSET RA!Files :
            RA!ToSet(RA!Owned(v5.of)) \subseteq C /\ RA!Closed(C) => RA!Needed(RA!ToSet(RA!Owned(v5.of))) \subseteq C
      BY <1>2, <2>6, NeededIsClosed
    <3> QED BY <2>3, <2>5, <3>1, <3>2
  <2>8. \A f \in RA!Files : v5.of \in v2[f] <=> f \in v5.visited
    BY <2>1, <2>3, <2>7, OwnersAreRight
  <2> QED BY <1>2, <1>3, <2>3, <2>4, <2>8 DEF RA!ServerReferences
<1>5. RA!EdgeCheckMissesTheUnseen
  <2> DEFINE src == RA!SourceFile(v5.of)
             needed == RA!Needed({src})
  <2> SUFFICES ASSUME v5.of # "", v5.edge, v5.queue = <<>>
               PROVE  /\ RA!EdgeViolations = {f \in RA!ReachedByEdge(src) : v1.listed[f]}
                      /\ \A f \in needed : v1.builtins[f] /\ f \notin RA!EdgeViolations =>
                           \/ ~v1.listed[f]
                           \/ \E g \in needed \cap v5.visited :
                                ~RA!IsClient(g) /\ ~(RA!ToSet(v1.imports[g]) \subseteq RA!ToSet(v1.edgeImports[g]))
    BY DEF RA!EdgeCheckMissesTheUnseen
  <2> HIDE DEF src, needed
  <2>1. RA!Reached = v5.visited
    <3>1. RA!ToSet(v5.queue) = {}
      BY NothingInNone
    <3> QED BY <3>1 DEF RA!Reached
  <2>2. /\ src \in v5.visited /\ v5.visited \subseteq RA!ReachedByEdge(src)
        /\ \A f \in v5.visited : RA!ToSet(RA!EdgeOnward(f)) \subseteq v5.visited
    BY <2>1 DEF RA!WalkInv, src
  <2>3. RA!ReachedByEdge(src) \subseteq v5.visited
    <3>1. src \in RA!Files
      BY <1>3, <2>2
    <3> QED BY <1>2, <1>3, <2>2, <3>1, EdgeReaches
  <2>4. RA!EdgeViolations = {f \in RA!ReachedByEdge(src) : v1.listed[f]}
    BY <2>2, <2>3 DEF RA!EdgeViolations
  <2>5. ASSUME NEW f \in needed, f \notin RA!EdgeViolations, v1.listed[f],
               \A g \in needed \cap v5.visited :
                 RA!IsClient(g) \/ RA!ToSet(v1.imports[g]) \subseteq RA!ToSet(v1.edgeImports[g])
        PROVE  FALSE
    <3> DEFINE C == needed \cap v5.visited
    <3>1. {src} \in SUBSET RA!Files
      BY <1>3, <2>2
    <3>2. {src} \subseteq needed /\ RA!Closed(needed) /\ needed \in SUBSET RA!Files
      BY <1>2, <3>1, NeededIsClosed DEF needed, RA!Closed
    <3>3. {src} \subseteq C /\ C \in SUBSET RA!Files
      BY <2>2, <3>2
    <3>4. RA!Closed(C)
      BY <2>2, <2>5, <3>2 DEF RA!Closed, RA!EdgeOnward
    <3>5. needed \subseteq C
      <4>1. \A D \in SUBSET RA!Files : {src} \subseteq D /\ RA!Closed(D) => needed \subseteq D
        BY <1>2, <3>1, NeededIsClosed DEF needed
      <4> HIDE DEF C
      <4> QED BY <3>3, <3>4, <4>1
    <3> QED BY <2>5, <3>5 DEF RA!EdgeViolations
  <2> QED BY <2>4, <2>5
<1> QED BY <1>1, <1>4, <1>5

(* BoundariesAreFound: the analysis gives a module to exactly the routes that need it, *)
(* the walk over the boundaries finds what it found, and the edge check all that its   *)
(* own reading of the sources sees, for any imports, cycles included.                  *)
THEOREM OwnersAreThoseWhoNeed == Spec => []BoundariesAreFound
<1>1. RoutesInv => BoundariesAreFound
  BY RoutesSay DEF BoundariesAreFound
<1> QED BY <1>1, RoutesAlways, PTL
================================================================================
