------------------------------- MODULE Routing -------------------------------
(***************************************************************************)
(* The routes scanned from the application's directories, and the match of *)
(* a pathname against them.  A directory is a record with the kind of its  *)
(* segment, its meaning and its name (the slot of a parallel segment, the  *)
(* marker of an intercepting one); a page is the sequence of the           *)
(* directories that lead to it, and stands for its id by its place in      *)
(* Pool, which is listed in the order localeCompare gives the ids.         *)
(***************************************************************************)
EXTENDS Integers, Sequences, FiniteSetsExt

CONSTANTS
  Pool,      \* the pages an application may have, in the order of their ids
  MaxPages,  \* how many it has at most
  Paths,     \* the pathnames asked for, as sequences of segments
  None

VARIABLES pages, path, intercept, answer

vars == <<pages, path, intercept, answer>>

\* What a pool is: a slot and an interception have their name from their directory.
Segments == UNION {Range(Pool[p]) : p \in DOMAIN Pool}
WellFormed ==
  /\ Pool \in Seq(Seq(Segments))
  /\ \A s \in Segments : /\ s.kind \in {"static", "dynamic", "catchall", "optional"}
                         /\ s.sem = "parallel" => s.name # None
                         /\ s.sem = "intercepting" => s.marker # None

\* A group or a slot takes nothing from a path.
Transparent(s) == s.sem \in {"group", "parallel"}

\* buildPathname: a transparent directory has no part in it.
Pathname(p) ==
  LET shown[n \in 0 .. Len(Pool[p])] ==
        IF n = 0 THEN <<>>
        ELSE IF Transparent(Pool[p][n]) THEN shown[n - 1] ELSE Append(shown[n - 1], Pool[p][n])
  IN  shown[Len(Pool[p])]

Directories(p, sem) == {i \in DOMAIN Pool[p] : Pool[p][i].sem = sem}
SlotName(p) ==
  LET slots == Directories(p, "parallel") IN IF slots = {} THEN None ELSE Pool[p][Max(slots)].name
InterceptTarget(p) ==
  LET markers == Directories(p, "intercepting")
  IN  IF markers = {} THEN None ELSE Pool[p][Max(markers)].marker

\* The pathname as text, which is what the conflicts are found by: a marker of
\* interception does not show in it.
Shown(p) == [i \in DOMAIN Pathname(p) |-> <<Pathname(p)[i].kind, Pathname(p)[i].name>>]
ConflictKey(p) == <<Shown(p), SlotName(p), InterceptTarget(p)>>
\* Mutant: the conflicts are looked for among the pages outside slots.
NoPageConflicts(ps) ==
  \A i, j \in DOMAIN ps :
    SlotName(ps[i]) = None /\ ConflictKey(ps[i]) = ConflictKey(ps[j]) => i = j

NoConflicts(ps) == \A i, j \in DOMAIN ps : ConflictKey(ps[i]) = ConflictKey(ps[j]) => i = j

\* The sum of scores.
Total(scores) ==
  LET sum[n \in 0 .. Len(scores)] == IF n = 0 THEN 0 ELSE sum[n - 1] + scores[n]
  IN  sum[Len(scores)]

ScanScore(p) ==
  Total([i \in DOMAIN Pool[p] |-> CASE Pool[p][i].kind = "static" -> 100
                                     [] Pool[p][i].kind = "dynamic" -> 10
                                     [] Pool[p][i].kind = "catchall" -> 1
                                     [] OTHER -> 0])

\* scanRoutes: the routes by their score, and those of one score in the order the directories
\* were read; the sort is stable.
Scanned(ps, i, j) ==
  \/ ScanScore(ps[i]) > ScanScore(ps[j])
  \/ ScanScore(ps[i]) = ScanScore(ps[j]) /\ i <= j

\* createRouteGraph: a slot or an interception hangs from the page of its
\* pathname, where there is one.
IsPrimary(p) == SlotName(p) = None /\ InterceptTarget(p) = None
Canonical(ps, p) ==
  LET primaries == {q \in Range(ps) : IsPrimary(q) /\ Shown(q) = Shown(p)}
  IN  IF primaries = {} THEN p ELSE CHOOSE q \in primaries : TRUE

\* matchSegments: what each segment takes from the path, left to right.  Taken is how much
\* is taken after s where n was before it, or -1.
\* Mutant: a catch-all also matches where nothing is left.
MayTakeNothing == 0
CatchAllTakes == 1
Taken(s, n, target) ==
  CASE n = -1 -> -1
    [] n # -1 /\ Transparent(s) -> n
    [] n # -1 /\ ~Transparent(s) /\ s.kind = "static" ->
         IF n < Len(target) /\ target[n + 1] = s.name THEN n + 1 ELSE -1
    [] n # -1 /\ ~Transparent(s) /\ s.kind = "dynamic" -> IF n < Len(target) THEN n + 1 ELSE -1
    [] n # -1 /\ ~Transparent(s) /\ s.kind = "catchall" ->
         IF Len(target) - n >= CatchAllTakes THEN Len(target) ELSE -1
    [] n # -1 /\ ~Transparent(s) /\ s.kind = "optional" -> Len(target)
MatchSegments(segments, target) ==
  LET taken[i \in 0 .. Len(segments)] ==
        IF i = 0 THEN 0 ELSE Taken(segments[i], taken[i - 1], target)
  IN  taken[Len(segments)] = Len(target)

\* scoreRouteMatch.  A segment that does not route is worth 2, whatever it is.  The mode is
\* whether the request asks for an interception.
SegmentScore(s, mode) ==
  IF Transparent(s) THEN 2
  ELSE (CASE s.kind = "static" -> 100 [] s.kind = "dynamic" -> 20
          [] s.kind = "catchall" -> 5 [] OTHER -> 1)
       + (IF s.sem # "intercepting" THEN 0 ELSE IF mode THEN 25 ELSE -10)
SumScores(p, mode) == Total([i \in DOMAIN Pool[p] |-> SegmentScore(Pool[p][i], mode)])
\* Mutant: a catch-all counts for as much as a static segment.
GreedyScore(p, mode) ==
  Total([i \in DOMAIN Pool[p] |->
           IF Pool[p][i].kind = "catchall" THEN 125 ELSE SegmentScore(Pool[p][i], mode)])
    + (IF SlotName(p) = None THEN 10 ELSE 0)

Score(p, mode) ==
  SumScores(p, mode) + (IF SlotName(p) = None THEN 10 ELSE 0)
    + (IF InterceptTarget(p) = None THEN 5 ELSE IF mode THEN 15 ELSE 0)

\* Mutant: pages with the same score stay in the order they were scanned in.
CompareScores(l, r, mode) ==
  IF Score(l, mode) > Score(r, mode) THEN -1 ELSE IF Score(l, mode) < Score(r, mode) THEN 1 ELSE 0

\* compareCandidates: 0 stands for the pages it does not tell apart.
Compare(l, r, mode) ==
  LET By(a, b) == IF a < b THEN -1 ELSE IF a > b THEN 1 ELSE 0
      First(x, y) == IF x # 0 THEN x ELSE y
      Bit(b) == IF b THEN 1 ELSE 0
  IN  First(By(Score(r, mode), Score(l, mode)),
      First(By(Len(Pool[r]), Len(Pool[l])),
      First(By(Bit(SlotName(l) # None), Bit(SlotName(r) # None)),
      First(By(Bit(InterceptTarget(l) # None), Bit(InterceptTarget(r) # None)),
            By(l, r)))))

\* The candidates, and which is before which: their sort is stable, too.
Candidates(ps, target) == {i \in DOMAIN ps : MatchSegments(Pool[ps[i]], target)}
Before(ps, i, j, mode) ==
  \/ Compare(ps[i], ps[j], mode) < 0
  \/ Compare(ps[i], ps[j], mode) = 0 /\ Scanned(ps, i, j)

\* selectPrimaryMatch: the first candidate of the first test that has one.
Wanted(k, p, mode) ==
  CASE k = 1 -> SlotName(p) = None /\ ((InterceptTarget(p) # None) <=> mode)
    [] k = 2 -> IsPrimary(p)
    [] k = 3 -> SlotName(p) = None
    [] OTHER -> TRUE
Primary(ps, found, mode) ==
  LET test == Min({k \in 1 .. 4 : \E i \in found : Wanted(k, ps[i], mode)})
      wanted == {i \in found : Wanted(test, ps[i], mode)}
      first == {i \in wanted : \A j \in wanted : Before(ps, i, j, mode)}
  IN  ps[CHOOSE i \in first : TRUE]

Parallel(ps, found, p) ==
  {q \in {ps[i] : i \in found} : /\ SlotName(q) # None /\ Canonical(ps, q) = Canonical(ps, p)
                                 /\ InterceptTarget(q) = InterceptTarget(p)}

\* The adapters' createDefaultHandler: a regular expression of the pathname's text, in which
\* every segment in brackets stands for one of the path, and the closing bracket that is
\* left of an optional catch-all for itself.
\* Mutant: a segment in brackets may also be missing.
PrefixSegment(p, i) == i > Len(path) \/ Pathname(p)[i].kind = "dynamic" \/ path[i] = Pathname(p)[i].name
OneSegment(p, i) ==
  CASE Pathname(p)[i].kind = "static" -> i <= Len(path) /\ path[i] = Pathname(p)[i].name
    [] Pathname(p)[i].kind \in {"dynamic", "catchall"} -> i <= Len(path)
    [] OTHER -> FALSE
AdapterMatches(p) ==
  Len(path) <= Len(Pathname(p)) /\ \A i \in DOMAIN Pathname(p) : OneSegment(p, i)

NoAnswer(why) == [is |-> why, page |-> None, slots |-> {}]

\* matchRouteCollection
Match(ps, target, mode) ==
  LET found == Candidates(ps, target)
  IN  IF found = {} THEN NoAnswer("none")
      ELSE [is |-> "matched", page |-> Primary(ps, found, mode),
            slots |-> Parallel(ps, found, Primary(ps, found, mode))]

Init ==
  /\ pages \in UNION {{s \in [1..n -> DOMAIN Pool] : IsInjective(s)} : n \in 0..MaxPages}
  /\ path \in Paths /\ intercept \in BOOLEAN /\ answer = NoAnswer("asked")

\* A conflict fails the scan; otherwise the request is matched.
Answer ==
  /\ answer.is = "asked"
  /\ answer' = IF NoConflicts(pages) THEN Match(pages, path, intercept) ELSE NoAnswer("conflict")
  /\ UNCHANGED <<pages, path, intercept>>

Served == answer.is # "asked" /\ UNCHANGED vars
Next == Answer \/ Served
Spec == Init /\ [][Next]_vars

-----------------------------------------------------------------------------
Matched == answer.is = "matched"

\* What a page means: the path can be cut into parts, one for each of its segments; a
\* catch-all has all of the rest.
Covers(s, p) ==
  \E cut \in [0 .. Len(s) -> 0 .. Len(p)] :
    /\ cut[0] = 0 /\ cut[Len(s)] = Len(p)
    /\ \A i \in DOMAIN s :
         CASE s[i].kind = "static" -> cut[i] = cut[i - 1] + 1 /\ p[cut[i]] = s[i].name
           [] s[i].kind = "dynamic" -> cut[i] = cut[i - 1] + 1
           [] s[i].kind = "catchall" -> cut[i] = Len(p) /\ cut[i - 1] < Len(p)
           [] s[i].kind = "optional" -> cut[i] = Len(p)

(* A request is answered by a page that covers its path, and goes           *)
(* unanswered only if no page does: matchSegments against what the         *)
(* segments mean.                                                          *)
AnswerCovers ==
  /\ Matched => Covers(Pathname(answer.page), path)
  /\ answer.is = "none" => \A i \in DOMAIN pages : ~Covers(Pathname(pages[i]), path)

(* The order the directories are read in does not choose the page: among   *)
(* all orders of the same pages, matchRouteCollection gives one answer.    *)
OrderDoesNotMatter ==
  Matched => \A s \in [DOMAIN pages -> Range(pages)] :
               Range(s) = Range(pages) => Match(s, path, intercept) = answer

\* A group is worth 2, so that forty of them are worth more than a static segment is above
\* a dynamic one.
ManyGroups(p) == Len(Pool[p]) >= Len(Pathname(p)) + 40

\* A page that two directories intercept gains twice as much as another by being asked for.
OneInterception(p) == \A i, j \in Directories(p, "intercepting") : i = j

(* A page whose segments are the path itself wins over every dynamic and   *)
(* catch-all page; only an optional catch-all that has nothing to catch    *)
(* scores above it, and a page with forty groups.                          *)
ExactPageWins ==
  LET Exact(p) == IsPrimary(p) /\ \A i \in DOMAIN Pathname(p) : Pathname(p)[i].kind = "static"
      Empty(p) == \E i \in DOMAIN Pathname(p) : Pathname(p)[i].kind = "optional" /\ Len(path) < i
  IN  Matched /\ ~intercept /\ (\E p \in Range(pages) : Exact(p) /\ Covers(Pathname(p), path)) =>
        Exact(answer.page) \/ Empty(answer.page) \/ ManyGroups(answer.page)

(* The slots of an answer have different names and the page is none of    *)
(* them: the object that maps a slot's name to its page loses no page.     *)
SlotsAreTheirOwn ==
  Matched =>
    /\ Cardinality({SlotName(q) : q \in answer.slots}) = Cardinality(answer.slots)
    /\ (\E p \in Range(pages) : SlotName(p) = None /\ Covers(Pathname(p), path)) =>
         SlotName(answer.page) = None

(* An adapter answers what the framework's server would: it matches the    *)
(* text of the pathnames in the order of the manifest, the server the      *)
(* segments in the order of their scores.  The two part with a catch-all.  *)
AdapterAgrees ==
  (answer.is \in {"matched", "none"}
     /\ \A p \in Range(pages) : \A i \in DOMAIN Pool[p] : Pool[p][i].kind \notin {"catchall", "optional"}) =>
       (Matched <=> \E p \in Range(pages) : AdapterMatches(p))

(* What all of them rest on: the answer is the match of the request, unless *)
(* the scan failed.                                                        *)
Inv ==
  /\ \E n \in 0 .. MaxPages : pages \in [1 .. n -> DOMAIN Pool]
  /\ path \in Paths /\ intercept \in BOOLEAN
  /\ \/ answer = NoAnswer("asked")
     \/ NoConflicts(pages) /\ answer = Match(pages, path, intercept)
     \/ answer = NoAnswer("conflict")
=============================================================================
