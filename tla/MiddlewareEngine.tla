--------------------------- MODULE MiddlewareEngine ---------------------------
(***************************************************************************)
(* The middleware engine: the definitions compiled into a sorted manifest, *)
(* their patterns into regular expressions, and a request taken through    *)
(* the entries that match it.  A path is a sequence of segments, a pattern *)
(* a sequence of parts: a literal segment, or a parameter in one of the    *)
(* notations patternToRegex accepts.                                       *)
(***************************************************************************)
EXTENDS Integers, Sequences, FiniteSets, Functions

CONSTANTS
  Definitions,  \* the definitions, as a sequence in the order they are given
  Paths,        \* the paths requested
  Asks          \* what a handler may do with the request

VARIABLES path, asks, at, ran, outcome

vars == <<path, asks, at, ran, outcome>>

\* What patternToRegex makes of a parameter: how many segments its expression
\* takes, and a character it wants after them.  The plus of ":name+" has been
\* escaped before the notation is looked for, so the name alone is replaced.
One  == [least |-> 1, most |-> 1, plus |-> FALSE]
Many == [least |-> 1, most |-> 99, plus |-> FALSE]
Regex(part) ==
  CASE part.is \in {"[slug]", ":slug"} -> One
    [] part.is \in {"[...slug]", "[[...slug]]"} -> Many
    [] part.is = ":path*" -> [Many EXCEPT !.least = 0]
    [] part.is = ":path+" -> [One EXCEPT !.plus = TRUE]

\* Mutant: the expression goes on past the segments of its parameter.
TakesMany(p, i, j, r) == j - i + 1 >= r.least
\* Whether the expression takes the segments a path has from i to j.
Takes(p, i, j, r) ==
  /\ j - i + 1 \in r.least..r.most
  /\ r.plus => p[j].plussed

\* The expression of a pattern takes the whole path, each of its parts the segments after
\* those of the part before it: cut[i] is where the i-th ends.
Test(pattern, p) ==
  \E cut \in [0..Len(pattern) -> 0..Len(p)] :
    /\ cut[0] = 0 /\ cut[Len(pattern)] = Len(p)
    /\ \A i \in 1..Len(pattern) :
         IF pattern[i].is = "literal"
           THEN cut[i] = cut[i - 1] + 1 /\ p[cut[i]] = pattern[i].segment
           ELSE Takes(p, cut[i - 1] + 1, cut[i], Regex(pattern[i]))

\* Mutant: the entries are sorted by rising priority.
Rising(i, j) ==
  \/ Definitions[i].priority < Definitions[j].priority
  \/ Definitions[i].priority = Definitions[j].priority /\ i <= j
\* compile: a stable sort by falling priority.  Each entry is its index, and the n-th is the
\* one with n ahead of it, itself among them.
Ahead(i, j) ==
  \/ Definitions[i].priority > Definitions[j].priority
  \/ Definitions[i].priority = Definitions[j].priority /\ i <= j
Entries ==
  [n \in DOMAIN Definitions |->
     CHOOSE d \in DOMAIN Definitions : Cardinality({e \in DOMAIN Definitions : Ahead(e, d)}) = n]

Matches(d) == \E pattern \in Definitions[d].matcher : Test(pattern, path)

Init ==
  /\ path \in Paths /\ asks \in [DOMAIN Definitions -> Asks]
  /\ at = 1 /\ ran = <<>> /\ outcome = "running"

\* One round of execute's loop.  What a handler asks for last counts; asking
\* for nothing ends the chain and lets the request through.
Round ==
  /\ outcome = "running" /\ at <= Len(Entries)
  /\ LET d == Entries[at] IN
     IF ~Matches(d) THEN UNCHANGED <<ran, outcome>>
     ELSE /\ ran' = Append(ran, d)
          /\ outcome' = CASE asks[d] \in {"redirect", "rewrite"} -> asks[d]
                          [] asks[d] = "throw" -> "thrown"
                          [] asks[d] = "nothing" -> "next"
                          [] asks[d] = "next" -> "running"
  /\ at' = at + 1
  /\ UNCHANGED <<path, asks>>

EndOfChain ==
  /\ outcome = "running" /\ at > Len(Entries) /\ outcome' = "next"
  /\ UNCHANGED <<path, asks, at, ran>>

Over == outcome # "running" /\ UNCHANGED vars
Next == Round \/ EndOfChain \/ Over
Spec == Init /\ [][Next]_vars

-----------------------------------------------------------------------------
(* A request meets every middleware whose pattern covers it and none that  *)
(* ranks lower before one that ranks higher; what ends the request early   *)
(* is a middleware that ran, and it ran last.                              *)
HigherFirst ==
  outcome # "running" =>
    LET wanted == {d \in DOMAIN Definitions : Matches(d)} IN
    /\ \A i, j \in DOMAIN ran : i < j =>
         \/ Definitions[ran[i]].priority > Definitions[ran[j]].priority
         \/ Definitions[ran[i]].priority = Definitions[ran[j]].priority /\ ran[i] < ran[j]
    /\ \A d \in wanted \ Range(ran) : ran # <<>> /\ asks[ran[Len(ran)]] # "next"
         /\ \A i \in DOMAIN ran : Definitions[ran[i]].priority >= Definitions[d].priority

(* What a notation stands for, by the comment above patternToRegex: one    *)
(* segment, one or more, zero or more.  The comment promises one or more   *)
(* for ":path+" too, which the code does not keep: it takes one segment,   *)
(* and only one that ends in a plus.                                       *)
Meant(part) ==
  CASE part.is \in {"[slug]", ":slug"} -> One
    [] part.is = ":path*" -> [Many EXCEPT !.least = 0]
    [] part.is \in {"[...slug]", "[[...slug]]"} -> Many
    [] part.is = ":path+" -> [One EXCEPT !.plus = TRUE]

(* A pattern that ends in a parameter takes exactly the paths its notation *)
(* stands for, ":path+" those the code gives it.                           *)
TakesWhatItSays ==
  \A d \in DOMAIN Definitions : \A pattern \in Definitions[d].matcher :
    LET k == Len(pattern) - 1 IN
    (pattern # <<>> /\ pattern[k + 1].is # "literal"
       /\ \A i \in 1..k : pattern[i].is = "literal") =>
      (Test(pattern, path) <=>
         /\ Len(path) >= k /\ \A i \in 1..k : path[i] = pattern[i].segment
         /\ Len(path) - k \in Meant(pattern[k + 1]).least..Meant(pattern[k + 1]).most
         /\ Meant(pattern[k + 1]).plus => path[Len(path)].plussed)

(* Why the first holds.  What ran is what matches among the entries before *)
(* "at", in their order; each of them but the last asked to go on.         *)
Notations == {"[slug]", ":slug", "[...slug]", "[[...slug]]", ":path*", ":path+"}
TypeOK ==
  /\ at \in 1..(Len(Definitions) + 1) /\ ran \in Seq(DOMAIN Definitions)
  /\ path \in Paths /\ asks \in [DOMAIN Definitions -> Asks]
  /\ outcome \in {"running", "next", "redirect", "rewrite", "thrown"}
Passed == {Entries[n] : n \in 1..(at - 1)}
RanInOrder ==
  /\ Range(ran) = {d \in Passed : Matches(d)}
  /\ \A i, j \in DOMAIN ran : i < j => Ahead(ran[i], ran[j]) /\ ran[i] # ran[j]
  /\ outcome = "running" => \A i \in DOMAIN ran : asks[ran[i]] = "next"
  /\ outcome # "running" => at > Len(Definitions) \/ (ran # <<>> /\ asks[ran[Len(ran)]] # "next")
Inv == TypeOK /\ RanInOrder
=============================================================================
