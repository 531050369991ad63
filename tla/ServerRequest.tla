---------------------------- MODULE ServerRequest ----------------------------
(***************************************************************************)
(* One request through the server: the endpoints tried before the routes,  *)
(* the chain of middleware around the resolution of the request, the       *)
(* page, handler or prerendered file that answers it, and what runs after  *)
(* the answer.  composeMiddleware is a recursion through callbacks; here   *)
(* "stack" holds its activations, the innermost last.                      *)
(***************************************************************************)
EXTENDS Naturals, Sequences, FiniteSets, Functions

CONSTANTS
  Kinds,       \* what the request asks for: debug, asset, action,
               \* flight, handler, page or none; malformed is a request for
               \* one of the last five whose URL or cookies cannot be read
  RootFiles,   \* the middleware files found at the root, in order
  RouteFiles,  \* the middleware files of the matched route, root to leaf
  Prerendered  \* whether a prerendered file exists, and the server may use it

VARIABLES
  kind, file,  \* the request, and whether a prerendered file answers it
  layer,       \* what each middleware does with its request
  stack,       \* the activations of composeMiddleware's dispatch
  value,       \* what the innermost call that ended returned
  at,          \* how far the handler of the request has come
  ran,         \* the middleware that ran, in order
  handled,     \* how often the page or the handler of the route ran
  sent         \* how many times an answer was sent

vars == <<kind, file, layer, stack, value, at, ran, handled, sent>>

Files == Range(RootFiles) \cup Range(RouteFiles)

\* A middleware passes the answer of next() on, answers itself, awaits next()
\* and returns nothing, returns nothing at once, or throws.
Behaviours == {"pass", "answer", "observe", "silent", "throw"}

Init ==
  /\ kind \in Kinds
  /\ file \in (IF kind = "page" THEN Prerendered ELSE {FALSE})
  /\ layer \in [Files -> Behaviours]
  /\ stack = <<>> /\ value = "none" /\ at = "endpoints"
  /\ ran = <<>> /\ handled = 0 /\ sent = 0

Call(chain, i) == [chain |-> chain, i |-> i, step |-> "dispatch"]
Pushed(s, f) == Append(s, f)
Top == stack[Len(stack)]
Below == SubSeq(stack, 1, Len(stack) - 1)
Replaced(f) == Append(Below, f)

\* Mutant: the files of the route are not filtered.
WholeRouteChain == RouteFiles

\* filterMiddlewareFiles: what ran at the root does not run again.  The n-th file that is
\* left is the one with n of them up to its place.
RouteChain ==
  LET left == {i \in DOMAIN RouteFiles : RouteFiles[i] \notin Range(RootFiles)}
  IN  [n \in 1..Cardinality(left) |->
         RouteFiles[CHOOSE i \in left : Cardinality({j \in left : j <= i}) = n]]
Chain(c) == IF c = "root" THEN RootFiles ELSE RouteChain

\* The debug and asset endpoints, the actions and the flights answer before
\* any route is matched; the rest goes through the plugins to the root chain.
Endpoint ==
  /\ at = "endpoints"
  /\ IF kind \in {"debug", "asset", "action", "flight"}
       THEN /\ at' = "done" /\ sent' = sent + 1
            /\ handled' = IF kind \in {"action", "flight"} THEN 1 ELSE 0
            /\ UNCHANGED stack
       ELSE /\ kind # "malformed" /\ at' = "hooks" /\ UNCHANGED <<stack, handled, sent>>
  /\ UNCHANGED <<kind, file, layer, value, ran>>

\* An endpoint fails, or createNodeRequest does: it parses the URL and decodes
\* the cookies after the first two endpoints let the request go by.
EndpointThrows ==
  /\ at = "endpoints" /\ kind \in {"debug", "action", "flight", "malformed"} /\ at' = "caught"
  /\ UNCHANGED <<kind, file, layer, stack, value, ran, handled, sent>>

RequestHooks ==
  /\ at = "hooks"
  /\ \/ at' = "chain" /\ stack' = <<Call("root", 1)>>
     \/ at' = "caught" /\ UNCHANGED stack
  /\ UNCHANGED <<kind, file, layer, value, ran, handled, sent>>

Dispatching == at = "chain" /\ stack # <<>> /\ Top.step = "dispatch"
InChain == Dispatching /\ Top.i <= Len(Chain(Top.chain))

\* What dispatch does when the layer returned nothing: run the rest.
Rest == Replaced(Call(Top.chain, Top.i + 1))

AnswerReturns == Below

RunLayer ==
  /\ InChain
  /\ LET f == Chain(Top.chain)[Top.i] IN
     /\ ran' = Append(ran, f)
     /\ \/ /\ layer[f] \in {"pass", "observe"}
           /\ stack' = Pushed(Replaced([Top EXCEPT !.step = "next"]), Call(Top.chain, Top.i + 1))
           /\ UNCHANGED <<value, at>>
        \/ layer[f] = "answer" /\ stack' = AnswerReturns /\ value' = "layer" /\ UNCHANGED at
        \/ layer[f] = "silent" /\ stack' = Rest /\ UNCHANGED <<value, at>>
        \/ layer[f] = "throw" /\ stack' = <<>> /\ at' = "caught" /\ UNCHANGED value
  /\ UNCHANGED <<kind, file, layer, handled, sent>>

\* next() has returned into the layer that called it.
LayerReturns ==
  /\ at = "chain" /\ stack # <<>> /\ Top.step = "next"
  /\ stack' = IF layer[Chain(Top.chain)[Top.i]] = "pass" THEN Below ELSE Rest
  /\ UNCHANGED <<kind, file, layer, value, at, ran, handled, sent>>

\* The end of the root chain is resolveResponse: a prerendered file answers at
\* once, a page or a handler has its own chain first.
Resolve ==
  /\ Dispatching /\ ~InChain /\ Top.chain = "root"
  /\ \/ /\ kind \in {"page", "handler"} /\ ~file
        /\ stack' = Replaced(Call("route", 1)) /\ UNCHANGED value
     \/ /\ kind = "none" \/ file
        /\ stack' = Below /\ value' = IF file THEN "file" ELSE "notFound"
  /\ UNCHANGED <<kind, file, layer, at, ran, handled, sent>>

\* The end of the chain of the route: the handler runs, or the page renders.
Handle ==
  /\ Dispatching /\ ~InChain /\ Top.chain = "route"
  /\ handled' = handled + 1
  /\ \/ stack' = Below /\ value' = "route" /\ UNCHANGED at
     \/ stack' = <<>> /\ at' = "caught" /\ UNCHANGED value
  /\ UNCHANGED <<kind, file, layer, ran, sent>>

\* finalizeResponse sends first and calls the hooks and automations after.
Finalize ==
  /\ at = "chain" /\ stack = <<>>
  /\ sent' = sent + 1 /\ at' = "after"
  /\ UNCHANGED <<kind, file, layer, stack, value, ran, handled>>

ResponseHooks ==
  /\ at = "after" /\ at' \in {"done", "caught"}
  /\ UNCHANGED <<kind, file, layer, stack, value, ran, handled, sent>>

\* Mutant: the handler of errors answers whatever has been sent before.
CaughtAnew ==
  /\ at = "caught" /\ sent' = sent + 1 /\ at' = "done"
  /\ UNCHANGED <<kind, file, layer, stack, value, ran, handled>>

\* The handler of errors begins with createNodeRequest too, which fails again
\* on what it failed on before; and once an answer was sent its setHeader
\* throws.  Nothing is left to catch either.
Caught ==
  /\ at = "caught"
  /\ IF sent = 0 /\ kind # "malformed" THEN sent' = 1 /\ at' = "done"
     ELSE at' = "crashed" /\ UNCHANGED sent
  /\ UNCHANGED <<kind, file, layer, stack, value, ran, handled>>

Over == at \in {"done", "crashed"} /\ UNCHANGED vars

Next ==
  \/ Endpoint \/ EndpointThrows \/ RequestHooks \/ RunLayer \/ LayerReturns
  \/ Resolve \/ Handle \/ Finalize \/ ResponseHooks \/ Caught \/ Over

Spec == Init /\ [][Next]_vars

-----------------------------------------------------------------------------
(* The server answers a request once: every way through the middleware,   *)
(* a failing layer, page or hook included, sends one answer and no more.   *)
(* The one request it never answers is one it cannot read, on which the    *)
(* handler of errors fails as the handler did.                             *)
AnsweredOnce ==
  sent <= 1 /\ (at \in {"done", "crashed"} => (sent = 1 <=> kind # "malformed"))

(* What runs twice is what an observing layer stands before: without a    *)
(* layer that awaits next() and returns nothing, no middleware file and    *)
(* no handler runs twice for one request.                                  *)
NothingRunsTwice ==
  (\A f \in Files : layer[f] # "observe") =>
    handled <= 1 /\ \A i, j \in DOMAIN ran : ran[i] = ran[j] => i = j

(* A layer that answers keeps the request from its handler, and from each  *)
(* layer after it, even where another layer returned nothing.              *)
AnswerStopsTheChain ==
  \A i \in DOMAIN ran :
    (\A f \in Files : layer[f] # "observe") /\ layer[ran[i]] \in {"answer", "throw"} =>
      i = Len(ran) /\ handled = 0

(* Why these hold.  Below the top of the stack are layers that await       *)
(* next(); as long as no layer observes, one activation at a time goes     *)
(* down, and what ran is before it in the two chains.                      *)
TypeOK ==
  /\ at \in {"endpoints", "hooks", "chain", "after", "caught", "done", "crashed"}
  /\ layer \in [Files -> Behaviours] /\ ran \in Seq(Files) /\ handled \in Nat
  /\ stack \in Seq([chain : {"root", "route"}, i : Nat \ {0}, step : {"dispatch", "next"}])
SentOnce ==
  CASE at = "endpoints" -> sent = 0
    [] at \in {"hooks", "chain"} -> sent = 0 /\ kind # "malformed"
    [] at = "caught" -> sent \in 0..1 /\ (kind = "malformed" => sent = 0)
    [] OTHER -> /\ sent = IF kind = "malformed" THEN 0 ELSE 1
                /\ kind = "malformed" => at = "crashed"
OnlyTheTopDispatches ==
  \A n \in DOMAIN stack :
    /\ n < Len(stack) => stack[n].step = "next"
    /\ stack[n].step = "next" =>
         /\ stack[n].i <= Len(Chain(stack[n].chain))
         /\ layer[Chain(stack[n].chain)[stack[n].i]] \in {"pass", "observe"}
\* The files before a place in the chains.
Before(a) ==
  {RootFiles[n] : n \in {n \in DOMAIN RootFiles : a.chain = "route" \/ n < a.i}}
    \cup {RouteChain[n] : n \in {n \in DOMAIN RouteChain : a.chain = "route" /\ n < a.i}}
GoesOn == at \in {"endpoints", "hooks"} \/ Dispatching
RanBefore ==
  (\A f \in Files : layer[f] # "observe") =>
    /\ NothingRunsTwice /\ AnswerStopsTheChain
    /\ GoesOn => handled = 0 /\ \A n \in DOMAIN ran : layer[ran[n]] \in {"pass", "silent"}
    /\ at \in {"endpoints", "hooks"} => ran = <<>>
    /\ Dispatching => Range(ran) \subseteq Before(Top)
Inv == TypeOK /\ SentOnce /\ OnlyTheTopDispatches /\ RanBefore
=============================================================================
