-------------------------- MODULE ClientNavigation --------------------------
(***************************************************************************)
(* Navigation in the browser: the script that every page carries           *)
(* (getClientRuntimeScript of sourceog-dev) and the router of the          *)
(* application's own code (navigation.ts).  Each visit is an asynchronous  *)
(* function of its own; nothing orders or cancels them.                    *)
(*                                                                         *)
(* entries and here are the browser's history, context the url and the     *)
(* render key of __SOURCEOG_CLIENT_CONTEXT__, dom the page on the screen   *)
(* and how it got there, page whether the document is still this one.      *)
(* settled says that the last visit to end overlapped no other.            *)
(***************************************************************************)
EXTENDS Naturals, Sequences

CONSTANTS Visits, Urls, MaxEntries

VARIABLES entries, here, context, dom, page, visits, settled

vars == <<entries, here, context, dom, page, visits, settled>>

\* boot is the context a visit bootstraps the page from, and whether the window still has
\* that very object.
Idle == [at |-> "idle", url |-> "", replace |-> FALSE, streamed |-> FALSE, alone |-> TRUE,
         boot |-> [url |-> "", key |-> "", same |-> FALSE]]
Booting(visit, c) == [visit EXCEPT !.at = "booting",
                                   !.boot = [url |-> c.url, key |-> c.key, same |-> TRUE]]

\* The page that was served: it takes its snapshot over, rewrites its entry, and starts to
\* bootstrap itself.
Init == \E u \in Urls :
    /\ entries = <<u>> /\ here = 1
    /\ context = [url |-> u, key |-> u]
    /\ dom = [url |-> u, by |-> "server"]
    /\ page = "live"
    /\ \E first \in Visits :
          visits = [v \in Visits |-> IF v = first THEN Booting(Idle, context) ELSE Idle]
    /\ settled = FALSE

InFlight == {v \in Visits : visits[v].at # "idle"}

\* A visit begins: both requests are sent, and every visit on its way is overlapped.
Begin(v, url, replace) ==
    /\ page = "live" /\ visits[v].at = "idle"
    /\ visits' = [w \in Visits |->
            IF w = v THEN [Idle EXCEPT !.at = "asked", !.url = url, !.replace = replace,
                                       !.alone = InFlight = {}]
            ELSE [visits[w] EXCEPT !.alone = (w \notin InFlight)]]
    /\ settled' = FALSE

Pushed(url) == /\ here < MaxEntries
               /\ entries' = Append(SubSeq(entries, 1, here), url)
               /\ here' = here + 1

Replaced(url) == /\ entries' = [entries EXCEPT ![here] = url]
                 /\ UNCHANGED here

\* A click on a link: the history is left alone until the answer is applied.
Click(v, url) == /\ Begin(v, url, FALSE)
                 /\ UNCHANGED <<entries, here, context, dom, page>>

\* push and replace of the router: the address changes first, and the refresh that
\* follows is told to do the same again.
Route(v, url, replace) ==
    /\ Begin(v, url, replace)
    /\ IF replace THEN Replaced(url) ELSE Pushed(url)
    /\ UNCHANGED <<context, dom, page>>

\* Back or forward: the browser has moved already when popstate is heard.
Traverse(v, i) ==
    /\ i # here
    /\ Begin(v, entries[i], TRUE)
    /\ here' = i
    /\ UNCHANGED <<entries, context, dom, page>>

\* The two answers.  Without a snapshot, or without a network, the browser loads the
\* page; with one the snapshot and the context are replaced before anything is shown.
Failed(v) == /\ visits[v].at = "asked" /\ page = "live"
             /\ page' = "left"
             /\ UNCHANGED <<entries, here, context, dom, visits, settled>>

\* Mutant: a visit that replaces keeps the context it was made in.
KeptOnReplace(v) == IF visits[v].replace THEN context
                    ELSE [url |-> visits[v].url, key |-> visits[v].url]
ContextOf(v) == [url |-> visits[v].url, key |-> visits[v].url]

\* The window has another context now: the objects that bootstraps hold keep their keys.
Detached == [w \in Visits |->
    IF visits[w].boot.same
    THEN [visits[w] EXCEPT !.boot = [url |-> context.url, key |-> context.key, same |-> FALSE]]
    ELSE visits[w]]

Answered(v) ==
    /\ visits[v].at = "asked" /\ page = "live"
    /\ context' = ContextOf(v)
    /\ \E streamed \in BOOLEAN :
          visits' = [Detached EXCEPT ![v].at = "applying", ![v].streamed = streamed]
    /\ UNCHANGED <<entries, here, dom, page, settled>>

\* The history is written last, whether or not the address is the visit's already.
WriteHistory(v) == IF visits[v].replace THEN Replaced(visits[v].url) ELSE Pushed(visits[v].url)

\* The component map is loaded and the stream read; React shows the model and the key
\* goes to the context of the moment.  When any of it fails the snapshot's markup is put
\* in the page instead.  The page is then bootstrapped again, from that context.
Shown(v) ==
    /\ visits[v].at = "applying" /\ page = "live"
    /\ \/ /\ dom' = [url |-> visits[v].url,
                     by |-> IF visits[v].streamed THEN "stream" ELSE "chunks"]
          /\ context' = [context EXCEPT !.key = visits[v].url]
       \/ /\ dom' = [url |-> visits[v].url, by |-> "markup"]
          /\ UNCHANGED context
    /\ WriteHistory(v)
    /\ visits' = [visits EXCEPT ![v] = Booting(@, context')]
    /\ UNCHANGED <<page, settled>>

\* The context's own chunks are shown, or its route's entry is started; when it fails the
\* page stays as it is.
Bootstrapped(v) ==
    /\ visits[v].at = "booting" /\ page = "live"
    /\ \/ /\ dom' = [url |-> visits[v].boot.url, by |-> "chunks"]
          /\ context' = [context EXCEPT !.key = IF visits[v].boot.same THEN @ ELSE visits[v].boot.key]
       \/ UNCHANGED <<dom, context>>
    /\ visits' = [visits EXCEPT ![v] = Idle]
    /\ settled' = visits[v].alone
    /\ UNCHANGED <<entries, here, page>>

\* A development server's message: the route on the screen is affected, or everything is.
\* (No message names a boundary: DevDiagnosticsBus sends none.)
Synced == /\ page = "live"
          /\ \E affected \in SUBSET Urls : context.url \in affected
          /\ page' = "left"
          /\ UNCHANGED <<entries, here, context, dom, visits, settled>>

Next == \/ \E v \in Visits, u \in Urls : Click(v, u)
        \/ \E v \in Visits, u \in Urls, r \in BOOLEAN : Route(v, u, r)
        \/ \E v \in Visits, i \in DOMAIN entries : Traverse(v, i)
        \/ \E v \in Visits : Failed(v) \/ Answered(v) \/ Shown(v) \/ Bootstrapped(v)
        \/ Synced

Spec == Init /\ [][Next]_vars

-----------------------------------------------------------------------------
\* A visit that overlapped no other leaves the address, the page, and the route and the
\* key of the context in agreement, whatever failed on the way.  (One that overlapped, the
\* bootstrap of the first page included, may leave any of the three with another's.)
LoneVisitAgrees ==
    settled /\ page = "live" /\ InFlight = {} =>
        entries[here] = dom.url /\ context = [url |-> dom.url, key |-> dom.url]

\* What the proofs carry along: a visit that is alone made the context it applies, and boots
\* from the page that is shown.
Names == Urls \cup {""}
Contexts == [url : Names, key : Names]
Alone(v) == visits[v].at # "idle" /\ visits[v].alone
Agreed(url) == entries[here] = url /\ dom.url = url /\ context = [url |-> url, key |-> url]
Inv ==
  /\ entries \in Seq(Names) /\ here \in DOMAIN entries /\ context \in Contexts
  /\ dom \in [url : Names, by : {"server", "stream", "chunks", "markup"}]
  /\ visits \in [Visits -> [at : {"idle", "asked", "applying", "booting"}, url : Names,
                            replace : BOOLEAN, streamed : BOOLEAN, alone : BOOLEAN,
                            boot : [url : Names, key : Names, same : BOOLEAN]]]
  /\ \A v \in Visits : Alone(v) =>
       /\ InFlight = {v}
       /\ visits[v].at = "applying" => context = ContextOf(v)
       /\ visits[v].at = "booting" =>
            Agreed(visits[v].boot.url) /\ visits[v].boot.key = visits[v].boot.url
  /\ settled /\ InFlight = {} => Agreed(dom.url)
=============================================================================
