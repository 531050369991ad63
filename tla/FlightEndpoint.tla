---------------------------- MODULE FlightEndpoint ----------------------------
(***************************************************************************)
(* A document and the flight its page refers to: the page the document's   *)
(* request matched, the href it carries, and the request the browser makes *)
(* of that href at either of the two flight endpoints.  The canonical      *)
(* endpoint pumps the stream of the render into the response while the     *)
(* browser reads slowly, leaves, or the render fails half-way; the legacy  *)
(* one renders all of it first.                                            *)
(***************************************************************************)
EXTENDS Naturals, Sequences

CONSTANTS
  Pool, MaxPages, Paths,  \* the application, as in Routing
  Locales,                \* the locales of the config's i18n, or none of them
  Default,                \* its defaultLocale
  Accepted,               \* what accept-language may hold: tags in the order of
                          \* their weight, each a record of a tag and its language
  MaxChunks,              \* how many chunks a render streams
  None

VARIABLES
  pages, path, intercept, accept,  \* the application and the document's request
  doc,                             \* the answer of the document: the match, the
                                   \* locale, and the href its page carries
  step,                            \* where the flight of that href is
  flight,                          \* what it was matched and localized to
  source,                          \* the stream of the render
  wire,                            \* the response; "gone" if the browser left
                                   \* before the pump started, "left" if after
  written,                         \* the chunks written to it
  full                             \* the pump waits for "drain"

vars == <<pages, path, intercept, accept, doc, step, flight, source, wire, written, full>>
pump == <<source, wire, written, full>>
request == <<pages, path, intercept, accept>>

\* resolveLocale: the tag itself, or its language.
LocaleOf(t) ==
  CASE t.tag \in Locales -> t.tag
    [] t.tag \notin Locales /\ t.lang \in Locales -> t.lang
    [] OTHER -> None
\* detectLocale, as the server calls it: by the header.
DetectLocale(tags) ==
  LET found == SelectSeq(tags, LAMBDA t : LocaleOf(t) # None)
  IN  IF found = <<>> THEN Default ELSE LocaleOf(found[1])

\* resolveLocaleForRequest: the pathname without the locale it begins with.
Stripped(p) == IF p # <<>> /\ p[1] \in Locales THEN Tail(p) ELSE p
Resolved(match) == [match |-> match, locale |-> IF Locales = {} THEN None ELSE DetectLocale(accept)]

\* matchPageRoute over the scanned routes: of the request's pathname, and of the href's.
Router == INSTANCE Routing WITH answer <- None

Matched(a) == a.match.is = "matched"
Intercepted(a) == Matched(a) /\ Router!InterceptTarget(a.match.page) # None

\* Mutant: the href has the pathname that was matched.
StrippedHref(a) == [pathname |-> Stripped(path), intercept |-> Intercepted(a)]

\* createDynamicFlightHref of the request's pathname, the locale included.
HrefOf(a) == [pathname |-> path, intercept |-> Intercepted(a)]

Init ==
  /\ pages \in UNION {{s \in [1..n -> DOMAIN Pool] : \A i, j \in 1..n : s[i] = s[j] => i = j}
                        : n \in 0..MaxPages}
  /\ Router!NoConflicts(pages)
  /\ path \in Paths /\ intercept \in BOOLEAN /\ accept \in Accepted
  /\ doc = None /\ step = "document" /\ flight = None
  /\ source = "none" /\ wire = "open" /\ written = 0 /\ full = FALSE

Document ==
  /\ step = "document"
  /\ LET a == Resolved(Router!Match(pages, Stripped(path), intercept)) IN
     /\ doc' = [answer |-> a, href |-> HrefOf(a)]
     /\ step' = IF Matched(a) THEN "linked" ELSE "done"
  /\ UNCHANGED <<request, flight, pump>>

\* A request of another method, or of a pathname that is none, is refused.
Refuse ==
  /\ step = "linked" /\ wire' = "ended" /\ step' = "refused"
  /\ UNCHANGED <<request, doc, flight, source, written, full>>

\* Either endpoint matches the href; an unknown route is a 404.
Ask ==
  /\ step = "linked"
  /\ LET a == Resolved(Router!Match(pages, Stripped(doc.href.pathname), doc.href.intercept)) IN
     /\ flight' = a
     /\ IF Matched(a) THEN step' \in {"canonical", "legacy"} /\ UNCHANGED wire
                      ELSE step' = "refused" /\ wire' = "ended"
  /\ UNCHANGED <<request, doc, source, written, full>>

\* The legacy endpoint renders before it answers; an error is the server's 500.
Legacy ==
  /\ step = "legacy" /\ step' = "done"
  /\ \/ source' = "done" /\ written' = MaxChunks
     \/ source' = "failed" /\ UNCHANGED written
  /\ wire' = "ended"
  /\ UNCHANGED <<request, doc, flight, full>>

\* The canonical endpoint sets its headers and then starts the render.
StartPump ==
  /\ step = "canonical"
  /\ \/ step' = "pumping" /\ source' = "open" /\ UNCHANGED wire
     \/ /\ step' = "done" /\ source' = "failed"
        /\ wire' = IF wire = "open" THEN "destroyed" ELSE wire
  /\ UNCHANGED <<request, doc, flight, written, full>>

Pumping == step = "pumping" /\ ~full

\* A chunk is read and written; a full buffer is waited for.
Pump ==
  /\ Pumping /\ source = "open" /\ written < MaxChunks
  /\ written' = IF wire = "open" THEN written + 1 ELSE written
  /\ full' \in (IF wire = "open" THEN BOOLEAN ELSE {TRUE})
  /\ UNCHANGED <<request, doc, step, flight, source, wire>>

\* The stream has no more chunks, its own or because its reader cancelled it.
PumpEnds ==
  /\ Pumping
  /\ \/ source = "open" /\ written = MaxChunks /\ source' = "done"
     \/ source = "cancelled" /\ UNCHANGED source
  /\ step' = "done" /\ wire' = IF wire = "open" THEN "ended" ELSE wire
  /\ UNCHANGED <<request, doc, flight, written, full>>

\* Mutant: a response with its headers sent is ended where it stopped.
EndsAnyway == "ended"
Destroyed == "destroyed"

PumpFails ==
  /\ Pumping /\ source = "open"
  /\ source' = "failed" /\ step' = "done"
  /\ wire' = IF wire = "open" THEN Destroyed ELSE wire
  /\ UNCHANGED <<request, doc, flight, written, full>>

Drain ==
  /\ step = "pumping" /\ full /\ wire = "open" /\ full' = FALSE
  /\ UNCHANGED <<request, doc, step, flight, source, wire, written>>

Leave ==
  /\ step \in {"canonical", "pumping"} /\ wire = "open"
  /\ wire' = IF step = "canonical" THEN "gone" ELSE "left"
  /\ UNCHANGED <<request, doc, step, flight, source, written, full>>

\* Mutant: nobody listens to the close of the response.
KeepsReading == source
Cancels == "cancelled"

\* "close" cancels the reader, whether or not the pump will read again.  It is listened to
\* from the start of the pump on: a browser that was gone by then is never heard.
Closed ==
  /\ step = "pumping" /\ wire = "left" /\ source = "open"
  /\ source' = Cancels /\ UNCHANGED <<request, doc, step, flight, wire, written, full>>

Over == step \in {"done", "refused"} /\ UNCHANGED vars

Next ==
  \/ Document \/ Refuse \/ Ask \/ Legacy \/ StartPump \/ Pump \/ PumpEnds
  \/ PumpFails \/ Drain \/ Leave \/ Closed \/ Over

Spec == Init /\ [][Next]_vars
Fairness ==
  /\ WF_vars(Pump) /\ WF_vars(PumpEnds) /\ WF_vars(Drain) /\ WF_vars(Closed)
FairSpec == Spec /\ Fairness

-----------------------------------------------------------------------------
(* The flight of a page is the flight of that page: the href a document    *)
(* carries is matched to the page and the slots the document was, whatever *)
(* locale its pathname begins with and whichever page intercepts it, and   *)
(* is never an unknown route.  The pages are those with one interception   *)
(* in their path: with two, asking for them moves their scores apart.      *)
SinglyIntercepted == \A p \in Router!Range(pages) : Router!OneInterception(p)
FlightFindsThePage == SinglyIntercepted /\ flight # None => flight = doc.answer

(* A response that ends is whole: a stream that fails after the headers    *)
(* were sent destroys the response, so that a browser cannot take a part   *)
(* of a flight for all of it.                                              *)
EndedIsWhole ==
  flight # None /\ Matched(flight) /\ step = "done" /\ wire = "ended" =>
    \/ source = "failed" /\ written = 0
    \/ source = "done" /\ written = MaxChunks

(* Why it is: the inductive invariant.  Nothing is written before the pump *)
(* starts, and its reader is cancelled only when the browser has left.     *)
OnlyTheWholeEnds ==
  /\ step \in {"document", "linked"} => wire = "open" /\ source = "none" /\ written = 0
  /\ step \in {"canonical", "legacy"} => wire \in {"open", "gone"} /\ source = "none" /\ written = 0
  /\ step = "pumping" => wire \in {"open", "gone", "left"} /\ source \in {"open", "cancelled"}
  /\ step = "pumping" /\ source = "cancelled" => wire = "left"
  /\ step = "done" /\ wire = "ended" =>
       \/ source = "failed" /\ written = 0
       \/ source = "done" /\ written = MaxChunks

(* Why the flight is of its page: until the href is asked for, the document *)
(* is what its request was matched to.                                     *)
DocumentIsMatched ==
  /\ \E n \in 0 .. MaxPages : pages \in [1 .. n -> DOMAIN Pool]
  /\ intercept \in BOOLEAN
  /\ step = "document" => flight = None
  /\ step # "document" =>
       LET a == Resolved(Router!Match(pages, Stripped(path), intercept))
       IN  doc = [answer |-> a, href |-> HrefOf(a)] /\ (step = "linked" => Matched(a))
  /\ flight # None => (SinglyIntercepted => flight = doc.answer)

(* A render that streams is let go: its stream ends, fails or is           *)
(* cancelled, also when the browser leaves while the pump waits for a      *)
(* buffer that will never drain.  A browser that left before the pump      *)
(* started is the exception.                                               *)
Streaming == step = "pumping" /\ wire # "gone"
LetGo == source # "open" /\ wire # "open"
EveryRenderIsLetGo == Streaming ~> LetGo
=============================================================================
