--------------------------- MODULE ResponseDelivery ---------------------------
(***************************************************************************)
(* A response on its way to the browser: the cookies that a handler sets   *)
(* and deletes, the Set-Cookie lines that each writer makes of them, and   *)
(* the body piped from a stream.  The writers are those of the adapters,   *)
(* "node" (adapter-node, adapter-vercel-node) and "web" (buildWebResponse, *)
(* for the edges), and "server", sendNodeResponse of the framework's own   *)
(* server, which knows no cookies but those in the headers.                *)
(***************************************************************************)
EXTENDS Naturals, Sequences, FiniteSetsExt

CONSTANTS
  Writers,    \* of "node", "web" and "server"
  Names,      \* names of cookies
  Gone,       \* no value
  MaxOps,     \* bound: what a handler does to the cookies and the headers
  MaxChunks   \* bound: the chunks of a streamed body

VARIABLES
  writer, client,            \* whether the browser is still there
  before, jar,               \* the browser's cookies: [Names \X Paths -> value]
  store, pending,            \* MutableCookies: what a get sees, and what is to be sent
  lines,                     \* Set-Cookie lines that the handler wrote itself
  ops,
  body, source, sent,        \* the body; the state of its stream; chunks that left
  phase,                     \* "handler", "sending", or how the send settled
  wire                       \* [lines, headers, ended]: what the browser got

vars == <<writer, client, before, jar, store, pending, lines, ops, body, source, sent, phase, wire>>

Paths == {"default", "root"}
Values == {"old", "new"}
Line(name, value, path) == [name |-> name, value |-> value, path |-> path]

\* parseCookieHeader: the request names the cookies, not their paths.
Parsed(j) == [n \in Names |-> IF j[n, "default"] # Gone THEN j[n, "default"] ELSE j[n, "root"]]

Init ==
  /\ writer \in Writers /\ client = "here"
  /\ \E held \in SUBSET Names, p \in Paths :
       before = [c \in Names \X Paths |-> IF c[1] \in held /\ c[2] = p THEN "old" ELSE Gone]
  /\ jar = before /\ store = Parsed(before) /\ pending = <<>> /\ lines = <<>> /\ ops = 0
  /\ body \in {"none", "text", "stream"} /\ source = "open" /\ sent = 0
  /\ phase = "handler" /\ wire = [lines |-> <<>>, headers |-> FALSE, ended |-> FALSE]

\* MutableCookies.set and delete.
\* Mutant: a cookie is deleted where the handler looks, and not in the browser.
DeletesHere(name) == <<>>
Deletes(name) == <<Line(name, Gone, "default")>>
Handles == phase = "handler" /\ ops < MaxOps /\ ops' = ops + 1
SetCookie(name, path) ==
  /\ Handles /\ writer # "server"
  /\ store' = [store EXCEPT ![name] = "new"]
  /\ pending' = Append(pending, Line(name, "new", path))
  /\ UNCHANGED <<writer, client, before, jar, lines, body, source, sent, phase, wire>>
DeleteCookie(name) ==
  /\ Handles /\ writer # "server"
  /\ store' = [store EXCEPT ![name] = Gone]
  /\ pending' = pending \o Deletes(name)
  /\ UNCHANGED <<writer, client, before, jar, lines, body, source, sent, phase, wire>>

\* The handler appends a Set-Cookie line to the headers.
AppendLine(name) ==
  /\ Handles /\ lines' = Append(lines, Line(name, "new", "default"))
  /\ UNCHANGED <<writer, client, before, jar, store, pending, body, source, sent, phase, wire>>

-----------------------------------------------------------------------------
\* createMutableHeaders joins what is appended to one name into one line, which a browser
\* reads as its first cookie with the rest for a value.
HeaderLines ==
  IF Len(lines) <= 1 THEN lines ELSE <<[lines[1] EXCEPT !.value = "joined"]>>

\* writeSourceOGResponse: the pending cookies replace the header.
NodeLines == IF pending = <<>> THEN HeaderLines ELSE pending
\* buildWebResponse appends them to it.
\* Mutant: each of them replaces the one before.
WebLinesSet == IF pending = <<>> THEN HeaderLines ELSE <<pending[Len(pending)]>>
WebLines == HeaderLines \o pending
\* sendNodeResponse sets the header once for each line that forEach yields.
ServerLines == IF lines = <<>> THEN <<>> ELSE <<lines[Len(lines)]>>

Written == CASE writer = "node" -> NodeLines [] writer = "web" -> WebLines [] OTHER -> ServerLines

\* The browser takes the lines in order; Max-Age=0 removes the cookie of that path.
Of(c, ls) == {i \in DOMAIN ls : <<ls[i].name, ls[i].path>> = c}
Kept(j, ls) ==
  [c \in Names \X Paths |-> IF Of(c, ls) = {} THEN j[c] ELSE ls[Max(Of(c, ls))].value]

\* The head goes out with the first bytes: at once for a body that is no stream, with the
\* first chunk of one that is.  A Response of the web is returned with its stream, and the
\* platform sends the two.
Streamed == body = "stream" /\ writer # "web"
HeadersOut == wire' = [wire EXCEPT !.lines = Written, !.headers = TRUE]
Send ==
  /\ phase = "handler"
  /\ IF Streamed
       THEN phase' = "sending" /\ UNCHANGED <<wire, jar>>
       ELSE /\ phase' = "settled"
            /\ wire' = [lines |-> Written, headers |-> TRUE, ended |-> body # "stream"]
            /\ jar' = IF client = "here" THEN Kept(jar, Written) ELSE jar
  /\ UNCHANGED <<writer, client, before, store, pending, lines, ops, body, source, sent>>

\* A chunk is piped on, for as long as the browser is there to take it.
Chunk ==
  /\ phase = "sending" /\ source = "open" /\ client = "here" /\ sent < MaxChunks
  /\ sent' = sent + 1
  /\ IF wire.headers THEN UNCHANGED <<wire, jar>> ELSE HeadersOut /\ jar' = Kept(jar, Written)
  /\ UNCHANGED <<writer, client, before, store, pending, lines, ops, body, source, phase>>

\* The end of the stream ends the response and settles the send.
SourceEnds ==
  /\ phase = "sending" /\ source = "open" /\ client = "here"
  /\ source' = "ended" /\ phase' = "settled"
  /\ wire' = [lines |-> Written, headers |-> TRUE, ended |-> TRUE]
  /\ jar' = IF wire.headers THEN jar ELSE Kept(jar, Written)
  /\ UNCHANGED <<writer, client, before, store, pending, lines, ops, body, sent>>

\* An error of the stream rejects the send.  The handler's catch answers with a 500 and the
\* lines set so far if nothing has left; if something has, the response stays open.
\* Mutant: nobody listens to the error.
Unheard == phase
\* Mutant: an error settles the send like an end.
EndsAnyway == "settled"
Rejected == "failed"
SourceFails ==
  /\ phase = "sending" /\ source = "open"
  /\ source' = "failed" /\ phase' = Rejected
  /\ IF wire.headers THEN UNCHANGED <<wire, jar>>
     ELSE /\ wire' = [lines |-> Written, headers |-> TRUE, ended |-> TRUE]
          /\ jar' = IF client = "here" THEN Kept(jar, Written) ELSE jar
  /\ UNCHANGED <<writer, client, before, store, pending, lines, ops, body, sent>>

\* The browser leaves: the pipe stops, and the stream neither ends nor fails for it.
Leave ==
  /\ client = "here" /\ phase \in {"handler", "sending"} /\ client' = "left"
  /\ UNCHANGED <<writer, before, jar, store, pending, lines, ops, body, source, sent, phase, wire>>

Next ==
  \/ \E n \in Names : (\E p \in Paths : SetCookie(n, p)) \/ DeleteCookie(n) \/ AppendLine(n)
  \/ Send \/ Chunk \/ SourceEnds \/ SourceFails \/ Leave

\* A handler returns, and a stream goes on until it ends or fails; a browser need not leave.
Fairness == WF_vars(Send) /\ WF_vars(SourceEnds)
Spec == Init /\ [][Next]_vars /\ Fairness

-----------------------------------------------------------------------------
Lines == [name : Names, value : Values \cup {"joined", Gone}, path : Paths]
TypeOK ==
  /\ writer \in Writers /\ client \in {"here", "left"}
  /\ phase \in {"handler", "sending", "settled", "failed"}
  /\ before \in [Names \X Paths -> Values \cup {Gone}]
  /\ jar \in [Names \X Paths -> Values \cup {"joined", Gone}]
  /\ store \in [Names -> Values \cup {Gone}]
  /\ pending \in Seq(Lines) /\ lines \in Seq(Lines)
  /\ ops \in 0 .. MaxOps /\ sent \in 0 .. MaxChunks
  /\ wire \in [lines : Seq(Lines), headers : BOOLEAN, ended : BOOLEAN]

Received == wire.headers /\ client = "here"
AtDefaultPaths ==
  /\ \A c \in Names \X {"root"} : before[c] = Gone
  /\ \A i \in DOMAIN pending : pending[i].path = "default"

\* What the handler sees in its cookies when it returns is what the browser has when it got
\* the response: wherever the handler left the paths and the header alone, whatever the order
\* of its sets and deletes (createMutableCookies and the writers of the adapters).
JarFollowsTheStore ==
  Received /\ writer # "server" /\ lines = <<>> /\ AtDefaultPaths =>
    \A n \in Names : jar[n, "default"] = store[n]

\* A cookie reaches the browser whatever writes the response, on any path, set through the
\* handler's cookies or in its header, and the last of them wins: but for two lines that the
\* handler wrote itself, which no writer sends both (joined, or the last one alone), and, where
\* writeSourceOGResponse writes, a line beside pending cookies.
Spoilt == Len(lines) > 1 \/ (writer = "node" /\ lines # <<>> /\ pending # <<>>)
CookiesArrive == Received /\ ~Spoilt => jar = Kept(before, lines \o pending)

\* A send that succeeded brought the whole stream, and never settles before its end.
SettledIsWhole == phase = "settled" /\ Streamed => source = "ended" /\ wire.ended

\* Why it does: the inductive invariant.  The browser's cookies are those it had until it
\* gets the head, and then what it makes of the lines that were written.
StoreIsKept == AtDefaultPaths => \A n \in Names : store[n] = Kept(before, pending)[n, "default"]
JarIsKept ==
  /\ ~wire.headers => jar = before
  /\ Received => jar = Kept(before, Written)
NothingLeavesTheHandler == phase = "handler" => ~wire.headers
ServerKnowsNone == writer = "server" => pending = <<>>
Inv ==
  /\ TypeOK /\ StoreIsKept /\ JarIsKept /\ NothingLeavesTheHandler /\ ServerKnowsNone
  /\ SettledIsWhole

\* While the browser stays, every send settles: the stream's end and its error both do it.
Stays == client = "here"
Over == phase \in {"settled", "failed"}
EverySendSettles == []Stays => <>Over
=============================================================================
