--------------------------- MODULE ConsistencyGraph ---------------------------
(***************************************************************************)
(* The consistency graph of genbook: what depends on which data, recorded  *)
(* as it is tracked, and what an invalidation reaches.  A node exists once *)
(* it was named; each keeps its dependencies and its dependents in order.  *)
(* exported is the manifest toJSON made last, walk the search of the       *)
(* invalidation that runs, reported what the last one answered.            *)
(***************************************************************************)
EXTENDS Naturals, FiniteSets, Sequences

CONSTANTS
  Data, Components, Routes,  \* the nodes by the prefix of their ids
  MaxLinks,
  None

VARIABLES nodes, deps, dependents, exported, walk, reported

vars == <<nodes, deps, dependents, exported, walk, reported>>

Nodes == Data \cup Components \cup Routes
Members(s) == {s[i] : i \in DOMAIN s}
Listed(n, s) == n \in Members(s)
Adjoin(n, s) == IF Listed(n, s) THEN s ELSE Append(s, n)
Edges == {e \in Nodes \X Nodes : Listed(e[2], deps[e[1]])}

Init ==
  /\ nodes = {} /\ exported = None /\ walk = None /\ reported = None
  /\ deps = [n \in Nodes |-> <<>>] /\ dependents = [n \in Nodes |-> <<>>]

\* Mutant: only the dependency is noted; the other end hears of it when it is seeded.
OneEnd(from, to) == deps' = [deps EXCEPT ![from] = Adjoin(to, @)] /\ UNCHANGED dependents
\* Both ends name each other, once.
BothEnds(from, to) == /\ deps' = [deps EXCEPT ![from] = Adjoin(to, @)]
                      /\ dependents' = [dependents EXCEPT ![to] = Adjoin(from, @)]

link(from, to) ==
  /\ walk = None /\ Cardinality(Edges) < MaxLinks
  /\ nodes' = nodes \cup {from, to}
  /\ BothEnds(from, to)
  /\ reported' = None
  /\ UNCHANGED <<exported, walk>>

-----------------------------------------------------------------------------
(* invalidate: the walk, breadth first, one node or one of its dependents  *)
(* at a time; nothing else runs meanwhile.                                 *)

\* It names the node if nothing had.
invalidate(n) ==
  /\ walk = None /\ nodes' = nodes \cup {n}
  /\ walk' = [of |-> n, queue |-> dependents[n], rest |-> <<>>, affected |-> <<>>,
              serverRoutes |-> <<>>, clientNodes |-> <<>>]
  /\ reported' = None
  /\ UNCHANGED <<deps, dependents, exported>>

Walks == walk # None /\ UNCHANGED <<nodes, deps, dependents, exported, reported>>

\* A node that was visited is not visited again; the routes are the server's to render again.
Visit ==
  /\ Walks /\ walk.rest = <<>> /\ walk.queue # <<>>
  /\ LET n == Head(walk.queue) IN
     walk' = IF Listed(n, walk.affected) THEN [walk EXCEPT !.queue = Tail(@)]
             ELSE [walk EXCEPT !.queue = Tail(@), !.rest = dependents[n],
                               !.affected = Append(@, n),
                               !.serverRoutes = IF n \in Routes THEN Append(@, n) ELSE @,
                               !.clientNodes = IF n \in Routes THEN @ ELSE Append(@, n)]

\* Mutant: the dependents of the node alone.
OneDeep(queue, n) == queue
Spread(queue, n) == IF Listed(n, walk.affected) THEN queue ELSE Append(queue, n)

Dependent ==
  /\ Walks /\ walk.rest # <<>>
  /\ walk' = [walk EXCEPT !.queue = Spread(@, Head(walk.rest)), !.rest = Tail(@)]

Report ==
  /\ walk # None /\ walk.rest = <<>> /\ walk.queue = <<>>
  /\ reported' = [of |-> walk.of, affected |-> walk.affected,
                  serverRoutes |-> walk.serverRoutes, clientNodes |-> walk.clientNodes]
  /\ walk' = None
  /\ UNCHANGED <<nodes, deps, dependents, exported>>

-----------------------------------------------------------------------------
\* The members of a list in an order that depends on them alone.
Sorted(s) == CHOOSE t \in [DOMAIN s -> Members(s)] : Members(t) = Members(s)

\* The nodes are written with both their lists, sorted; the edges written beside them are made
\* from the dependencies.
toJSON ==
  /\ walk = None /\ nodes # {}
  /\ exported' = [nodes |-> nodes, deps |-> [n \in nodes |-> Sorted(deps[n])],
                  dependents |-> [n \in nodes |-> Sorted(dependents[n])],
                  edges |-> {e \in Edges : e[1] \in nodes}]
  /\ reported' = None
  /\ UNCHANGED <<nodes, deps, dependents, walk>>

\* seedFromManifest: everything is forgotten and the manifest's nodes taken over; its
\* edges are not read.
fromJSON ==
  /\ walk = None /\ exported # None
  /\ nodes' = exported.nodes
  /\ deps' = [n \in Nodes |-> IF n \in exported.nodes THEN exported.deps[n] ELSE <<>>]
  /\ dependents' = [n \in Nodes |-> IF n \in exported.nodes THEN exported.dependents[n] ELSE <<>>]
  /\ reported' = None
  /\ UNCHANGED <<exported, walk>>

\* trackDep links a component to the data and a route to the component; a route may be
\* linked to a route as well, so the graph need have no order.
Next == \/ \E c \in Components, d \in Data : link(c, d)
        \/ \E r \in Routes, c \in Components : link(r, c) \/ link(c, r)
        \/ \E r, q \in Routes : link(r, q)
        \/ \E n \in Nodes : invalidate(n)
        \/ Visit \/ Dependent \/ Report
        \/ toJSON \/ fromJSON

Spec == Init /\ [][Next]_vars

-----------------------------------------------------------------------------
\* With the set everything that depends on a member of it.
Upward(set) == \A e \in Edges : e[2] \in set => e[1] \in set

\* An invalidation reports exactly what depends on the node, however indirectly and
\* whatever cycles there are: the least set with its dependents and all that depends on a
\* member, each node once, the routes apart from the rest.
InvalidationIsWhole ==
  reported # None =>
    LET r == reported
        first == {e[1] : e \in {f \in Edges : f[2] = r.of}}
        all == Members(r.affected)
    IN  /\ first \subseteq all /\ Upward(all)
        /\ \A set \in SUBSET Nodes : first \subseteq set /\ Upward(set) => all \subseteq set
        /\ \A i, j \in DOMAIN r.affected : r.affected[i] = r.affected[j] => i = j
        /\ Members(r.serverRoutes) = all \cap Routes /\ Members(r.clientNodes) = all \ Routes

\* The two lists say the same of every pair, after any links and any restoration.
EndsAgree == \A n, m \in Nodes : Listed(m, deps[n]) <=> Listed(n, dependents[m])

\* What the proofs carry along: only named nodes have lists, what is exported has both ends of
\* its edges, and the walk holds what depends on the node and on what it visited.
ListsAgree(names, to, from) ==
  /\ to \in [names -> Seq(Nodes)] /\ from \in [names -> Seq(Nodes)]
  /\ \A n, m \in Nodes : (n \in names /\ m \in Members(to[n])) <=> (m \in names /\ n \in Members(from[m]))
Closed(set) ==
  /\ Members(dependents[walk.of]) \subseteq set
  /\ \A n \in set : Members(dependents[n]) \subseteq set
Reached == Members(walk.affected) \cup Members(walk.queue) \cup Members(walk.rest)
WalkInv ==
  /\ walk.of \in Nodes
  /\ walk \in [of : Nodes, queue : Seq(Nodes), rest : Seq(Nodes), affected : Seq(Nodes),
               serverRoutes : Seq(Nodes), clientNodes : Seq(Nodes)]
  /\ Members(dependents[walk.of]) \subseteq Reached
  /\ \A n \in Members(walk.affected) : Members(dependents[n]) \subseteq Reached
  /\ \A set \in SUBSET Nodes : Closed(set) => Reached \subseteq set
  /\ \A i, j \in DOMAIN walk.affected : walk.affected[i] = walk.affected[j] => i = j
  /\ Members(walk.serverRoutes) = Members(walk.affected) \cap Routes
  /\ Members(walk.clientNodes) = Members(walk.affected) \ Routes
Inv ==
  /\ nodes \subseteq Nodes
  /\ deps \in [Nodes -> Seq(Nodes)] /\ dependents \in [Nodes -> Seq(Nodes)] /\ EndsAgree
  /\ \A n \in Nodes \ nodes : deps[n] = <<>> /\ dependents[n] = <<>>
  /\ exported # None =>
       exported.nodes \subseteq Nodes /\ ListsAgree(exported.nodes, exported.deps, exported.dependents)
  /\ walk # None => WalkInv /\ reported = None
  /\ InvalidationIsWhole
=============================================================================
