----------------------------- MODULE TaintGraph -----------------------------
(***************************************************************************)
(* The call graph of the taint window: the graph layer of taint.rs and the *)
(* window (TaintApp.tsx), which holds the graph, sends the whole of it     *)
(* with every request and takes the answer for the new one.                *)
(*                                                                         *)
(* The analyses of the nodes, which module Taint is about, and the user's  *)
(* overrides are left out.  The loaded file does not change meanwhile.     *)
(***************************************************************************)
EXTENDS Integers, Sequences, FiniteSets

CONSTANTS
    Refs,         \* method refs
    Targets,      \* methods the window is opened on
    CallsOf,      \* methods with a body: the refs they call, by codepoint
    Similar,      \* refs that contain "Lclass;->name" of a ref, so itself too
    Requests,     \* requests that can be under way at the same time
    MaxBuilds,    \* bound on the graphs that are built anew
    NoRef

Bodies == DOMAIN CallsOf

ASSUME TaintGraphConstantsOK ==
    /\ NoRef \notin Refs
    /\ Targets \subseteq Refs /\ Bodies \subseteq Refs
    /\ CallsOf \in [Bodies -> Seq(Refs)]
    /\ Similar \in [Refs -> SUBSET Refs]
    /\ \A r \in Refs : r \in Similar[r]
    /\ MaxBuilds \in Nat

VARIABLES
    graph,           \* what the window shows
    target,          \* the method it was opened on
    busyNodeId,      \* the node whose buttons are off
    applyingOverrides, loading,
    request,         \* what each request is about, and what it was sent with
    builds,          \* (history) number of graphs asked for
    overlapped       \* (history) the requests that another one was under way with

graphVars == <<graph, target, busyNodeId, applyingOverrides, loading, request,
               builds, overlapped>>

NoGraph == [root |-> NoRef, nodes |-> [r \in {} |-> 0], edges |-> {}]
Shown == graph # NoGraph
Nodes(g) == DOMAIN g.nodes
Idle == [kind |-> "none"]

-----------------------------------------------------------------------------
\* The commands: functions of the graph they are sent.

Node(depth) == [depth |-> depth, forward |-> FALSE, backward |-> FALSE]

RootGraph(r) == [root |-> r, nodes |-> [n \in {r} |-> Node(0)], edges |-> {}]

\* Nodes that are there already stay as they are.
WithNodes(g, refs, depth) ==
    [r \in Nodes(g) \cup refs |-> IF r \in Nodes(g) THEN g.nodes[r] ELSE Node(depth)]

\* Mutant of CallSites: each callee is taken once.
CallSitesOnce(n) ==
    {i \in DOMAIN CallsOf[n] : \A j \in 1..i - 1 : CallsOf[n][j] # CallsOf[n][i]}

CallSites(n) == DOMAIN CallsOf[n]

Forward(g, n) ==
    LET callees == {CallsOf[n][i] : i \in CallSites(n)} IN
    [g EXCEPT !.nodes = [WithNodes(g, callees, g.nodes[n].depth + 1)
                            EXCEPT ![n].forward = TRUE],
              !.edges = @ \cup {[from |-> n, to |-> CallsOf[n][i], at |-> i] :
                                  i \in CallSites(n)}]

\* Mutant of CallersDepth: counted away from the root.
CallersDepthAway(g, n) == g.nodes[n].depth + 1

CallersDepth(g, n) == g.nodes[n].depth - 1

\* find_calls looks for the name in every call of every method.
Backward(g, n) ==
    LET sites == UNION {{<<c, i>> : i \in {j \in DOMAIN CallsOf[c] : CallsOf[c][j] \in Similar[n]}} :
                        c \in Bodies}
    IN [g EXCEPT !.nodes = [WithNodes(g, {s[1] : s \in sites}, CallersDepth(g, n))
                              EXCEPT ![n].backward = TRUE],
                 !.edges = @ \cup {[from |-> s[1], to |-> n, at |-> s[2]] : s \in sites}]

\* Mutant of Reanalysed: the nodes start over.
ReanalysedAfresh(g) ==
    [g EXCEPT !.nodes = [r \in Nodes(g) |-> Node(g.nodes[r].depth)]]

\* "Edges and expansion state are preserved."
Reanalysed(g) == g

Reply(q) ==
    LET s == request[q] IN
    CASE s.kind = "build"    -> RootGraph(s.node)
      [] s.kind = "forward"  -> Forward(s.graph, s.node)
      [] s.kind = "backward" -> Backward(s.graph, s.node)
      [] s.kind = "apply"    -> Reanalysed(s.graph)

-----------------------------------------------------------------------------
Send(q, kind, n) ==
    LET others == {p \in Requests : request[p] # Idle} IN
    /\ request[q] = Idle
    /\ request' = [request EXCEPT ![q] = [kind |-> kind, node |-> n, graph |-> graph]]
    /\ overlapped' = IF others = {} THEN overlapped \ {q} ELSE overlapped \cup others \cup {q}

\* The window opens on a method, or is sent to another one.
Navigate(q, r) ==
    /\ builds < MaxBuilds
    /\ Send(q, "build", r)
    /\ target' = r
    /\ loading' = TRUE
    /\ builds' = builds + 1
    /\ UNCHANGED <<graph, busyNodeId, applyingOverrides>>

ResetGraph(q) ==
    /\ target # NoRef
    /\ ~loading
    /\ builds < MaxBuilds
    /\ Send(q, "build", target)
    /\ loading' = TRUE
    /\ builds' = builds + 1
    /\ UNCHANGED <<graph, target, busyNodeId, applyingOverrides>>

Expand(q, kind, n) ==
    /\ n \in Bodies
    /\ busyNodeId # n
    /\ ~graph.nodes[n][kind]
    /\ Send(q, kind, n)
    /\ busyNodeId' = n
    /\ UNCHANGED <<graph, target, applyingOverrides, loading, builds>>

Reanalyse(q) ==
    /\ Shown
    /\ ~applyingOverrides
    /\ Send(q, "apply", graph.root)
    /\ applyingOverrides' = TRUE
    /\ UNCHANGED <<graph, target, busyNodeId, loading, builds>>

\* What the window does after an answer or an error.
Finish(q) ==
    LET kind == request[q].kind IN
    /\ request' = [request EXCEPT ![q] = Idle]
    /\ busyNodeId' = IF kind \in {"forward", "backward"} THEN NoRef ELSE busyNodeId
    /\ applyingOverrides' = (applyingOverrides /\ kind # "apply")
    /\ loading' = (loading /\ kind # "build")
    /\ UNCHANGED <<target, builds, overlapped>>

Answered(q) ==
    /\ request[q] # Idle
    /\ request[q].kind = "build" => request[q].node \in Bodies
    /\ graph' = Reply(q)
    /\ Finish(q)

\* No file is loaded, or the method has no code.
Failed(q) ==
    /\ request[q] # Idle
    /\ Finish(q)
    /\ UNCHANGED graph

GraphInit ==
    /\ graph = NoGraph
    /\ target = NoRef
    /\ busyNodeId = NoRef
    /\ applyingOverrides = FALSE
    /\ loading = FALSE
    /\ request = [q \in Requests |-> Idle]
    /\ builds = 0
    /\ overlapped = {}

GraphNext ==
    \/ \E q \in Requests :
          \/ \E r \in Targets : Navigate(q, r)
          \/ ResetGraph(q)
          \/ \E kind \in {"forward", "backward"}, n \in Nodes(graph) : Expand(q, kind, n)
          \/ Reanalyse(q)
          \/ Answered(q)
          \/ Failed(q)

GraphSpec == GraphInit /\ [][GraphNext]_graphVars

-----------------------------------------------------------------------------
\* A node that shows as expanded has its calls (its callers) as edges, and the
\* edges join nodes of the graph, also after answers that crossed each other:
\* the button of an expanded node is off, so what is missing stays missing.
ExpandedIsComplete ==
    /\ Shown => graph.root \in Nodes(graph)
    /\ \A e \in graph.edges : e.from \in Nodes(graph) /\ e.to \in Nodes(graph)
    /\ \A n \in Nodes(graph) :
          /\ graph.nodes[n].forward =>
                \A i \in DOMAIN CallsOf[n] :
                    [from |-> n, to |-> CallsOf[n][i], at |-> i] \in graph.edges
          /\ graph.nodes[n].backward =>
                \A c \in Bodies : \A i \in DOMAIN CallsOf[c] :
                    CallsOf[c][i] = n => [from |-> c, to |-> n, at |-> i] \in graph.edges

\* A depth is one hop from some neighbour's: the root has 0, and every other node an
\* edge to or from another one, on which the callee is one deeper than the caller,
\* also after answers that crossed each other.  That does not make it the distance
\* from the root: see OnlyRootAtZero.
DepthFollowsEdges ==
    \A n \in Nodes(graph) :
        IF n = graph.root THEN graph.nodes[n].depth = 0
        ELSE \E e \in graph.edges :
                /\ n \in {e.from, e.to}
                /\ e.from # e.to
                /\ graph.nodes[e.to].depth = graph.nodes[e.from].depth + 1

\* taint.rs:974: "Hop distance from the root: 0 = root, +n = forward (callee), -n =
\* backward (caller)".  The window calls a node of depth 0 "root" (TaintApp.tsx:293).
OnlyRootAtZero ==
    \A n \in Nodes(graph) : graph.nodes[n].depth = 0 => n = graph.root

\* Nothing the window shows is lost, except by a new graph or by an answer that
\* was under way together with another one.
NothingLostAlone ==
    [][\A q \in Requests :
          /\ request[q] # Idle /\ request'[q] = Idle
          /\ q \notin overlapped
          /\ request[q].kind # "build"
          => /\ graph.edges \subseteq graph'.edges
             /\ \A n \in Nodes(graph) :
                   /\ n \in Nodes(graph')
                   /\ graph.nodes[n].forward => graph'.nodes[n].forward
                   /\ graph.nodes[n].backward => graph'.nodes[n].backward]_graphVars
=============================================================================
