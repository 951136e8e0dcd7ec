---------------------------- MODULE WindowProofs ----------------------------
(***************************************************************************)
(* What is proved of the two parts of the frontend that keep several       *)
(* requests under way: the call graph of the taint window, for every       *)
(* program, and the deobfuscation tab with the back end's runs over call   *)
(* sites, for all sites, batch sizes and thread counts; each for any       *)
(* number of requests and runs.                                            *)
(***************************************************************************)
EXTENDS TaintGraph, Deobf, SequenceTheorems, FiniteSetTheorems,
        WellFoundedInduction, TLAPS

NodeSet == [depth : Int, forward : BOOLEAN, backward : BOOLEAN]

EdgeSet == [from : Refs, to : Refs, at : Nat]

GraphSet == [root : Refs \cup {NoRef},
             nodes : UNION {[S -> NodeSet] : S \in SUBSET Refs},
             edges : SUBSET EdgeSet]

SentSet == [kind : {"build", "forward", "backward", "apply"},
            node : Refs \cup {NoRef}, graph : GraphSet]

GraphTypes ==
    /\ graph \in GraphSet
    /\ target \in Refs \cup {NoRef}
    /\ request \in [Requests -> SentSet \cup {Idle}]

-----------------------------------------------------------------------------
\* What the properties say of the graph that is shown holds of every graph
\* that is under way.

Complete(g) ==
    /\ g # NoGraph => g.root \in Nodes(g)
    /\ \A e \in g.edges : e.from \in Nodes(g) /\ e.to \in Nodes(g)
    /\ \A n \in Nodes(g) :
          /\ g.nodes[n].forward =>
                \A i \in DOMAIN CallsOf[n] :
                    [from |-> n, to |-> CallsOf[n][i], at |-> i] \in g.edges
          /\ g.nodes[n].backward =>
                \A c \in Bodies : \A i \in DOMAIN CallsOf[c] :
                    CallsOf[c][i] = n => [from |-> c, to |-> n, at |-> i] \in g.edges

Rooted(g) ==
    \A n \in Nodes(g) :
        IF n = g.root THEN g.nodes[n].depth = 0
        ELSE \E e \in g.edges :
                /\ n \in {e.from, e.to}
                /\ e.from # e.to
                /\ g.nodes[e.to].depth = g.nodes[e.from].depth + 1

Good(g) == g \in GraphSet /\ Complete(g) /\ Rooted(g)

SentGood ==
    \A q \in Requests : request[q] # Idle =>
        /\ Good(request[q].graph)
        /\ request[q].kind = "build" => request[q].node \in Refs
        /\ request[q].kind \in {"forward", "backward"} =>
              request[q].node \in Nodes(request[q].graph) \cap Bodies

WindowInv == GraphTypes /\ Good(graph) /\ SentGood

-----------------------------------------------------------------------------
\* The graphs the commands make.

LEMMA NodesInRefs ==
    ASSUME NEW g \in GraphSet
    PROVE  Nodes(g) \subseteq Refs /\ g.nodes \in [Nodes(g) -> NodeSet]
BY DEF GraphSet, Nodes

LEMMA CallsInRefs ==
    ASSUME NEW c \in Bodies, NEW i \in DOMAIN CallsOf[c]
    PROVE  c \in Refs /\ CallsOf[c][i] \in Refs /\ i \in Nat
<1>1. CallsOf[c] \in Seq(Refs) /\ c \in Refs
  BY TaintGraphConstantsOK
<1>. QED BY <1>1

\* A graph that has grown: n is marked, refs are new nodes at one depth.
Grown(g, n, refs, depth, kind, edges, h) ==
    /\ h \in GraphSet
    /\ h.root = g.root
    /\ h.edges = g.edges \cup edges
    /\ Nodes(h) = Nodes(g) \cup refs
    /\ \A r \in Nodes(g) :
          /\ h.nodes[r].depth = g.nodes[r].depth
          /\ h.nodes[r].forward <=> g.nodes[r].forward \/ (r = n /\ kind = "forward")
          /\ h.nodes[r].backward <=> g.nodes[r].backward \/ (r = n /\ kind = "backward")
    /\ \A r \in refs \ Nodes(g) : h.nodes[r] = Node(depth)

LEMMA NodeType ==
    ASSUME NEW depth \in Int
    PROVE  Node(depth) \in NodeSet
BY DEF Node, NodeSet

LEMMA WithNodesType ==
    ASSUME NEW g \in GraphSet, NEW refs \in SUBSET Refs, NEW depth \in Int
    PROVE  WithNodes(g, refs, depth) \in [Nodes(g) \cup refs -> NodeSet]
BY NodesInRefs, NodeType DEF WithNodes

LEMMA GraphType ==
    ASSUME NEW root \in Refs \cup {NoRef}, NEW S \in SUBSET Refs,
           NEW nodes \in [S -> NodeSet], NEW edges \in SUBSET EdgeSet
    PROVE  /\ [root |-> root, nodes |-> nodes, edges |-> edges] \in GraphSet
           /\ Nodes([root |-> root, nodes |-> nodes, edges |-> edges]) = S
BY DEF GraphSet, Nodes

LEMMA ForwardGrown ==
    ASSUME NEW g \in GraphSet, NEW n \in Nodes(g) \cap Bodies
    PROVE  Grown(g, n, {CallsOf[n][i] : i \in DOMAIN CallsOf[n]}, g.nodes[n].depth + 1,
                 "forward",
                 {[from |-> n, to |-> CallsOf[n][i], at |-> i] : i \in DOMAIN CallsOf[n]},
                 Forward(g, n))
<1>. DEFINE refs == {CallsOf[n][i] : i \in DOMAIN CallsOf[n]}
            depth == g.nodes[n].depth + 1
            grown == WithNodes(g, refs, depth)
            nodes == [grown EXCEPT ![n].forward = TRUE]
            more == {[from |-> n, to |-> CallsOf[n][i], at |-> i] : i \in DOMAIN CallsOf[n]}
            edges == g.edges \cup more
            h == [root |-> g.root, nodes |-> nodes, edges |-> edges]
<1>1. refs \subseteq Refs /\ more \subseteq EdgeSet
  BY CallsInRefs DEF EdgeSet
<1>2. depth \in Int
  BY NodesInRefs DEF NodeSet
<1>3. grown \in [Nodes(g) \cup refs -> NodeSet]
  BY <1>1, <1>2, WithNodesType
<1>4. Forward(g, n) = h
  <2>1. Forward(g, n) = [g EXCEPT !.nodes = nodes, !.edges = edges]
    BY DEF Forward, CallSites
  <2>. HIDE DEF nodes, edges
  <2>. QED BY <2>1 DEF GraphSet
<1>5. /\ \A r \in Nodes(g) : grown[r] = g.nodes[r]
      /\ \A r \in refs \ Nodes(g) : grown[r] = Node(depth)
  BY DEF WithNodes
<1>. HIDE DEF grown, depth
<1>6. /\ nodes \in [Nodes(g) \cup refs -> NodeSet]
      /\ \A r \in Nodes(g) \cup refs : r # n => nodes[r] = grown[r]
      /\ nodes[n].depth = grown[n].depth /\ nodes[n].backward = grown[n].backward
      /\ nodes[n].forward = TRUE
  BY <1>3 DEF NodeSet
<1>. HIDE DEF nodes, more, refs
<1>7. /\ g.root \in Refs \cup {NoRef} /\ edges \in SUBSET EdgeSet
      /\ Nodes(g) \cup refs \in SUBSET Refs
  BY <1>1, NodesInRefs DEF GraphSet
<1>8. h \in GraphSet /\ Nodes(h) = Nodes(g) \cup refs
  BY <1>6, <1>7, GraphType
<1>11. \A r \in Nodes(g) :
          /\ nodes[r].depth = g.nodes[r].depth
          /\ nodes[r].forward <=> g.nodes[r].forward \/ (r = n /\ "forward" = "forward")
          /\ nodes[r].backward <=> g.nodes[r].backward \/ (r = n /\ "forward" = "backward")
  <2>. TAKE r \in Nodes(g)
  <2>1. CASE r = n
    BY <1>5, <1>6, <2>1
  <2>2. CASE r # n
    <3>1. nodes[r] = g.nodes[r]
      BY <1>5, <1>6, <2>2
    <3>. QED BY <2>2, <3>1
  <2>. QED BY <2>1, <2>2
<1>12. \A r \in refs \ Nodes(g) : nodes[r] = Node(depth)
  BY <1>5, <1>6
<1>13. h.root = g.root /\ h.nodes = nodes /\ h.edges = g.edges \cup more
  OBVIOUS
<1>. HIDE DEF h
<1>14. Grown(g, n, refs, depth, "forward", more, h)
  BY <1>8, <1>11, <1>12, <1>13, Zenon DEF Grown
<1>. QED BY <1>4, <1>14 DEF refs, depth, more

\* Where the callers of a ref call it.
CallerSites(n) ==
    UNION {{<<c, i>> : i \in {j \in DOMAIN CallsOf[c] : CallsOf[c][j] \in Similar[n]}} :
              c \in Bodies}

LEMMA CallerSitesType ==
    ASSUME NEW n \in Refs
    PROVE  \A s \in CallerSites(n) :
              /\ s[1] \in Bodies /\ s[1] \in Refs /\ s[2] \in Nat
              /\ s[2] \in DOMAIN CallsOf[s[1]]
BY CallsInRefs DEF CallerSites

LEMMA BackwardGrown ==
    ASSUME NEW g \in GraphSet, NEW n \in Nodes(g) \cap Bodies
    PROVE  Grown(g, n, {s[1] : s \in CallerSites(n)}, g.nodes[n].depth - 1,
                 "backward",
                 {[from |-> s[1], to |-> n, at |-> s[2]] : s \in CallerSites(n)},
                 Backward(g, n))
<1>. DEFINE refs == {s[1] : s \in CallerSites(n)}
            depth == g.nodes[n].depth - 1
            grown == WithNodes(g, refs, depth)
            nodes == [grown EXCEPT ![n].backward = TRUE]
            more == {[from |-> s[1], to |-> n, at |-> s[2]] : s \in CallerSites(n)}
            edges == g.edges \cup more
            h == [root |-> g.root, nodes |-> nodes, edges |-> edges]
<1>1. refs \subseteq Refs /\ more \subseteq EdgeSet
  <2>1. n \in Refs
    BY NodesInRefs
  <2>. QED BY <2>1, CallerSitesType DEF EdgeSet
<1>2. depth \in Int
  BY NodesInRefs DEF NodeSet
<1>3. grown \in [Nodes(g) \cup refs -> NodeSet]
  BY <1>1, <1>2, WithNodesType
<1>4. Backward(g, n) = h
  <2>1. Backward(g, n) = [g EXCEPT !.nodes = nodes, !.edges = edges]
    BY DEF Backward, CallerSites, CallersDepth
  <2>. HIDE DEF nodes, edges
  <2>. QED BY <2>1 DEF GraphSet
<1>5. /\ \A r \in Nodes(g) : grown[r] = g.nodes[r]
      /\ \A r \in refs \ Nodes(g) : grown[r] = Node(depth)
  BY DEF WithNodes
<1>. HIDE DEF grown, depth
<1>6. /\ nodes \in [Nodes(g) \cup refs -> NodeSet]
      /\ \A r \in Nodes(g) \cup refs : r # n => nodes[r] = grown[r]
      /\ nodes[n].depth = grown[n].depth /\ nodes[n].forward = grown[n].forward
      /\ nodes[n].backward = TRUE
  BY <1>3 DEF NodeSet
<1>. HIDE DEF nodes, more, refs
<1>7. /\ g.root \in Refs \cup {NoRef} /\ edges \in SUBSET EdgeSet
      /\ Nodes(g) \cup refs \in SUBSET Refs
  BY <1>1, NodesInRefs DEF GraphSet
<1>8. h \in GraphSet /\ Nodes(h) = Nodes(g) \cup refs
  BY <1>6, <1>7, GraphType
<1>9. \A r \in Nodes(g) :
          /\ nodes[r].depth = g.nodes[r].depth
          /\ nodes[r].forward <=> g.nodes[r].forward \/ (r = n /\ "backward" = "forward")
          /\ nodes[r].backward <=> g.nodes[r].backward \/ (r = n /\ "backward" = "backward")
  <2>. TAKE r \in Nodes(g)
  <2>1. CASE r = n
    BY <1>5, <1>6, <2>1
  <2>2. CASE r # n
    <3>1. nodes[r] = g.nodes[r]
      BY <1>5, <1>6, <2>2
    <3>. QED BY <2>2, <3>1
  <2>. QED BY <2>1, <2>2
<1>10. \A r \in refs \ Nodes(g) : nodes[r] = Node(depth)
  BY <1>5, <1>6
<1>11. h.root = g.root /\ h.nodes = nodes /\ h.edges = g.edges \cup more
  OBVIOUS
<1>. HIDE DEF h
<1>12. Grown(g, n, refs, depth, "backward", more, h)
  BY <1>8, <1>9, <1>10, <1>11, Zenon DEF Grown
<1>. QED BY <1>4, <1>12 DEF refs, depth, more

\* A graph that grows by edges between n and the new nodes, one hop away, stays
\* good when the edges of what it marks n with are among them.
LEMMA GrownGood ==
    ASSUME NEW g, Good(g), NEW n \in Nodes(g), NEW refs, NEW depth,
           NEW kind, NEW edges, NEW h,
           Grown(g, n, refs, depth, kind, edges, h),
           \A e \in edges : e.from \in refs \cup {n} /\ e.to \in refs \cup {n},
           \A r \in refs : \E e \in edges :
              \/ e.from = n /\ e.to = r /\ depth = g.nodes[n].depth + 1
              \/ e.from = r /\ e.to = n /\ depth = g.nodes[n].depth - 1,
           kind = "forward" => \A i \in DOMAIN CallsOf[n] :
                     [from |-> n, to |-> CallsOf[n][i], at |-> i] \in edges,
           kind = "backward" => \A c \in Bodies : \A i \in DOMAIN CallsOf[c] :
                     CallsOf[c][i] = n => [from |-> c, to |-> n, at |-> i] \in edges
    PROVE  Good(h)
<1>1. /\ h \in GraphSet /\ h.root = g.root /\ h.edges = g.edges \cup edges
      /\ Nodes(h) = Nodes(g) \cup refs
      /\ \A r \in Nodes(g) :
            /\ h.nodes[r].depth = g.nodes[r].depth
            /\ h.nodes[r].forward <=> g.nodes[r].forward \/ (r = n /\ kind = "forward")
            /\ h.nodes[r].backward <=> g.nodes[r].backward \/ (r = n /\ kind = "backward")
      /\ \A r \in refs \ Nodes(g) :
            h.nodes[r].depth = depth /\ ~h.nodes[r].forward /\ ~h.nodes[r].backward
  BY DEF Grown, Node
<1>2. g # NoGraph
  BY DEF NoGraph, Nodes
<1>3. g.root \in Nodes(g) /\ \A e \in g.edges : e.from \in Nodes(g) /\ e.to \in Nodes(g)
  BY <1>2 DEF Good, Complete
<1>4. Complete(h)
  <2>1. h.root \in Nodes(h) /\ \A e \in h.edges : e.from \in Nodes(h) /\ e.to \in Nodes(h)
    BY <1>1, <1>3
  <2>2. ASSUME NEW r \in Nodes(h), h.nodes[r].forward, NEW i \in DOMAIN CallsOf[r]
        PROVE  [from |-> r, to |-> CallsOf[r][i], at |-> i] \in h.edges
    <3>1. r \in Nodes(g) /\ (g.nodes[r].forward \/ (r = n /\ kind = "forward"))
      BY <1>1, <2>2
    <3>2. CASE g.nodes[r].forward
      BY <1>1, <2>2, <3>1, <3>2 DEF Good, Complete
    <3>3. CASE r = n /\ kind = "forward"
      BY <1>1, <2>2, <3>3
    <3>. QED BY <3>1, <3>2, <3>3
  <2>3. ASSUME NEW r \in Nodes(h), h.nodes[r].backward, NEW c \in Bodies,
               NEW i \in DOMAIN CallsOf[c], CallsOf[c][i] = r
        PROVE  [from |-> c, to |-> r, at |-> i] \in h.edges
    <3>1. r \in Nodes(g) /\ (g.nodes[r].backward \/ (r = n /\ kind = "backward"))
      BY <1>1, <2>3
    <3>2. CASE g.nodes[r].backward
      BY <1>1, <2>3, <3>1, <3>2 DEF Good, Complete
    <3>3. CASE r = n /\ kind = "backward"
      BY <1>1, <2>3, <3>3
    <3>. QED BY <3>1, <3>2, <3>3
  <2>. QED BY <2>1, <2>2, <2>3 DEF Complete
<1>5. Rooted(h)
  <2>1. ASSUME NEW r \in Nodes(g), r = h.root PROVE h.nodes[r].depth = 0
    BY <1>1, <2>1 DEF Good, Rooted
  <2>2. ASSUME NEW r \in Nodes(g), r # h.root
        PROVE  \E e \in h.edges : /\ r \in {e.from, e.to} /\ e.from # e.to
                                  /\ h.nodes[e.to].depth = h.nodes[e.from].depth + 1
    <3>1. PICK e \in g.edges : /\ r \in {e.from, e.to} /\ e.from # e.to
                               /\ g.nodes[e.to].depth = g.nodes[e.from].depth + 1
      BY <1>1, <2>2 DEF Good, Rooted
    <3>2. e \in h.edges /\ e.from \in Nodes(g) /\ e.to \in Nodes(g)
      BY <1>1, <1>3
    <3>. QED BY <1>1, <3>1, <3>2, SMTT(40)
  <2>3. ASSUME NEW r \in refs \ Nodes(g)
        PROVE  /\ r # h.root
               /\ \E e \in h.edges : /\ r \in {e.from, e.to} /\ e.from # e.to
                                     /\ h.nodes[e.to].depth = h.nodes[e.from].depth + 1
    <3>1. PICK e \in edges : \/ e.from = n /\ e.to = r /\ depth = g.nodes[n].depth + 1
                             \/ e.from = r /\ e.to = n /\ depth = g.nodes[n].depth - 1
      OBVIOUS
    <3>2. r # n /\ e \in h.edges /\ h.nodes[r].depth = depth
      BY <1>1
    <3>3. h.nodes[n].depth = g.nodes[n].depth /\ g.nodes[n].depth \in Int
      BY <1>1, NodesInRefs DEF Good, NodeSet
    <3>. QED BY <1>1, <1>3, <3>1, <3>2, <3>3, SMTT(40)
  <2>. QED BY <1>1, <2>1, <2>2, <2>3 DEF Rooted
<1>. QED BY <1>1, <1>4, <1>5 DEF Good

LEMMA ForwardGood ==
    ASSUME NEW g, Good(g), NEW n \in Nodes(g) \cap Bodies
    PROVE  Good(Forward(g, n))
<1>. DEFINE refs == {CallsOf[n][i] : i \in DOMAIN CallsOf[n]}
            edges == {[from |-> n, to |-> CallsOf[n][i], at |-> i] : i \in DOMAIN CallsOf[n]}
<1>1. Grown(g, n, refs, g.nodes[n].depth + 1, "forward", edges, Forward(g, n))
  BY ForwardGrown DEF Good
<1>2. \A e \in edges : e.from \in refs \cup {n} /\ e.to \in refs \cup {n}
  OBVIOUS
<1>3. \A r \in refs : \E e \in edges : e.from = n /\ e.to = r
  <2>1. SUFFICES ASSUME NEW i \in DOMAIN CallsOf[n]
                 PROVE  \E e \in edges : e.from = n /\ e.to = CallsOf[n][i]
    OBVIOUS
  <2>. WITNESS [from |-> n, to |-> CallsOf[n][i], at |-> i] \in edges
  <2>. QED OBVIOUS
<1>4. \A i \in DOMAIN CallsOf[n] : [from |-> n, to |-> CallsOf[n][i], at |-> i] \in edges
  OBVIOUS
<1>. HIDE DEF refs, edges
<1>. QED BY <1>1, <1>2, <1>3, <1>4, GrownGood

LEMMA BackwardGood ==
    ASSUME NEW g, Good(g), NEW n \in Nodes(g) \cap Bodies
    PROVE  Good(Backward(g, n))
<1>. DEFINE refs == {s[1] : s \in CallerSites(n)}
            edges == {[from |-> s[1], to |-> n, at |-> s[2]] : s \in CallerSites(n)}
<1>1. Grown(g, n, refs, g.nodes[n].depth - 1, "backward", edges, Backward(g, n))
  BY BackwardGrown DEF Good
<1>2. \A e \in edges : e.from \in refs \cup {n} /\ e.to \in refs \cup {n}
  OBVIOUS
<1>3. \A r \in refs : \E e \in edges : e.from = r /\ e.to = n
  <2>1. SUFFICES ASSUME NEW s \in CallerSites(n)
                 PROVE  \E e \in edges : e.from = s[1] /\ e.to = n
    OBVIOUS
  <2>. WITNESS [from |-> s[1], to |-> n, at |-> s[2]] \in edges
  <2>. QED OBVIOUS
<1>4. ASSUME NEW c \in Bodies, NEW i \in DOMAIN CallsOf[c], CallsOf[c][i] = n
      PROVE  [from |-> c, to |-> n, at |-> i] \in edges
  <2>1. n \in Similar[n]
    BY NodesInRefs, TaintGraphConstantsOK DEF Good
  <2>2. <<c, i>> \in CallerSites(n)
    BY <1>4, <2>1 DEF CallerSites
  <2>. QED BY <2>2
<1>. HIDE DEF refs, edges
<1>. QED BY <1>1, <1>2, <1>3, <1>4, GrownGood

LEMMA RootGood ==
    ASSUME NEW r \in Refs
    PROVE  Good(RootGraph(r))
<1>. DEFINE nodes == [n \in {r} |-> Node(0)]
<1>1. Node(0) \in NodeSet /\ Node(0).depth = 0 /\ ~Node(0).forward /\ ~Node(0).backward
  BY NodeType DEF Node
<1>2. nodes \in [{r} -> NodeSet] /\ nodes[r] = Node(0)
  BY <1>1
<1>. HIDE DEF nodes
<1>3. /\ RootGraph(r) \in GraphSet /\ Nodes(RootGraph(r)) = {r}
      /\ RootGraph(r).root = r /\ RootGraph(r).nodes = nodes /\ RootGraph(r).edges = {}
  BY <1>2, GraphType DEF RootGraph, nodes
<1>. QED BY <1>1, <1>2, <1>3 DEF Good, Complete, Rooted

LEMMA NoGraphGood == Good(NoGraph)
<1>. DEFINE nodes == [r \in {} |-> 0]
<1>1. nodes \in [{} -> NodeSet]
  OBVIOUS
<1>. HIDE DEF nodes
<1>2. /\ NoGraph \in GraphSet /\ Nodes(NoGraph) = {}
      /\ NoGraph.root = NoRef /\ NoGraph.edges = {}
  BY <1>1, GraphType DEF NoGraph, nodes
<1>. QED BY <1>2 DEF Good, Complete, Rooted

-----------------------------------------------------------------------------
\* The invariant.

LEMMA SendInv ==
    ASSUME WindowInv, NEW q \in Requests, NEW kind \in {"build", "forward", "backward", "apply"},
           NEW n \in Refs \cup {NoRef}, Send(q, kind, n), graph' = graph,
           target' \in Refs \cup {NoRef},
           kind = "build" => n \in Refs,
           kind \in {"forward", "backward"} => n \in Nodes(graph) \cap Bodies
    PROVE  WindowInv'
<1>. DEFINE sent == [kind |-> kind, node |-> n, graph |-> graph]
<1>1. sent \in SentSet /\ sent.kind = kind /\ sent.node = n /\ sent.graph = graph
  BY DEF WindowInv, GraphTypes, SentSet
<1>2. request' = [request EXCEPT ![q] = sent]
  BY DEF Send
<1>. HIDE DEF sent
<1>3. GraphTypes'
  BY <1>1, <1>2 DEF WindowInv, GraphTypes
<1>4. SentGood'
  BY <1>1, <1>2 DEF WindowInv, GraphTypes, SentGood
<1>. QED BY <1>3, <1>4 DEF WindowInv

LEMMA FinishInv ==
    ASSUME WindowInv, NEW q \in Requests, Finish(q), Good(graph')
    PROVE  WindowInv'
<1>1. request' = [request EXCEPT ![q] = Idle] /\ target' = target
  BY DEF Finish
<1>2. GraphTypes'
  BY <1>1 DEF WindowInv, GraphTypes, Good
<1>3. SentGood'
  BY <1>1 DEF WindowInv, GraphTypes, SentGood
<1>. QED BY <1>2, <1>3 DEF WindowInv

LEMMA ReplyGood ==
    ASSUME WindowInv, NEW q \in Requests, request[q] # Idle
    PROVE  Good(Reply(q))
<1>1. /\ request[q].kind \in {"build", "forward", "backward", "apply"}
      /\ Good(request[q].graph)
      /\ request[q].kind = "build" => request[q].node \in Refs
      /\ request[q].kind \in {"forward", "backward"} =>
            request[q].node \in Nodes(request[q].graph) \cap Bodies
  BY DEF WindowInv, GraphTypes, SentSet, SentGood
<1>. QED BY <1>1, RootGood, ForwardGood, BackwardGood DEF Reply, Reanalysed

LEMMA WindowInit == GraphInit => WindowInv
<1>. SUFFICES ASSUME GraphInit PROVE WindowInv
  OBVIOUS
<1>1. graph = NoGraph /\ target = NoRef /\ \A q \in Requests : request[q] = Idle
  BY DEF GraphInit
<1>2. request \in [Requests -> SentSet \cup {Idle}]
  BY DEF GraphInit
<1>. QED BY <1>1, <1>2, NoGraphGood DEF WindowInv, GraphTypes, SentGood, Good

LEMMA WindowStep == WindowInv /\ [GraphNext]_graphVars => WindowInv'
<1>. SUFFICES ASSUME WindowInv, [GraphNext]_graphVars PROVE WindowInv'
  OBVIOUS
<1>1. ASSUME NEW q \in Requests, NEW r \in Targets, Navigate(q, r) PROVE WindowInv'
  BY <1>1, SendInv, TaintGraphConstantsOK DEF Navigate
<1>2. ASSUME NEW q \in Requests, ResetGraph(q) PROVE WindowInv'
  <2>1. target \in Refs
    BY <1>2 DEF ResetGraph, WindowInv, GraphTypes
  <2>. QED BY <1>2, <2>1, SendInv DEF ResetGraph
<1>3. ASSUME NEW q \in Requests, NEW kind \in {"forward", "backward"},
             NEW n \in Nodes(graph), Expand(q, kind, n)
      PROVE  WindowInv'
  <2>1. n \in Refs /\ n \in Bodies /\ target \in Refs \cup {NoRef}
    BY <1>3, NodesInRefs DEF Expand, WindowInv, GraphTypes
  <2>. QED BY <1>3, <2>1, SendInv DEF Expand
<1>4. ASSUME NEW q \in Requests, Reanalyse(q) PROVE WindowInv'
  <2>1. graph.root \in Refs \cup {NoRef} /\ target \in Refs \cup {NoRef}
    BY DEF WindowInv, GraphTypes, GraphSet
  <2>. QED BY <1>4, <2>1, SendInv DEF Reanalyse
<1>5. ASSUME NEW q \in Requests, Answered(q) PROVE WindowInv'
  BY <1>5, ReplyGood, FinishInv DEF Answered
<1>6. ASSUME NEW q \in Requests, Failed(q) PROVE WindowInv'
  BY <1>6, FinishInv DEF Failed, WindowInv
<1>7. CASE UNCHANGED graphVars
  BY <1>7 DEF graphVars, WindowInv, GraphTypes, SentGood
<1>. QED BY <1>1, <1>2, <1>3, <1>4, <1>5, <1>6, <1>7 DEF GraphNext

\* Every graph that is shown or under way is whole, whatever crossed what.
THEOREM WindowInvAlways == GraphSpec => []WindowInv
<1>1. GraphInit => WindowInv
  BY WindowInit
<1>2. WindowInv /\ [GraphNext]_graphVars => WindowInv'
  BY WindowStep
<1>. QED BY <1>1, <1>2, PTL DEF GraphSpec

\* A node that shows as expanded has all of its calls, or all of its callers, as
\* edges, however many requests crossed each other on the way.
THEOREM ExpandedNodesComplete == GraphSpec => []ExpandedIsComplete
<1>1. WindowInv => ExpandedIsComplete
  BY DEF WindowInv, Good, Complete, ExpandedIsComplete, Shown
<1>. QED BY <1>1, WindowInvAlways, PTL

\* Every depth stays one hop from a neighbour's: no crossing answer leaves a node
\* whose depth no edge explains.
THEOREM DepthsFollowEdges == GraphSpec => []DepthFollowsEdges
<1>1. WindowInv => DepthFollowsEdges
  BY DEF WindowInv, Good, Rooted, DepthFollowsEdges
<1>. QED BY <1>1, WindowInvAlways, PTL

-----------------------------------------------------------------------------
\* What a crossing can lose.

\* A request that no other was under way with was sent what is shown.
AloneInv ==
    \A q \in Requests : request[q] # Idle /\ q \notin overlapped =>
        /\ request[q].graph = graph
        /\ \A p \in Requests \ {q} : request[p] = Idle

\* What NothingLostAlone says of one step.
Keeps(g, h) ==
    /\ g.edges \subseteq h.edges
    /\ \A n \in Nodes(g) :
          /\ n \in Nodes(h)
          /\ g.nodes[n].forward => h.nodes[n].forward
          /\ g.nodes[n].backward => h.nodes[n].backward

LEMMA SendAlone ==
    ASSUME WindowInv, AloneInv, NEW q \in Requests, NEW kind, NEW n,
           Send(q, kind, n), graph' = graph
    PROVE  AloneInv' /\ \A p \in Requests : request[p] # Idle => request'[p] # Idle
<1>. DEFINE sent == [kind |-> kind, node |-> n, graph |-> graph]
            others == {p \in Requests : request[p] # Idle}
<1>1. sent.graph = graph
  OBVIOUS
<1>2. /\ request[q] = Idle
      /\ \A p \in Requests \ {q} : request'[p] = request[p]
      /\ request'[q] = sent
      /\ overlapped' = IF others = {} THEN overlapped \ {q} ELSE overlapped \cup others \cup {q}
  BY DEF Send, WindowInv, GraphTypes
<1>. HIDE DEF sent
<1>. QED BY <1>1, <1>2 DEF AloneInv

LEMMA FinishAlone ==
    ASSUME WindowInv, AloneInv, NEW q \in Requests, request[q] # Idle, Finish(q),
           graph' = graph \/ q \in overlapped \/ \A p \in Requests \ {q} : request[p] = Idle
    PROVE  AloneInv' /\ \A p \in Requests : request[p] # Idle /\ request'[p] = Idle => p = q
<1>1. /\ request'[q] = Idle /\ \A p \in Requests \ {q} : request'[p] = request[p]
      /\ overlapped' = overlapped
  BY DEF Finish, WindowInv, GraphTypes
<1>. QED BY <1>1 DEF AloneInv

LEMMA GrownKeeps ==
    ASSUME NEW g, NEW n, NEW refs, NEW depth, NEW kind, NEW edges, NEW h,
           Grown(g, n, refs, depth, kind, edges, h)
    PROVE  Keeps(g, h)
BY DEF Grown, Keeps

LEMMA ReplyKeeps ==
    ASSUME WindowInv, NEW q \in Requests, request[q] # Idle, request[q].kind # "build"
    PROVE  Keeps(request[q].graph, Reply(q))
<1>1. /\ request[q].kind \in {"forward", "backward", "apply"}
      /\ request[q].graph \in GraphSet
      /\ request[q].kind \in {"forward", "backward"} =>
            request[q].node \in Nodes(request[q].graph) \cap Bodies
  BY DEF WindowInv, GraphTypes, SentSet, SentGood, Good
<1>2. CASE request[q].kind = "forward"
  BY <1>1, <1>2, ForwardGrown, GrownKeeps DEF Reply
<1>3. CASE request[q].kind = "backward"
  BY <1>1, <1>3, BackwardGrown, GrownKeeps DEF Reply
<1>4. CASE request[q].kind = "apply"
  BY <1>1, <1>4 DEF Reply, Reanalysed, Keeps
<1>. QED BY <1>1, <1>2, <1>3, <1>4

\* An answer that came back alone.
LostNothing ==
    \A q \in Requests :
        /\ request[q] # Idle /\ request'[q] = Idle
        /\ q \notin overlapped
        /\ request[q].kind # "build"
        => Keeps(graph, graph')

LEMMA AloneStep == WindowInv /\ AloneInv /\ [GraphNext]_graphVars => AloneInv' /\ LostNothing
<1>. SUFFICES ASSUME WindowInv, AloneInv, [GraphNext]_graphVars
              PROVE  AloneInv' /\ LostNothing
  OBVIOUS
<1>1. ASSUME NEW q \in Requests, NEW kind, NEW n, Send(q, kind, n), graph' = graph
      PROVE  AloneInv' /\ LostNothing
  BY <1>1, SendAlone DEF LostNothing
<1>2. ASSUME NEW q \in Requests, NEW r \in Targets, Navigate(q, r)
      PROVE  AloneInv' /\ LostNothing
  BY <1>1, <1>2 DEF Navigate
<1>3. ASSUME NEW q \in Requests, ResetGraph(q) PROVE AloneInv' /\ LostNothing
  BY <1>1, <1>3 DEF ResetGraph
<1>4. ASSUME NEW q \in Requests, NEW kind \in {"forward", "backward"},
             NEW n \in Nodes(graph), Expand(q, kind, n)
      PROVE  AloneInv' /\ LostNothing
  BY <1>1, <1>4 DEF Expand
<1>5. ASSUME NEW q \in Requests, Reanalyse(q) PROVE AloneInv' /\ LostNothing
  BY <1>1, <1>5 DEF Reanalyse
<1>6. ASSUME NEW q \in Requests, Answered(q) PROVE AloneInv' /\ LostNothing
  <2>1. request[q] # Idle /\ Finish(q) /\ graph' = Reply(q)
    BY <1>6 DEF Answered
  <2>2. q \notin overlapped => /\ request[q].graph = graph
                               /\ \A p \in Requests \ {q} : request[p] = Idle
    BY <2>1 DEF AloneInv
  <2>3. AloneInv' /\ \A p \in Requests : request[p] # Idle /\ request'[p] = Idle => p = q
    BY <2>1, <2>2, FinishAlone
  <2>. QED BY <2>1, <2>2, <2>3, ReplyKeeps DEF LostNothing
<1>7. ASSUME NEW q \in Requests, Failed(q) PROVE AloneInv' /\ LostNothing
  <2>1. Keeps(graph, graph')
    BY <1>7 DEF Failed, Keeps
  <2>. QED BY <1>7, <2>1, FinishAlone DEF Failed, LostNothing
<1>8. CASE UNCHANGED graphVars
  BY <1>8 DEF graphVars, AloneInv, LostNothing
<1>. QED BY <1>2, <1>3, <1>4, <1>5, <1>6, <1>7, <1>8 DEF GraphNext

\* Only a new graph, or an answer that was under way with another one, takes
\* anything from what the window shows.
THEOREM AloneLosesNothing == GraphSpec => NothingLostAlone
<1>1. GraphInit => AloneInv
  BY DEF GraphInit, AloneInv
<1>2. WindowInv /\ AloneInv /\ [GraphNext]_graphVars => AloneInv'
  BY AloneStep
<1>3. WindowInv /\ AloneInv /\ [GraphNext]_graphVars =>
        [\A q \in Requests :
            /\ request[q] # Idle /\ request'[q] = Idle
            /\ q \notin overlapped
            /\ request[q].kind # "build"
            => /\ graph.edges \subseteq graph'.edges
               /\ \A n \in Nodes(graph) :
                     /\ n \in Nodes(graph')
                     /\ graph.nodes[n].forward => graph'.nodes[n].forward
                     /\ graph.nodes[n].backward => graph'.nodes[n].backward]_graphVars
  BY AloneStep DEF LostNothing, Keeps, Nodes
<1>. QED BY <1>1, <1>2, <1>3, WindowInvAlways, PTL DEF GraphSpec, NothingLostAlone

-----------------------------------------------------------------------------
\* The deobfuscation tab and the runs over call sites.

LEMMA LeastExists ==
    ASSUME NEW S \in SUBSET Nat, S # {}
    PROVE  \E m \in S : \A k \in S : m <= k
<1>1. PICK m \in S : \A k \in S : ~ (<<k, m>> \in OpToRel(<, Nat))
  BY NatLessThanWellFounded, WFMin
<1>2. \A k \in S : ~ (k < m)
  BY <1>1 DEF OpToRel
<1>. QED BY <1>2

LEMMA GreatestExists ==
    ASSUME NEW n \in Nat, NEW S \in SUBSET (1..n), S # {}
    PROVE  \E m \in S : \A k \in S : k <= m
<1>. DEFINE T == {n - i : i \in S}
<1>1. T \in SUBSET Nat /\ T # {}
  <2>1. PICK i \in S : TRUE
    OBVIOUS
  <2>2. n - i \in T /\ \A k \in S : n - k \in Nat
    OBVIOUS
  <2>. QED BY <2>2
<1>2. PICK j \in T : \A k \in T : j <= k
  BY <1>1, LeastExists
<1>3. PICK m \in S : j = n - m
  OBVIOUS
<1>4. \A k \in S : n - m <= n - k
  BY <1>2, <1>3
<1>. QED BY <1>4

\* A function on 1..n is a sequence.
LEMMA ListIsSeq ==
    ASSUME NEW S, NEW n \in Nat, NEW f \in [1..n -> S]
    PROVE  f \in Seq(S) /\ Len(f) = n
BY IsASeq

\* The requests there are, and what they can be answered with.
Req == UNION {{RequestsOf(m)[k] : k \in DOMAIN SitesOf[m]} : m \in Methods}

ValueSet == [method : {q.method : q \in Req}, args : {q.args : q \in Req}, fresh : BOOLEAN]

LEMMA RequestsOfType ==
    ASSUME NEW m \in Methods
    PROVE  /\ RequestsOf(m) \in Seq(Req)
           /\ Len(RequestsOf(m)) = Len(SitesOf[m]) /\ Len(SitesOf[m]) \in Nat
           /\ DOMAIN SitesOf[m] = 1..Len(SitesOf[m])
           /\ \A k \in DOMAIN SitesOf[m] :
                 /\ RequestsOf(m)[k].method = m
                 /\ RequestsOf(m)[k].row = SitesOf[m][k].row
                 /\ RequestsOf(m)[k].args = SitesOf[m][k].args
<1>1. Len(SitesOf[m]) \in Nat /\ DOMAIN SitesOf[m] = 1..Len(SitesOf[m])
  <2>1. SitesOf[m] \in Seq({SitesOf[m][i] : i \in DOMAIN SitesOf[m]})
    BY DeobfConstantsOK
  <2>. QED BY <2>1
<1>2. \A k \in DOMAIN SitesOf[m] : RequestsOf(m)[k] = Request(m, SitesOf[m][k])
  BY DEF RequestsOf
<1>3. RequestsOf(m) \in [1..Len(SitesOf[m]) -> Req]
  BY <1>1, SMTT(40) DEF RequestsOf, Req
<1>4. RequestsOf(m) \in Seq(Req) /\ Len(RequestsOf(m)) = Len(SitesOf[m])
  BY <1>1, <1>3, ListIsSeq
<1>5. \A k \in DOMAIN SitesOf[m] :
         /\ RequestsOf(m)[k].method = m
         /\ RequestsOf(m)[k].row = SitesOf[m][k].row
         /\ RequestsOf(m)[k].args = SitesOf[m][k].args
  <2>. TAKE k \in DOMAIN SitesOf[m]
  <2>1. RequestsOf(m)[k] =
           [method |-> m, row |-> SitesOf[m][k].row, args |-> SitesOf[m][k].args]
    BY <1>2 DEF Request
  <2>. QED BY <2>1
<1>. QED BY <1>1, <1>4, <1>5

LEMMA ReqHasSite ==
    ASSUME NEW q \in Req
    PROVE  \E i \in DOMAIN SitesOf[q.method] :
              /\ q.method \in Methods
              /\ q = RequestsOf(q.method)[i]
              /\ q.args = SitesOf[q.method][i].args
<1>0. PICK m \in Methods : q \in {RequestsOf(m)[k] : k \in DOMAIN SitesOf[m]}
  BY DEF Req
<1>1. PICK k \in DOMAIN SitesOf[m] : q = RequestsOf(m)[k]
  BY <1>0
<1>2. q.method = m /\ q.args = SitesOf[m][k].args
  BY <1>1, RequestsOfType
<1>. QED BY <1>1, <1>2

LEMMA ValueFacts ==
    ASSUME NEW q \in Req, NEW used \in BOOLEAN
    PROVE  /\ Value(q, used) \in ValueSet
           /\ Value(q, used).args = q.args
           /\ q.method \notin Remembering => Value(q, used) = Alone(q)
<1>1. Value(q, used).args = q.args
  BY DEF Value
<1>2. q.method \notin Remembering => Value(q, used) = Alone(q)
  BY DEF Value, Alone
<1>3. Value(q, used) \in ValueSet
  BY DEF Value, ValueSet
<1>. QED BY <1>1, <1>2, <1>3

LEMMA FirstLikeFacts ==
    ASSUME NEW batch, NEW places \in SUBSET Nat, NEW i \in places
    PROVE  /\ FirstLike(batch, places, i) \in places
           /\ batch[FirstLike(batch, places, i)].args = batch[i].args
<1>. DEFINE like == {j \in places : Fingerprint(batch[j]) = Fingerprint(batch[i])}
<1>1. like \in SUBSET Nat /\ i \in like
  OBVIOUS
<1>2. PICK j \in like : \A k \in like : j <= k
  BY <1>1, LeastExists
<1>3. /\ FirstLike(batch, places, i) \in places
      /\ Fingerprint(batch[FirstLike(batch, places, i)]) = Fingerprint(batch[i])
  BY <1>2 DEF FirstLike
<1>. QED BY <1>3 DEF Fingerprint

\* A run of the back end answers each site for its own arguments; sites of one
\* method that does not remember, with what each gives alone.
LEMMA BatchAnswer ==
    ASSUME NEW batch \in Seq(Req), NEW answer \in BatchAnswers(batch)
    PROVE  /\ answer \in Seq(ValueSet) /\ Len(answer) = Len(batch)
           /\ \A i \in DOMAIN batch :
                 /\ answer[i].args = batch[i].args
                 /\ \A m \in Methods \ Remembering :
                       (\A k \in DOMAIN batch : batch[k].method = m)
                       => answer[i] = Alone(batch[i])
<1>. DEFINE all == DOMAIN batch
            first(i) == FirstLike(batch, all, i)
            unique == {first(i) : i \in all}
<1>1. all = 1..Len(batch) /\ Len(batch) \in Nat /\ \A i \in all : batch[i] \in Req
  OBVIOUS
<1>2. PICK f \in [unique -> BOOLEAN] :
         answer = [i \in all |-> Value(batch[first(i)], f[first(i)])]
  BY DEF BatchAnswers
<1>3. \A i \in all : first(i) \in all /\ batch[first(i)].args = batch[i].args
  BY <1>1, FirstLikeFacts
<1>4. \A i \in all : first(i) \in unique
  OBVIOUS
<1>. HIDE DEF unique, first
<1>5. \A i \in all : /\ answer[i] = Value(batch[first(i)], f[first(i)])
                     /\ batch[first(i)] \in Req /\ f[first(i)] \in BOOLEAN
  BY <1>1, <1>2, <1>3, <1>4
<1>6. \A i \in all : answer[i] \in ValueSet /\ answer[i].args = batch[i].args
  <2>. TAKE i \in all
  <2>. DEFINE j == first(i)
  <2>1. /\ batch[j] \in Req /\ f[j] \in BOOLEAN
        /\ answer[i] = Value(batch[j], f[j]) /\ batch[j].args = batch[i].args
    BY <1>3, <1>5
  <2>. HIDE DEF j
  <2>. QED BY <2>1, ValueFacts
<1>7. answer \in Seq(ValueSet) /\ Len(answer) = Len(batch)
  <2>1. answer \in [1..Len(batch) -> ValueSet]
    BY <1>1, <1>2, <1>6
  <2>. QED BY <1>1, <2>1, ListIsSeq
<1>8. ASSUME NEW i \in all, NEW m \in Methods \ Remembering,
             \A k \in all : batch[k].method = m
      PROVE  answer[i] = Alone(batch[i])
  <2>. DEFINE j == first(i)
  <2>1. /\ batch[j] \in Req /\ f[j] \in BOOLEAN /\ answer[i] = Value(batch[j], f[j])
        /\ batch[j].args = batch[i].args /\ batch[j].method = m /\ batch[i].method = m
    BY <1>3, <1>5, <1>8
  <2>. HIDE DEF j
  <2>2. answer[i] = Alone(batch[j])
    BY <1>8, <2>1, ValueFacts
  <2>. QED BY <2>1, <2>2 DEF Value, Alone
<1>. QED BY <1>6, <1>7, <1>8

-----------------------------------------------------------------------------
\* A run that is under way.

RunSet == [kind : {"mark", "all", "shown", "site"}, phase : {"scan", "check", "sent"},
           left : Seq(Methods), requests : Seq(Req), collected : Seq(ValueSet),
           of : SUBSET Methods]

\* A method's own run scans that method or has done so, and has the method's
\* sites as its requests, if it has any.
OwnRun(r) ==
    \E m \in Methods :
        /\ r.of = {m}
        /\ \/ r.left = <<m>> /\ r.requests = << >>
           \/ r.left = << >> /\ r.requests \in {<< >>, RequestsOf(m)}

RunOK(r) ==
    /\ Len(r.collected) <= Len(r.requests)
    /\ r.phase = "scan" => r.collected = << >>
    /\ r.kind = "mark" => OwnRun(r) /\ EachAlone(r.collected, r.requests)
    /\ r.kind # "mark" => r.of = {}

BulksOK ==
    /\ bulk \in [Bulks -> RunSet \cup {NotRunning}]
    /\ \A b \in Bulks : bulk[b] # NotRunning => RunOK(bulk[b])

RowsOK ==
    \A r \in DOMAIN rows :
        \E i \in DOMAIN SitesOf[r[1]] :
            r = Row(RequestsOf(r[1])[i]) /\ rows[r].args = SitesOf[r[1]][i].args

ReportsOK == \A m \in DOMAIN reports : EachAlone(reports[m], RequestsOf(m))

FoundOK ==
    DOMAIN found # {} =>
        /\ Len(found.values) = Len(SitesOf[found.method])
        /\ EachAlone(found.values, RequestsOf(found.method))

DeobfInv ==
    /\ marked \subseteq Methods
    /\ BulksOK /\ RowsOK /\ ReportsOK /\ FoundOK

LEMMA RunIs ==
    ASSUME BulksOK, NEW b \in Bulks, bulk[b].kind # "none"
    PROVE  bulk[b] \in RunSet /\ RunOK(bulk[b])
BY DEF BulksOK, NotRunning

\* A run takes the next place, another one stays as it is.
LEMMA BulkSet ==
    ASSUME BulksOK, NEW b \in Bulks, NEW r,
           r = NotRunning \/ (r \in RunSet /\ RunOK(r)),
           bulk' = [bulk EXCEPT ![b] = r]
    PROVE  BulksOK'
<1>1. bulk' \in [Bulks -> RunSet \cup {NotRunning}]
  BY DEF BulksOK
<1>2. ASSUME NEW c \in Bulks, bulk'[c] # NotRunning
      PROVE  RunOK(bulk'[c])
  <2>1. CASE c = b
    BY <1>2, <2>1 DEF BulksOK
  <2>2. CASE c # b
    BY <1>2, <2>2 DEF BulksOK
  <2>. QED BY <2>1, <2>2
<1>3. (\A c \in Bulks : bulk[c] # NotRunning => RunOK(bulk[c]))'
  BY <1>2
<1>. QED BY <1>1, <1>3 DEF BulksOK

LEMMA EmptyEachAlone ==
    ASSUME NEW requests, Len(requests) \in Nat
    PROVE  EachAlone(<< >>, requests)
BY DEF EachAlone

LEMMA ScanningOK ==
    ASSUME NEW kind \in {"mark", "all"}, NEW methods \in Seq(Methods),
           kind = "mark" => Len(methods) = 1
    PROVE  Scanning(kind, methods) \in RunSet /\ RunOK(Scanning(kind, methods))
<1>. DEFINE r == Scanning(kind, methods)
<1>1. kind = "mark" => methods[1] \in Methods /\ methods = <<methods[1]>>
  OBVIOUS
<1>2. /\ r.kind = kind /\ r.phase = "scan" /\ r.left = methods /\ r.requests = << >>
      /\ r.collected = << >> /\ r.of = IF kind = "mark" THEN {methods[1]} ELSE {}
  BY DEF Scanning
<1>3. r \in RunSet
  BY <1>1 DEF Scanning, RunSet
<1>. HIDE DEF r
<1>4. kind = "mark" => OwnRun(r)
  BY <1>1, <1>2 DEF OwnRun
<1>5. EachAlone(r.collected, r.requests)
  BY <1>2, EmptyEachAlone
<1>6. RunOK(r)
  BY <1>2, <1>4, <1>5 DEF RunOK
<1>. QED BY <1>3, <1>6 DEF r

LEMMA SendingOK ==
    ASSUME NEW kind \in {"shown", "site"}, NEW phase \in {"check", "sent"},
           NEW requests \in Seq(Req)
    PROVE  Sending(kind, phase, requests) \in RunSet /\ RunOK(Sending(kind, phase, requests))
<1>. DEFINE r == Sending(kind, phase, requests)
<1>2. /\ r.kind = kind /\ r.phase = phase /\ r.left = << >> /\ r.requests = requests
      /\ r.collected = << >> /\ r.of = {}
  BY DEF Sending
<1>3. r \in RunSet
  BY DEF Sending, RunSet
<1>. HIDE DEF r
<1>4. RunOK(r)
  BY <1>2 DEF RunOK
<1>. QED BY <1>3, <1>4 DEF r

\* A batch is the next few requests of its run.
LEMMA NextBatchIs ==
    ASSUME BulksOK, NEW b \in Bulks, bulk[b].kind # "none"
    PROVE  /\ NextBatch(b) \in Seq(Req)
           /\ Sent(b) \in Nat /\ Sent(b) = Len(bulk[b].collected)
           /\ Sent(b) + Len(NextBatch(b)) <= Len(bulk[b].requests)
           /\ \A i \in 1..Len(NextBatch(b)) :
                 NextBatch(b)[i] = bulk[b].requests[Sent(b) + i]
<1>. DEFINE requests == bulk[b].requests
            size == IF Unsent(b) < BatchSize THEN Unsent(b) ELSE BatchSize
<1>1. /\ requests \in Seq(Req) /\ bulk[b].collected \in Seq(ValueSet)
      /\ Len(bulk[b].collected) <= Len(requests)
  BY RunIs DEF RunSet, RunOK
<1>2. /\ Sent(b) \in Nat /\ Sent(b) = Len(bulk[b].collected)
      /\ Unsent(b) = Len(requests) - Sent(b) /\ Unsent(b) \in Nat /\ Len(requests) \in Nat
  BY <1>1 DEF Sent, Unsent
<1>3. size \in Nat /\ size <= Unsent(b)
  <2>1. BatchSize \in Nat
    BY DeobfConstantsOK
  <2>2. Unsent(b) \in Nat
    BY <1>2
  <2>. QED BY <2>1, <2>2
<1>4. NextBatch(b) = SubSeq(requests, Sent(b) + 1, Sent(b) + size)
  BY DEF NextBatch
<1>. HIDE DEF size, requests
<1>5. /\ NextBatch(b) \in Seq(Req) /\ Len(NextBatch(b)) = size
      /\ \A i \in 1..size : NextBatch(b)[i] = requests[Sent(b) + i]
  BY <1>1, <1>2, <1>3, <1>4, SMTT(40)
<1>. QED BY <1>2, <1>3, <1>5 DEF requests

\* Merged answers show in a row what was computed for a site of that row.
LEMMA MergedRows ==
    ASSUME DeobfInv, NEW b \in Bulks, bulk[b].kind # "none",
           NEW answer \in BatchAnswers(NextBatch(b)), rows' = Merged(b, answer)
    PROVE  RowsOK'
<1>. DEFINE batch == NextBatch(b)
            hits(r) == {i \in DOMAIN answer : Row(Paired(b, i)) = r}
            hit == {Row(Paired(b, i)) : i \in DOMAIN answer}
            last(r) == CHOOSE i \in hits(r) : \A j \in hits(r) : j <= i
<1>1. /\ batch \in Seq(Req) /\ answer \in Seq(ValueSet)
      /\ Len(batch) \in Nat /\ DOMAIN batch = 1..Len(batch) /\ DOMAIN answer = DOMAIN batch
      /\ \A i \in DOMAIN batch : answer[i].args = batch[i].args /\ batch[i] \in Req
  <2>1. batch \in Seq(Req)
    BY NextBatchIs DEF DeobfInv
  <2>2. /\ answer \in Seq(ValueSet) /\ Len(answer) = Len(batch)
        /\ \A i \in DOMAIN batch : answer[i].args = batch[i].args
    BY <2>1, BatchAnswer
  <2>. QED BY <2>1, <2>2
<1>2. rows' = [r \in DOMAIN rows \cup hit |-> IF r \in hit THEN answer[last(r)] ELSE rows[r]]
  BY DEF Merged
<1>3. \A i \in DOMAIN batch : Paired(b, i) = batch[i]
  BY DEF Paired
<1>. HIDE DEF batch
<1>4. ASSUME NEW r \in hit
      PROVE  last(r) \in DOMAIN batch /\ Row(batch[last(r)]) = r
  <2>1. hits(r) # {} /\ hits(r) \in SUBSET (1..Len(batch))
    BY <1>1
  <2>2. \E i \in hits(r) : \A j \in hits(r) : j <= i
    BY <1>1, <2>1, GreatestExists
  <2>3. last(r) \in hits(r)
    BY <2>2
  <2>. HIDE DEF last
  <2>. QED BY <1>1, <1>3, <2>3
<1>. HIDE DEF last
<1>5. ASSUME NEW r \in hit
      PROVE  \E k \in DOMAIN SitesOf[r[1]] :
                r = Row(RequestsOf(r[1])[k]) /\ rows'[r].args = SitesOf[r[1]][k].args
  <2>. DEFINE q == batch[last(r)]
  <2>1. q \in Req /\ Row(q) = r /\ answer[last(r)].args = q.args
    BY <1>1, <1>4
  <2>2. rows'[r] = answer[last(r)]
    BY <1>2
  <2>. HIDE DEF q
  <2>3. r[1] = q.method
    BY <2>1 DEF Row
  <2>. QED BY <2>1, <2>2, <2>3, ReqHasSite
<1>6. ASSUME NEW r \in DOMAIN rows, r \notin hit
      PROVE  \E k \in DOMAIN SitesOf[r[1]] :
                r = Row(RequestsOf(r[1])[k]) /\ rows'[r].args = SitesOf[r[1]][k].args
  <2>1. rows'[r] = rows[r]
    BY <1>2, <1>6
  <2>. QED BY <2>1 DEF DeobfInv, RowsOK
<1>7. DOMAIN rows' = DOMAIN rows \cup hit
  BY <1>2
<1>. QED BY <1>5, <1>6, <1>7 DEF RowsOK

\* A method's own run collects, place by place, what each site gives alone.
LEMMA CollectOK ==
    ASSUME BulksOK, NEW b \in Bulks, bulk[b].kind # "none", bulk[b].phase = "sent",
           NEW answer \in BatchAnswers(NextBatch(b)),
           bulk' = [bulk EXCEPT ![b].collected = @ \o answer, ![b].phase = "check"]
    PROVE  BulksOK'
<1>. DEFINE r == bulk[b]
            s == [r EXCEPT !.collected = @ \o answer, !.phase = "check"]
            batch == NextBatch(b)
<1>1. r \in RunSet /\ RunOK(r)
  BY RunIs
<1>2. /\ r.requests \in Seq(Req) /\ r.collected \in Seq(ValueSet)
      /\ Len(r.collected) <= Len(r.requests)
      /\ r.kind \in {"mark", "all", "shown", "site"}
  BY <1>1 DEF RunSet, RunOK
<1>3. /\ batch \in Seq(Req) /\ Sent(b) = Len(r.collected)
      /\ Sent(b) + Len(batch) <= Len(r.requests)
      /\ \A i \in 1..Len(batch) : batch[i] = r.requests[Sent(b) + i]
  BY NextBatchIs
<1>4. /\ answer \in Seq(ValueSet) /\ Len(answer) = Len(batch)
      /\ \A i \in DOMAIN batch : \A m \in Methods \ Remembering :
            (\A k \in DOMAIN batch : batch[k].method = m)
            => answer[i] = Alone(batch[i])
  BY <1>3, BatchAnswer
<1>. HIDE DEF batch
<1>5. r.collected \o answer \in Seq(ValueSet)
  BY <1>2, <1>4
<1>6. /\ s \in RunSet /\ s.kind = r.kind /\ s.phase = "check" /\ s.left = r.left
      /\ s.requests = r.requests /\ s.collected = r.collected \o answer /\ s.of = r.of
  BY <1>1, <1>5 DEF RunSet
<1>7. bulk' = [bulk EXCEPT ![b] = s]
  BY DEF BulksOK
<1>. HIDE DEF s, r
<1>. DEFINE n == Len(r.collected)
<1>8. /\ n \in Nat /\ Len(batch) \in Nat /\ DOMAIN batch = 1..Len(batch)
      /\ DOMAIN s.collected = 1..(n + Len(batch)) /\ Len(s.collected) = n + Len(batch)
      /\ Len(s.collected) <= Len(s.requests)
      /\ \A i \in 1..n : s.collected[i] = r.collected[i]
      /\ \A i \in (n + 1)..(n + Len(batch)) : s.collected[i] = answer[i - n]
      /\ \A i \in (n + 1)..(n + Len(batch)) :
            i - n \in 1..Len(batch) /\ batch[i - n] = r.requests[i]
  <2>1. n \in Nat /\ Len(batch) \in Nat /\ DOMAIN batch = 1..Len(batch)
    BY <1>2, <1>3
  <2>2. /\ Len(s.collected) = n + Len(batch) /\ DOMAIN s.collected = 1..(n + Len(batch))
        /\ \A i \in 1..n : s.collected[i] = r.collected[i]
        /\ \A i \in (n + 1)..(n + Len(batch)) : s.collected[i] = answer[i - n]
    <3>. DEFINE c == r.collected \o answer
    <3>0. r.collected \in Seq(ValueSet) /\ answer \in Seq(ValueSet) /\ Len(answer) = Len(batch)
      BY <1>2, <1>4
    <3>1. c \in Seq(ValueSet) /\ Len(c) = n + Len(batch)
      <4>1. c \in Seq(ValueSet) /\ Len(c) = Len(r.collected) + Len(answer)
        BY <3>0, ConcatProperties, Zenon
      <4>. QED BY <3>0, <4>1
    <3>2. \A i \in 1..(n + Len(batch)) :
             c[i] = IF i <= n THEN r.collected[i] ELSE answer[i - n]
      BY <3>0
    <3>3. s.collected = c
      BY <1>6
    <3>. HIDE DEF c, n
    <3>. QED BY <2>1, <3>1, <3>2, <3>3
  <2>3. \A i \in (n + 1)..(n + Len(batch)) :
            i - n \in 1..Len(batch) /\ n + (i - n) = i
    BY <2>1, SMTT(40)
  <2>. QED BY <1>3, <1>6, <2>1, <2>2, <2>3, ZenonT(60)
<1>9. ASSUME s.kind = "mark" PROVE OwnRun(s) /\ EachAlone(s.collected, s.requests)
  <2>1. OwnRun(r) /\ EachAlone(r.collected, r.requests)
    BY <1>1, <1>6, <1>9 DEF RunOK
  <2>2. OwnRun(s)
    BY <1>6, <2>1 DEF OwnRun
  <2>3. PICK m \in Methods : r.requests \in {<< >>, RequestsOf(m)}
    BY <2>1 DEF OwnRun
  <2>4. \A i \in DOMAIN r.requests : r.requests[i].method = m
    BY <2>3, RequestsOfType
  <2>5. ASSUME NEW i \in DOMAIN s.collected, s.requests[i].method \notin Remembering
        PROVE  s.collected[i] = Alone(s.requests[i])
    <3>1. CASE i \in 1..n
      BY <1>2, <1>6, <1>8, <2>1, <2>5, <3>1, SMTT(40) DEF EachAlone
    <3>2. CASE i \in (n + 1)..(n + Len(batch))
      <4>. DEFINE j == i - n
      <4>1. j \in 1..Len(batch) /\ s.collected[i] = answer[j] /\ batch[j] = r.requests[i]
        BY <1>8, <3>2, SMTT(40)
      <4>2. \A k \in DOMAIN batch : batch[k].method = m
        BY <1>2, <1>3, <1>8, <2>4, SMTT(40)
      <4>3. m \notin Remembering
        BY <1>6, <1>8, <2>5, <4>1, <4>2, SMTT(40)
      <4>. HIDE DEF j
      <4>. QED BY <1>4, <1>6, <1>8, <4>1, <4>2, <4>3
    <3>. QED BY <1>8, <3>1, <3>2
  <2>. QED BY <1>8, <2>2, <2>5 DEF EachAlone
<1>10. RunOK(s)
  BY <1>1, <1>6, <1>8, <1>9, SMTT(40) DEF RunOK
<1>. QED BY <1>6, <1>7, <1>10, BulkSet

\* The scan of a method's sites comes before any answer.
LEMMA ScanOK ==
    ASSUME BulksOK, NEW b \in Bulks, Scan(b)
    PROVE  BulksOK'
<1>. DEFINE r == bulk[b]
<1>1. /\ r \in RunSet /\ RunOK(r) /\ r.kind \in {"mark", "all"} /\ r.phase = "scan"
      /\ r.collected = << >>
  BY RunIs DEF Scan, RunOK
<1>2. /\ r.left \in Seq(Methods) /\ r.requests \in Seq(Req)
  BY <1>1 DEF RunSet
<1>3. CASE bulk' = [bulk EXCEPT ![b].phase = "check"]
  <2>. DEFINE s == [r EXCEPT !.phase = "check"]
  <2>1. /\ s \in RunSet /\ s.kind = r.kind /\ s.phase = "check" /\ s.left = r.left
        /\ s.requests = r.requests /\ s.collected = r.collected /\ s.of = r.of
    BY <1>1 DEF RunSet
  <2>2. bulk' = [bulk EXCEPT ![b] = s]
    BY <1>3 DEF BulksOK
  <2>. HIDE DEF s, r
  <2>3. RunOK(s)
    BY <1>1, <2>1 DEF RunOK, OwnRun
  <2>. QED BY <2>1, <2>2, <2>3, BulkSet
<1>4. ASSUME NEW known, r.left # << >>,
             bulk' = [bulk EXCEPT
                ![b].left = Tail(@),
                ![b].requests = IF Head(r.left) \in known THEN @ \o RequestsOf(Head(r.left)) ELSE @]
      PROVE  BulksOK'
  <2>. DEFINE m == Head(r.left)
              requests == IF m \in known THEN r.requests \o RequestsOf(m) ELSE r.requests
              s == [r EXCEPT !.left = Tail(@), !.requests = requests]
  <2>1. m \in Methods /\ Tail(r.left) \in Seq(Methods)
    BY <1>2, <1>4
  <2>2. requests \in Seq(Req)
    <3>1. RequestsOf(m) \in Seq(Req)
      BY <2>1, RequestsOfType
    <3>. HIDE DEF m
    <3>. QED BY <1>2, <3>1
  <2>3. /\ s \in RunSet /\ s.kind = r.kind /\ s.phase = r.phase /\ s.left = Tail(r.left)
        /\ s.requests = requests /\ s.collected = r.collected /\ s.of = r.of
    <3>. HIDE DEF requests
    <3>. QED BY <1>1, <2>1, <2>2 DEF RunSet
  <2>4. bulk' = [bulk EXCEPT ![b] = s]
    BY <1>4 DEF BulksOK
  <2>5. ASSUME r.kind = "mark" PROVE OwnRun(s)
    <3>1. PICK o \in Methods : r.of = {o} /\ r.left = <<o>> /\ r.requests = << >>
      BY <1>1, <1>4, <2>5 DEF RunOK, OwnRun
    <3>2. m = o /\ Tail(r.left) = << >>
      BY <3>1
    <3>3. requests \in {<< >>, RequestsOf(o)}
      <4>1. RequestsOf(o) \in Seq(Req)
        BY RequestsOfType
      <4>2. << >> \o RequestsOf(o) = RequestsOf(o)
        BY <4>1, ConcatEmptySeq
      <4>. QED BY <3>1, <3>2, <4>2
    <3>. HIDE DEF s, r, requests, m
    <3>. QED BY <2>3, <3>1, <3>2, <3>3 DEF OwnRun
  <2>. HIDE DEF s, r, requests, m
  <2>6. RunOK(s)
    <3>1. Len(requests) \in Nat /\ Len(s.collected) = 0
      BY <1>1, <2>2, <2>3
    <3>2. EachAlone(s.collected, s.requests)
      BY <1>1, <2>3, <3>1, EmptyEachAlone
    <3>. QED BY <1>1, <2>3, <2>5, <3>1, <3>2 DEF RunOK
  <2>. QED BY <2>3, <2>4, <2>6, BulkSet
<1>. QED BY <1>3, <1>4 DEF Scan

\* find_exec answers every site for itself, however it deals them out.
LEMMA FindExecOK ==
    ASSUME NEW m \in Methods, NEW n \in Threads, FindExec(m, n)
    PROVE  FoundOK'
<1>. DEFINE sites == RequestsOf(m)
            values == ExecCallsParallel(sites, n)
<1>1. /\ sites \in Seq(Req) /\ Len(sites) = Len(SitesOf[m]) /\ Len(sites) \in Nat
      /\ DOMAIN sites = 1..Len(sites)
      /\ \A i \in 1..Len(sites) : sites[i] \in Req /\ sites[i].method = m
  BY RequestsOfType
<1>. HIDE DEF sites
<1>2. ASSUME NEW i \in 1..Len(sites)
      PROVE  /\ values[i] \in ValueSet
             /\ m \notin Remembering => values[i] = Alone(sites[i])
  <2>. DEFINE chunk == Chunk(sites, n, i)
              j == FirstLike(sites, chunk, i)
              used == \E k \in chunk : k < j
  <2>1. chunk \in SUBSET (1..Len(sites)) /\ i \in chunk
    BY <1>1 DEF Chunk
  <2>2. values[i] = Value(sites[j], used)
    BY <1>1 DEF ExecCallsParallel, ExecCall
  <2>3. j \in 1..Len(sites) /\ sites[j].args = sites[i].args
    <3>1. chunk \in SUBSET Nat
      BY <2>1
    <3>. HIDE DEF chunk
    <3>. QED BY <2>1, <3>1, FirstLikeFacts
  <2>. HIDE DEF chunk, j, values
  <2>4. sites[j] \in Req /\ sites[j].method = m /\ sites[i].method = m
    BY <1>1, <2>3
  <2>5. used \in BOOLEAN
    OBVIOUS
  <2>. HIDE DEF used
  <2>6. values[i] \in ValueSet /\ (m \notin Remembering => values[i] = Alone(sites[j]))
    BY <2>2, <2>4, <2>5, ValueFacts
  <2>7. Alone(sites[j]) = Alone(sites[i])
    BY <2>3, <2>4 DEF Alone, Value
  <2>. QED BY <2>6, <2>7
<1>3. values \in [1..Len(sites) -> ValueSet]
  BY <1>1, <1>2 DEF ExecCallsParallel
<1>4. values \in Seq(ValueSet) /\ Len(values) = Len(sites) /\ DOMAIN values = 1..Len(sites)
  BY <1>1, <1>3, ListIsSeq
<1>5. found'.method = m /\ found'.values = values
  BY DEF FindExec, sites
<1>. HIDE DEF values
<1>6. EachAlone(values, sites)
  BY <1>1, <1>2, <1>4 DEF EachAlone
<1>. QED BY <1>1, <1>4, <1>5, <1>6 DEF FoundOK, sites

-----------------------------------------------------------------------------
\* The invariant, step by step.

LEMMA InOrderType ==
    ASSUME NEW S \in SUBSET Methods, NEW s \in InOrder(S)
    PROVE  s \in Seq(Methods)
<1>1. IsFiniteSet(S)
  BY FS_Subset, DeobfConstantsOK
<1>2. Cardinality(S) \in Nat
  BY <1>1, FS_CardinalityType
<1>3. s \in [1..Cardinality(S) -> Methods]
  BY DEF InOrder
<1>. QED BY <1>2, <1>3, ListIsSeq

\* What of the invariant a step does not touch stays.
LEMMA RowsStay == RowsOK /\ rows' = rows => RowsOK'
BY DEF RowsOK

LEMMA ReportsStay == ReportsOK /\ reports' = reports => ReportsOK'
BY DEF ReportsOK

LEMMA FoundStays == FoundOK /\ found' = found => FoundOK'
BY DEF FoundOK

LEMMA BulksStay == BulksOK /\ bulk' = bulk => BulksOK'
BY DEF BulksOK

LEMMA BeginInv ==
    ASSUME DeobfInv, NEW b \in Bulks, NEW r \in RunSet, RunOK(r), Begin(b, r)
    PROVE  DeobfInv'
BY BulkSet, RowsStay, ReportsStay, FoundStays DEF Begin, DeobfInv

LEMMA OverBulks ==
    ASSUME BulksOK, NEW b \in Bulks, Over(b)
    PROVE  BulksOK' /\ marked' = marked /\ found' = found
BY BulkSet DEF Over

LEMMA StartInv ==
    ASSUME DeobfInv, NEW b \in Bulks,
           \/ \E m \in Methods :
                 \/ RunForMark(b, m)
                 \/ \E i \in DOMAIN SitesOf[m] : RunSite(b, m, i)
           \/ RunAll(b) \/ RunShown(b)
    PROVE  DeobfInv'
<1>1. ASSUME NEW m \in Methods, RunForMark(b, m) PROVE DeobfInv'
  <2>1. <<m>> \in Seq(Methods) /\ Len(<<m>>) = 1
    OBVIOUS
  <2>2. Scanning("mark", <<m>>) \in RunSet /\ RunOK(Scanning("mark", <<m>>))
    BY <2>1, ScanningOK
  <2>. QED BY <1>1, <2>2, BeginInv DEF RunForMark
<1>2. ASSUME NEW m \in Methods, NEW i \in DOMAIN SitesOf[m], RunSite(b, m, i) PROVE DeobfInv'
  <2>1. <<RequestsOf(m)[i]>> \in Seq(Req)
    BY DEF Req
  <2>2. /\ Sending("site", "sent", <<RequestsOf(m)[i]>>) \in RunSet
        /\ RunOK(Sending("site", "sent", <<RequestsOf(m)[i]>>))
    BY <2>1, SendingOK
  <2>. QED BY <1>2, <2>2, BeginInv DEF RunSite
<1>3. CASE RunAll(b)
  <2>1. PICK methods \in InOrder(marked) : Begin(b, Scanning("all", methods))
    BY <1>3 DEF RunAll
  <2>2. methods \in Seq(Methods)
    BY InOrderType DEF DeobfInv
  <2>3. Scanning("all", methods) \in RunSet /\ RunOK(Scanning("all", methods))
    BY <2>2, ScanningOK
  <2>. QED BY <2>1, <2>3, BeginInv
<1>4. CASE RunShown(b)
  <2>. DEFINE listed(methods) ==
                 CASE Len(methods) = 0 -> << >>
                   [] Len(methods) = 1 -> RequestsOf(methods[1])
                   [] OTHER -> RequestsOf(methods[1]) \o RequestsOf(methods[2])
              sub(methods, first) == SubSeq(listed(methods), first, Len(listed(methods)))
  <2>1. PICK methods \in InOrder(scanned \cap marked) :
           \E first \in 1..2 :
              /\ Len(listed(methods)) >= first
              /\ Begin(b, Sending("shown", "check", sub(methods, first)))
    BY <1>4 DEF RunShown
  <2>2. PICK first \in 1..2 :
           /\ Len(listed(methods)) >= first
           /\ Begin(b, Sending("shown", "check", sub(methods, first)))
    BY <2>1
  <2>3. methods \in Seq(Methods)
    BY InOrderType DEF DeobfInv
  <2>4. listed(methods) \in Seq(Req)
    <3>1. Len(methods) \in Nat /\ \A k \in 1..Len(methods) : methods[k] \in Methods
      BY <2>3
    <3>2. CASE Len(methods) = 0
      BY <3>2
    <3>3. CASE Len(methods) = 1
      <4>1. RequestsOf(methods[1]) \in Seq(Req)
        BY <3>1, <3>3, RequestsOfType
      <4>. QED BY <3>3, <4>1
    <3>4. CASE Len(methods) > 1
      <4>1. RequestsOf(methods[1]) \in Seq(Req) /\ RequestsOf(methods[2]) \in Seq(Req)
        BY <3>1, <3>4, RequestsOfType
      <4>2. RequestsOf(methods[1]) \o RequestsOf(methods[2]) \in Seq(Req)
        BY <4>1
      <4>. QED BY <3>1, <3>4, <4>2
    <3>5. Len(methods) = 0 \/ Len(methods) = 1 \/ Len(methods) > 1
      BY <3>1, SMTT(40)
    <3>. QED BY <3>2, <3>3, <3>4, <3>5
  <2>. HIDE DEF listed
  <2>5. sub(methods, first) \in Seq(Req)
    BY <2>2, <2>4
  <2>6. /\ Sending("shown", "check", sub(methods, first)) \in RunSet
        /\ RunOK(Sending("shown", "check", sub(methods, first)))
    BY <2>5, SendingOK
  <2>. HIDE DEF sub
  <2>. QED BY <2>2, <2>6, BeginInv
<1>. QED BY <1>1, <1>2, <1>3, <1>4

LEMMA RunInv ==
    ASSUME DeobfInv, NEW b \in Bulks, DeobfStep(b)
    PROVE  DeobfInv'
<1>. USE DEF DeobfInv
<1>1. CASE Scan(b)
  BY <1>1, ScanOK, RowsStay, ReportsStay, FoundStays, ZenonT(60) DEF Scan
<1>2. CASE SendBatch(b)
  <2>. DEFINE r == bulk[b]
              s == [r EXCEPT !.phase = "sent"]
  <2>1. r \in RunSet /\ RunOK(r) /\ r.phase = "check"
    BY <1>2, RunIs DEF SendBatch
  <2>2. /\ s \in RunSet /\ s.kind = r.kind /\ s.phase = "sent" /\ s.left = r.left
        /\ s.requests = r.requests /\ s.collected = r.collected /\ s.of = r.of
    BY <2>1 DEF RunSet
  <2>3. bulk' = [bulk EXCEPT ![b] = s]
    BY <1>2 DEF SendBatch, BulksOK
  <2>. HIDE DEF s, r
  <2>4. RunOK(s)
    BY <2>1, <2>2 DEF RunOK, OwnRun
  <2>5. BulksOK'
    BY <2>2, <2>3, <2>4, BulkSet
  <2>. QED BY <1>2, <2>5, RowsStay, ReportsStay, FoundStays DEF SendBatch
<1>3. CASE BatchAnswered(b)
  <2>1. bulk[b].kind # "none" /\ bulk[b].phase = "sent"
    BY <1>3 DEF BatchAnswered
  <2>2. PICK answer \in BatchAnswers(NextBatch(b)) :
           /\ rows' = Merged(b, answer)
           /\ bulk' = [bulk EXCEPT ![b].collected = @ \o answer, ![b].phase = "check"]
    BY <1>3 DEF BatchAnswered
  <2>3. BulksOK' /\ RowsOK'
    BY <2>1, <2>2, CollectOK, MergedRows
  <2>. QED BY <1>3, <2>3, ReportsStay, FoundStays DEF BatchAnswered
<1>4. CASE SiteAnswered(b)
  <2>1. bulk[b].kind # "none" /\ Over(b)
    BY <1>4 DEF SiteAnswered
  <2>2. RowsOK'
    BY <1>4, <2>1, MergedRows DEF SiteAnswered
  <2>. QED BY <1>4, <2>1, <2>2, OverBulks, ReportsStay, FoundStays DEF SiteAnswered
<1>5. CASE BatchFails(b)
  BY <1>5, OverBulks, RowsStay, ReportsStay, FoundStays DEF BatchFails
<1>6. CASE RunEnds(b)
  <2>. DEFINE r == bulk[b]
              named == IF r.requests = << >> THEN {} ELSE r.of
  <2>1. r \in RunSet /\ RunOK(r) /\ Over(b) /\ UNCHANGED rows
    BY <1>6, RunIs DEF RunEnds
  <2>2. reports' = [m \in DOMAIN reports \cup named |->
                       IF m \in named THEN r.collected ELSE reports[m]]
    BY <1>6 DEF RunEnds
  <2>3. ASSUME NEW m \in named PROVE EachAlone(r.collected, RequestsOf(m))
    <3>1. r.kind = "mark" /\ r.requests # << >> /\ m \in r.of
      BY <2>1, <2>3 DEF RunOK
    <3>2. r.requests = RequestsOf(m) /\ EachAlone(r.collected, r.requests)
      BY <2>1, <3>1 DEF RunOK, OwnRun
    <3>. QED BY <3>2
  <2>. HIDE DEF named, r
  <2>4. ReportsOK'
    BY <2>2, <2>3 DEF ReportsOK
  <2>. QED BY <2>1, <2>4, OverBulks, RowsStay, FoundStays
<1>. QED BY <1>1, <1>2, <1>3, <1>4, <1>5, <1>6 DEF DeobfStep

LEMMA TabInv ==
    ASSUME DeobfInv, NEW m \in Methods,
           MarkDeobf(m) \/ UnmarkDeobf(m) \/ OpenMark(m)
    PROVE  DeobfInv'
<1>. USE DEF DeobfInv
<1>1. CASE MarkDeobf(m) \/ OpenMark(m)
  BY <1>1, BulksStay, RowsStay, ReportsStay, FoundStays DEF MarkDeobf, OpenMark
<1>2. CASE UnmarkDeobf(m)
  <2>1. /\ marked' = marked \ {m} /\ bulk' = bulk /\ found' = found
        /\ rows' = [r \in {r \in DOMAIN rows : r[1] # m} |-> rows[r]]
        /\ reports' = [n \in DOMAIN reports \ {m} |-> reports[n]]
    BY <1>2 DEF UnmarkDeobf
  <2>2. RowsOK'
    BY <2>1 DEF RowsOK
  <2>3. ReportsOK'
    BY <2>1 DEF ReportsOK
  <2>. QED BY <2>1, <2>2, <2>3, BulksStay, FoundStays
<1>. QED BY <1>1, <1>2

LEMMA DeobfInitInv == DeobfInit => DeobfInv
<1>. SUFFICES ASSUME DeobfInit PROVE DeobfInv
  OBVIOUS
<1>1. /\ marked = Methods /\ DOMAIN rows = {} /\ DOMAIN reports = {} /\ DOMAIN found = {}
      /\ bulk = [b \in Bulks |-> NotRunning]
  BY DEF DeobfInit, Empty
<1>. QED BY <1>1 DEF DeobfInv, BulksOK, RowsOK, ReportsOK, FoundOK

LEMMA DeobfStepInv == DeobfInv /\ [DeobfNext]_deobfVars => DeobfInv'
<1>. SUFFICES ASSUME DeobfInv, [DeobfNext]_deobfVars PROVE DeobfInv'
  OBVIOUS
<1>1. ASSUME NEW m \in Methods, MarkDeobf(m) \/ UnmarkDeobf(m) \/ OpenMark(m)
      PROVE  DeobfInv'
  BY <1>1, TabInv
<1>2. ASSUME NEW m \in Methods, NEW n \in Threads, FindExec(m, n) PROVE DeobfInv'
  <2>1. UNCHANGED <<marked, rows, reports, bulk>>
    BY <1>2 DEF FindExec
  <2>. QED BY <1>2, <2>1, FindExecOK, BulksStay, RowsStay, ReportsStay DEF DeobfInv
<1>3. CASE StopDeobf
  BY <1>3, BulksStay, RowsStay, ReportsStay, FoundStays DEF StopDeobf, DeobfInv
<1>4. ASSUME NEW b \in Bulks,
             \/ \E m \in Methods :
                   \/ RunForMark(b, m)
                   \/ \E i \in DOMAIN SitesOf[m] : RunSite(b, m, i)
             \/ RunAll(b) \/ RunShown(b)
      PROVE  DeobfInv'
  BY <1>4, StartInv
<1>5. ASSUME NEW b \in Bulks, DeobfStep(b) PROVE DeobfInv'
  BY <1>5, RunInv
<1>6. CASE UNCHANGED deobfVars
  BY <1>6, BulksStay, RowsStay, ReportsStay, FoundStays DEF deobfVars, DeobfInv
<1>. QED BY <1>1, <1>2, <1>3, <1>4, <1>5, <1>6 DEF DeobfNext

\* The inductive invariant of the tab holds of every run of it.
THEOREM DeobfInvAlways == DeobfSpec => []DeobfInv
<1>1. DeobfInit => DeobfInv
  BY DeobfInitInv
<1>2. DeobfInv /\ [DeobfNext]_deobfVars => DeobfInv'
  BY DeobfStepInv
<1>. QED BY <1>1, <1>2, PTL DEF DeobfSpec

\* Every method's own run reports, site by site, what each site gives alone on
\* a new machine, and every row what was computed for a site of that row,
\* however many sites, runs, threads and batches there are.
THEOREM RunsReportOwnResults == DeobfSpec => []OwnResults
<1>1. DeobfInv => OwnResults
  <2>. SUFFICES ASSUME DeobfInv PROVE OwnResults
    OBVIOUS
  <2>1. ASSUME NEW b \in Bulks, bulk[b].kind = "mark"
        PROVE  EachAlone(bulk[b].collected, bulk[b].requests)
    BY <2>1, RunIs DEF DeobfInv, RunOK
  <2>. QED BY <2>1 DEF DeobfInv, RowsOK, ReportsOK, FoundOK, OwnResults
<1>. QED BY <1>1, DeobfInvAlways, PTL
============================================================================
