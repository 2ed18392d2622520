-------------------------------- MODULE Graph --------------------------------
(***************************************************************************)
(* The dependency graph and the one walk over it.                          *)
(*                                                                         *)
(* `DependencyGraph::from_resolved` (crates/dependable-core/src/graph.rs)  *)
(* turns a lockfile's packages into nodes and edges, `inverted` turns the  *)
(* edges round, and `Walker::visit` walks the forest depth first.  The     *)
(* walk serves `dependable tree` (collapsing repeats, to a depth) and the  *)
(* browser's rows (crates/dependable-tui/src/rows.rs), which opens the     *)
(* paths the user opened and those that lead to a match of the search box. *)
(*                                                                         *)
(* The walk's recursion is the stack of frames here: the bottom frame      *)
(* holds the roots, every other one a node whose dependencies are being    *)
(* visited.  `drawn` is what the visitor was handed.                       *)
(***************************************************************************)
EXTENDS Naturals, Sequences, FiniteSets

CONSTANTS
    Inputs,        \* the lockfiles and options to draw; see InputOK
    MaxWalkDepth,  \* MAX_WALK_DEPTH
    MaxSearch,     \* MAX_SEARCH_DEPTH
    None

VARIABLES
    pc,         \* "build", "walk", "done"; module Workspace adds its own
    input,      \* the lockfile and the options
    graph,      \* edges: node -> its dependencies; roots: nodes
    stack,      \* frames: node, its dependencies, how many were taken
    expanded,   \* nodes expanded anywhere, while repeats are collapsed
    drawn,      \* appearances handed to the visitor, in order
    truncated   \* WalkStats::truncated

graphVars == <<pc, input, graph, stack, expanded, drawn, truncated>>

Elements(s) == {s[i] : i \in DOMAIN s}

(* The elements of `S` among 1 .. n, in ascending order.                   *)
InOrder(n, S) ==
    LET f[i \in 0 .. n] == IF i = 0 THEN <<>>
                           ELSE IF i \in S THEN Append(f[i - 1], i) ELSE f[i - 1]
    IN  f[n]

(* `s` with the later copies of its elements left out.                     *)
FirstOnly(s) ==
    LET firsts == InOrder(Len(s), {i \in DOMAIN s :
                                     \A j \in 1 .. i - 1 : s[j] # s[i]})
    IN  [k \in DOMAIN firsts |-> s[firsts[k]]]

(* The elements of the sequence of sequences `ss`, in order.               *)
Joined(ss) ==
    LET f[i \in 0 .. Len(ss)] == IF i = 0 THEN <<>> ELSE f[i - 1] \o ss[i]
    IN  f[Len(ss)]

(* The indices of `s` whose elements pass `test`, in order.                *)
Where(s, test(_)) == InOrder(Len(s), {i \in DOMAIN s : test(s[i])})

(* An input: packages in file order; which others each depends on; the     *)
(* workspace's crate names; the crates to draw; and the walk's options.    *)
(* `opened` is None (expand everything) or the paths a user opened, and    *)
(* `query` is None or the names the search box matches.  `tree` collapses  *)
(* repeats and roots together or not at all (runner.rs); the browser, which*)
(* alone searches, has no depth and never collapses a repeat (rows.rs).    *)
InputOK(in) ==
    /\ in.packages \in Seq(Elements(in.packages))
    /\ \A i \in DOMAIN in.packages :
          in.packages[i].source \in {None, "registry", "git"}
    /\ in.depends \in Seq(Seq(DOMAIN in.packages))
    /\ Len(in.depends) = Len(in.packages)
    /\ in.roots \in Seq(Elements(in.roots))
    /\ in.depth \in Nat \cup {None}
    /\ {in.invert, in.dedupe, in.collapse} \subseteq BOOLEAN
    /\ in.dedupe => in.collapse
    /\ in.query # None => ~in.dedupe /\ in.depth = None
    /\ in.visits \in Nat

ASSUME GraphAssumption ==
    /\ {MaxWalkDepth, MaxSearch} \subseteq Nat
    /\ None \notin Nat
    /\ \A in \in Inputs : InputOK(in)

-----------------------------------------------------------------------------
(***************************************************************************)
(* Building the graph.                                                     *)
(***************************************************************************)
Candidates(packages, name) ==
    Where(packages, LAMBDA p : p.name = name)

(* How Cargo writes a dependency on package `i`: the shortest form that no *)
(* other package of the lockfile shares.  A third form adds the source; it *)
(* is read as the second, since `resolve` drops what follows the version,  *)
(* and two packages of one name and version are not told apart: the        *)
(* instances and the theorems have none (LockedOnce).                      *)
Reference(packages, i) ==
    [name |-> packages[i].name,
     version |-> IF Len(Candidates(packages, packages[i].name)) = 1
                 THEN None ELSE packages[i].version]

(* Mutant: a reference is resolved by its name alone.                      *)
ResolveByName(packages, ref) ==
    LET found == Candidates(packages, ref.name)
    IN  IF found = <<>> THEN <<>> ELSE <<found[1]>>

(* The package a reference names: the first of its name, or the first of   *)
(* its name and version.  A sequence of one index, or of none.             *)
Resolve(packages, ref) ==
    LET found == Where(packages, LAMBDA p :
                    /\ p.name = ref.name
                    /\ ref.version \in {None, p.version})
    IN  IF found = <<>> THEN <<>> ELSE <<found[1]>>

Kind(package, members) ==
    CASE package.source = None /\ package.name \in members -> "Workspace"
      [] package.source = None /\ package.name \notin members -> "Path"
      [] package.source = "git"      -> "Git"
      [] package.source = "registry" -> "Registry"

IsMember(package, members) == Kind(package, members) = "Workspace"

(* The nodes a root's name means: the members of that name, or else every  *)
(* package of that name.                                                   *)
RootsOf(packages, members, name) ==
    LET local == Where(packages, LAMBDA p :
                          p.name = name /\ IsMember(p, members))
    IN  IF local = <<>> THEN Candidates(packages, name) ELSE local

FromResolved(in) ==
    LET p     == in.packages
        named == Joined([r \in DOMAIN in.roots |->
                            RootsOf(p, in.members, in.roots[r])])
    IN  [edges |-> [i \in DOMAIN p |->
                       FirstOnly(Joined([d \in DOMAIN in.depends[i] |->
                           Resolve(p, Reference(p, in.depends[i][d]))]))],
         roots |-> IF named # <<>> THEN named
                   ELSE Where(p, LAMBDA q : IsMember(q, in.members))]

Inverted(g) ==
    [g EXCEPT !.edges = [to \in DOMAIN g.edges |->
        Where(g.edges, LAMBDA deps : to \in Elements(deps))]]

(* The graph drawn of an input.                                            *)
GraphOf(in) ==
    IF in.invert THEN Inverted(FromResolved(in)) ELSE FromResolved(in)

-----------------------------------------------------------------------------
(***************************************************************************)
(* The search behind the browser's filter.                                 *)
(***************************************************************************)
RootSlots(g, node) == {r \in DOMAIN g.roots : g.roots[r] = node}

(* The nodes along a path of slots from the roots, and what comes after.   *)
NodesOn(g, path) ==
    LET f[i \in 0 .. Len(path)] ==
          IF i = 0 THEN <<>>
          ELSE IF i = 1 THEN <<g.roots[path[1]]>>
          ELSE LET above == f[i - 1]
               IN  Append(above, g.edges[above[i - 1]][path[i]])
    IN  f[Len(path)]

(* Mutant: the search goes on below a pointer to another tree.             *)
BelowThroughPointers(g, path) ==
    LET nodes == NodesOn(g, path)
        node  == nodes[Len(path)]
    IN  IF \E i \in 1 .. Len(path) - 1 : nodes[i] = node
        THEN <<>> ELSE g.edges[node]

(* The children the search visits below a path: none at a cycle, and none  *)
(* below a crate that has a tree of its own.                               *)
Below(g, path) ==
    LET nodes == NodesOn(g, path)
        node  == nodes[Len(path)]
    IN  IF \/ \E i \in 1 .. Len(path) - 1 : nodes[i] = node
           \/ Len(path) > 1 /\ RootSlots(g, node) # {}
        THEN <<>> ELSE g.edges[node]

(* Every path the search visits.                                           *)
Searched(g) ==
    LET level[n \in 1 .. MaxSearch] ==
          IF n = 1 THEN {<<r>> : r \in DOMAIN g.roots}
          ELSE UNION {{Append(path, s) : s \in DOMAIN Below(g, path)} :
                          path \in level[n - 1]}
    IN  UNION {level[n] : n \in 1 .. MaxSearch}

(* The paths whose package the search box matches.                         *)
Found(in, g) ==
    IF in.query = None THEN {}
    ELSE {path \in Searched(g) :
             LET nodes == NodesOn(g, path) IN
             in.packages[nodes[Len(path)]].name \in in.query}

IsPrefixOf(p, q) == Len(p) <= Len(q) /\ SubSeq(q, 1, Len(p)) = p

(* WalkOptions::include and WalkOptions::expand, as the browser sets them. *)
Kept(path) ==
    input.query # None => \E m \in graph.found : IsPrefixOf(path, m)

Opened(path) ==
    \/ input.opened = None
    \/ path \in input.opened
    \/ \E m \in graph.found : path # m /\ IsPrefixOf(path, m)

-----------------------------------------------------------------------------
(***************************************************************************)
(* The walk.                                                               *)
(***************************************************************************)
Frame(node, children) == [node |-> node, children |-> children, taken |-> 0]

(* Build the graph and start a walk at its roots.                          *)
Build ==
    /\ pc = "build"
    /\ pc' = "walk"
    /\ LET g == GraphOf(input)
       IN  /\ graph' = [edges |-> g.edges, roots |-> g.roots,
                        found |-> Found(input, g)]
           /\ stack' = <<Frame(0, g.roots)>>
    /\ UNCHANGED <<input, expanded, drawn, truncated>>

Top   == stack[Len(stack)]
Depth == Len(stack) - 1

(* The next child of the top frame, and the path of slots to it.           *)
Child == Top.children[Top.taken + 1]
Path  == [i \in DOMAIN stack |->
             IF i = Len(stack) THEN stack[i].taken + 1 ELSE stack[i].taken]

(* Mutant: the nodes above are not remembered.                             *)
OnPathForgotten == {}

OnPath == {stack[i].node : i \in 2 .. Len(stack)}

(* Why this appearance of `node` does or does not show its dependencies;   *)
(* the first reason that applies.                                          *)
Placement(node, path) ==
    IF node \in OnPath THEN "Cycle"
    ELSE IF /\ input.collapse
            /\ Depth > 0
            /\ graph.edges[node] # <<>>
            /\ RootSlots(graph, node) # {}
    THEN "Root"
    ELSE IF input.dedupe /\ node \in expanded THEN "Repeat"
    ELSE IF input.depth # None /\ Depth >= input.depth THEN "Depth"
    ELSE IF graph.edges[node] # <<>> /\ ~Opened(path) THEN "Collapsed"
    ELSE "Full"

(* Mutant: a leaf drawn for a root counts as its expansion.                *)
MarkedAlways(node) == expanded \cup {node}

(* Mutant: only roots are remembered.                                      *)
MarkedAtTop(node) == IF Depth = 0 THEN expanded \cup {node} ELSE expanded

(* What a full appearance adds to the expanded nodes.                      *)
Marked(node) ==
    IF /\ input.dedupe
       /\ ~(input.collapse /\ Depth > 0 /\ RootSlots(graph, node) # {})
    THEN expanded \cup {node}
    ELSE expanded

Advanced == [stack EXCEPT ![Len(stack)].taken = @ + 1]

AtChild == pc = "walk" /\ Top.taken < Len(Top.children)

Exhausted == Len(drawn) = input.visits \/ Depth >= MaxWalkDepth

(* The budget or the recursion ceiling stops the walk here.                *)
Stop ==
    /\ AtChild
    /\ Exhausted
    /\ truncated' = TRUE
    /\ stack' = Advanced
    /\ UNCHANGED <<pc, input, graph, expanded, drawn>>

(* Mutant: a child left out is looked at again.                            *)
SkipInPlace ==
    /\ AtChild
    /\ ~Exhausted
    /\ ~Kept(Path)
    /\ UNCHANGED graphVars

(* The filter leaves this child and everything below it out.               *)
Skip ==
    /\ AtChild
    /\ ~Exhausted
    /\ ~Kept(Path)
    /\ stack' = Advanced
    /\ UNCHANGED <<pc, input, graph, expanded, drawn, truncated>>

(* The visitor enters the child, and the walk its dependencies if they are *)
(* shown here.                                                             *)
Enter ==
    /\ AtChild
    /\ ~Exhausted
    /\ Kept(Path)
    /\ LET node      == Child
           placement == Placement(node, Path)
           full      == placement = "Full"
       IN  /\ drawn' = Append(drawn, [path |-> Path, node |-> node,
                                      placement |-> placement])
           /\ expanded' = IF full THEN Marked(node) ELSE expanded
           /\ stack' = IF full /\ graph.edges[node] # <<>>
                       THEN Append(Advanced, Frame(node, graph.edges[node]))
                       ELSE Advanced
    /\ UNCHANGED <<pc, input, graph, truncated>>

(* The dependencies of the top frame are all visited.                      *)
Leave ==
    /\ pc = "walk"
    /\ Top.taken = Len(Top.children)
    /\ Len(stack) > 1
    /\ stack' = SubSeq(stack, 1, Len(stack) - 1)
    /\ UNCHANGED <<pc, input, graph, expanded, drawn, truncated>>

Finish ==
    /\ pc = "walk"
    /\ Top.taken = Len(Top.children)
    /\ Len(stack) = 1
    /\ pc' = "done"
    /\ UNCHANGED <<input, graph, stack, expanded, drawn, truncated>>

Walk == Stop \/ Skip \/ Enter \/ Leave \/ Finish

Done == pc = "done" /\ UNCHANGED graphVars

Init ==
    /\ pc = "build"
    /\ input \in Inputs
    /\ graph = [edges |-> <<>>, roots |-> <<>>, found |-> {}]
    /\ stack = <<>>
    /\ expanded = {}
    /\ drawn = <<>>
    /\ truncated = FALSE

Next == Build \/ Walk \/ Done

Spec == Init /\ [][Next]_graphVars /\ WF_graphVars(Build \/ Walk)

-----------------------------------------------------------------------------
(***************************************************************************)
(* Properties.                                                             *)
(***************************************************************************)
Nodes == DOMAIN input.packages

(* TypeOK -- the walk's state: the frames hold nodes and their dependency  *)
(* lists, and never take more than is there.                               *)
TypeOK ==
    /\ pc \in {"build", "walk", "done"}
    /\ expanded \subseteq Nodes
    /\ truncated \in BOOLEAN
    /\ Len(drawn) <= input.visits
    /\ pc # "build" =>
          /\ stack # <<>> /\ stack[1].children = graph.roots
          /\ \A i \in DOMAIN stack :
                /\ stack[i].taken <= Len(stack[i].children)
                /\ i > 1 => stack[i].children = graph.edges[stack[i].node]

(* What the lockfile says, without going through references.               *)
DependsOn(i) ==
    IF input.invert THEN {j \in Nodes : i \in Elements(input.depends[j])}
                    ELSE Elements(input.depends[i])

Reachable ==
    LET near[n \in 0 .. Len(input.packages)] ==
          IF n = 0 THEN Elements(graph.roots)
          ELSE LET closer == near[n - 1]
               IN  closer \cup UNION {DependsOn(i) : i \in closer}
    IN  near[Len(input.packages)]

RowAt(path) == CHOOSE i \in DOMAIN drawn : drawn[i].path = path
Shown(path) == \E i \in DOMAIN drawn : drawn[i].path = path
Parent(path) == SubSeq(path, 1, Len(path) - 1)

DrawnEdges ==
    {<<drawn[RowAt(Parent(drawn[i].path))].node, drawn[i].node>> :
        i \in {k \in DOMAIN drawn : Len(drawn[k].path) > 1}}

(* What theorems of GraphProofs ask of an input.  The lockfile names no    *)
(* package twice: those of one name have versions, and different ones.     *)
LockedOnce(in) ==
    \A i, j \in DOMAIN in.packages :
       in.packages[i].name = in.packages[j].name /\ i # j
       => /\ in.packages[i].version # in.packages[j].version
          /\ in.packages[i].version # None

(* No n packages each depend on the next.                                  *)
NoChain(edges, n) ==
    ~\E c \in [1 .. n -> DOMAIN edges] :
        /\ \A i, j \in 1 .. n : c[i] = c[j] => i = j
        /\ \A i \in 1 .. n - 1 : c[i + 1] \in Elements(edges[c[i]])

(* EveryEdgeDrawn -- whatever is collapsed, a tree that was given no depth *)
(* and was not truncated draws exactly the dependencies of the packages    *)
(* the roots reach: nothing is lost behind a marker, and the JSON and DOT  *)
(* graphs flattened from it are the graph.                                 *)
EveryEdgeDrawn ==
    /\ pc = "done"
    /\ {input.depth, input.opened, input.query} = {None}
    /\ ~truncated
    => /\ {drawn[i].node : i \in DOMAIN drawn} = Reachable
       /\ DrawnEdges = {e \in Reachable \X Nodes : e[2] \in DependsOn(e[1])}

(* MarkersPointSomewhere -- a repeat has been shown in full before it, a   *)
(* cycle is on its own path, a pointer to a root's tree leads to a row     *)
(* that is there and is that tree, whatever is filtered or closed; and no  *)
(* root's own entry is a marker.                                           *)
MarkersPointSomewhere ==
    pc = "done" /\ ~truncated =>
      \A i \in DOMAIN drawn :
        LET row == drawn[i]
            first == {r \in RootSlots(graph, row.node) :
                         \A q \in RootSlots(graph, row.node) : r <= q}
        IN  /\ row.placement = "Repeat" =>
                  \E k \in 1 .. i - 1 : /\ drawn[k].node = row.node
                                        /\ drawn[k].placement = "Full"
            /\ row.placement = "Cycle" =>
                  \E n \in 1 .. Len(row.path) - 1 :
                     drawn[RowAt(SubSeq(row.path, 1, n))].node = row.node
            /\ row.placement = "Root" =>
                  \A r \in first : Shown(<<r>>)
            /\ row.path \in {<<r>> : r \in first} =>
                  row.placement \in {"Full", "Depth", "Collapsed"}

(* BoundedByEdges -- collapsing repeats keeps a walk linear: an appearance *)
(* per root and per edge, however often a package is depended on.  And no  *)
(* cycle takes a walk to the recursion ceiling, collapsing or not: it is   *)
(* cut when its budget is spent, and only then.  (The instances have fewer *)
(* packages than the ceiling has levels.)                                  *)
BoundedByEdges ==
    /\ pc \in {"walk", "done"} /\ input.dedupe =>
          Len(drawn) <= Len(graph.roots)
                        + Cardinality({e \in Nodes \X Nodes :
                                          e[2] \in Elements(graph.edges[e[1]])})
    /\ truncated => Len(drawn) = input.visits

(* EveryMatchShown -- every package the roots reach and the search box     *)
(* matches has a row, every path the search found is a row, and every row  *)
(* leads to one that was found.                                            *)
EveryMatchShown ==
    pc = "done" /\ input.query # None /\ ~truncated =>
      /\ \A i \in Reachable : input.packages[i].name \in input.query =>
            \E k \in DOMAIN drawn : drawn[k].node = i
      /\ \A path \in graph.found : Shown(path)
      /\ \A k \in DOMAIN drawn :
            \E path \in graph.found : IsPrefixOf(drawn[k].path, path)

(* WalkTellsAll -- what is drawn of a graph, whichever way and however     *)
(* much: no edge is lost, markers lead where they say, the walk keeps its  *)
(* bounds, and every match has its row.                                    *)
WalkTellsAll ==
    EveryEdgeDrawn /\ MarkersPointSomewhere /\ BoundedByEdges /\ EveryMatchShown

(* WalkEnds -- every walk ends, collapsing or not, cycles or not.          *)
WalkEnds == <>(pc \in {"done", "failed"})
=============================================================================
