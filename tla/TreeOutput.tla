----------------------------- MODULE TreeOutput -----------------------------
(***************************************************************************)
(* What `dependable tree` prints of a finished walk                        *)
(* (crates/dependable/src/output/tree.rs): a drawn tree, a JSON document   *)
(* or a DOT graph.  All three are made from the appearances the walk       *)
(* handed over, the tree as nested lines, the other two as nodes under new *)
(* numbers and the edges between them.                                     *)
(*                                                                         *)
(* Branches, colours and quoting are left out.                             *)
(***************************************************************************)
EXTENDS Workspace

(* What each format can say of a node: which workspace a crate belongs to  *)
(* if it is a nested one.                                                  *)
NodeText(node) ==
    [name    |-> input.packages[node].name,
     version |-> input.packages[node].version,
     kind    |-> Kind(input.packages[node], input.members),
     nested  |-> IF node \in DOMAIN nested THEN nested[node] ELSE None]

(* TreeBuilder: an appearance is a child of the one last opened above it.  *)
Level(i) == Len(drawn[i].path) - 1
Opener(i) ==
    CHOOSE j \in 1 .. i - 1 :
        /\ Level(j) = Level(i) - 1
        /\ \A k \in j + 1 .. i - 1 : Level(k) > Level(j)

(* The lines of the drawn tree, or that there is nothing to draw.          *)
MarkUnlessPointer(placement) ==
    IF placement \in {"Repeat", "Cycle"} THEN "seen" ELSE "none"
Mark(placement) ==
    CASE placement = "Root"               -> "see root"
      [] placement \in {"Repeat", "Cycle"} -> "seen"
      [] OTHER                            -> "none"

(* Only a member's line has room for the workspace that governs it.        *)
Line(text) == IF text.kind = "Workspace" THEN text ELSE [text EXCEPT !.nested = None]

Ascii ==
    IF drawn = <<>> THEN [lines |-> <<>>, truncated |-> FALSE]
    ELSE [lines |-> [i \in DOMAIN drawn |->
                        [level |-> Level(i), mark |-> Mark(drawn[i].placement)]
                        @@ Line(NodeText(drawn[i].node))],
          truncated |-> truncated]

(* The tree without its shape: the nodes in the order they are met, and    *)
(* each edge once, between the places of its ends in that order.           *)
Flatten ==
    LET order == FirstOnly([i \in DOMAIN drawn |-> drawn[i].node])
        Compact(node) == CHOOSE k \in DOMAIN order : order[k] = node
        tops == Where(drawn, LAMBDA row : Len(row.path) = 1)
    IN  [order |-> order,
         edges |-> {<<Compact(drawn[Opener(i)].node) - 1, Compact(drawn[i].node) - 1>> :
                       i \in {k \in DOMAIN drawn : Level(k) > 0}},
         roots |-> [r \in DOMAIN tops |-> Compact(drawn[tops[r]].node) - 1],
         truncated |-> truncated]

Json ==
    LET flat == Flatten
    IN  [nodes |-> [k \in DOMAIN flat.order |-> [id |-> k - 1] @@ NodeText(flat.order[k])],
         edges |-> flat.edges, roots |-> flat.roots, truncated |-> flat.truncated]

(* A DOT node says its kind by its colour, and has none for the registry's.*)
Dot ==
    LET flat == Flatten
        Label(text) == [name |-> text.name, version |-> text.version, nested |-> text.nested]
        Fill(kind)  == IF kind = "Registry" THEN None ELSE kind
    IN  [nodes |-> [k \in DOMAIN flat.order |->
                       [id |-> k - 1, label |-> Label(NodeText(flat.order[k])),
                        fill |-> Fill(NodeText(flat.order[k]).kind)]],
         edges |-> flat.edges, truncated |-> flat.truncated]

-----------------------------------------------------------------------------
Printed == pc = "done" /\ input.opened = None /\ input.query = None

(* What a document's numbers stand for.                                    *)
StandsFor(document, id) ==
    LET n == CHOOSE n \in Elements(document.nodes) : n.id = id
    IN  [name |-> n.name, version |-> n.version, kind |-> n.kind, nested |-> n.nested]
PairsOf(document) ==
    {<<StandsFor(document, e[1]), StandsFor(document, e[2])>> : e \in document.edges}

Untold(line) ==
    [name |-> line.name, version |-> line.version, kind |-> line.kind, nested |-> line.nested]

(* DocumentsAreTheGraph -- read back by its numbers, a JSON document that  *)
(* lost nothing to a depth or to the budget has the packages the roots     *)
(* reach, once each, and their dependencies, and starts where the graph    *)
(* does; and DOT shows the same.                                           *)
DocumentsAreTheGraph ==
    LET json == Json
        dot  == Dot
    IN  /\ input.depth = None /\ ~truncated =>
             /\ Len(json.nodes) = Cardinality(Reachable)
             /\ {Untold(n) : n \in Elements(json.nodes)} = {NodeText(n) : n \in Reachable}
             /\ PairsOf(json) = {<<NodeText(e[1]), NodeText(e[2])>> :
                                    e \in {f \in Reachable \X Nodes : f[2] \in DependsOn(f[1])}}
             /\ [r \in DOMAIN json.roots |-> StandsFor(json, json.roots[r])]
                    = [r \in DOMAIN graph.roots |-> NodeText(graph.roots[r])]
        /\ dot.edges = json.edges
        /\ \A k \in DOMAIN json.nodes :
             /\ dot.nodes[k].id = json.nodes[k].id
             /\ dot.nodes[k].label = [name |-> json.nodes[k].name, version |-> json.nodes[k].version,
                                      nested |-> json.nodes[k].nested]

(* NothingHiddenInSilence -- a reader of the drawn tree finds in it the    *)
(* edges of the documents, and where a package that has dependencies is    *)
(* drawn without them the line says so and they are on another: one at the *)
(* left margin for a pointer, one further up for a repeat.  Only --depth   *)
(* and the budget need no mark.                                            *)
NothingHiddenInSilence ==
    LET lines == Ascii.lines
        HasBelow(i) == i < Len(lines) /\ lines[i + 1].level = lines[i].level + 1
        Above(i) == CHOOSE j \in 1 .. i - 1 :
                        /\ lines[j].level = lines[i].level - 1
                        /\ \A k \in j + 1 .. i - 1 : lines[k].level # lines[j].level
        Bare(i) == graph.edges[drawn[i].node] = <<>>
        Cut(i)  == input.depth # None /\ lines[i].level = input.depth
        Same(i, j) == Untold(lines[i]) = Untold(lines[j])
    IN  /\ PairsOf(Json) = {<<Untold(lines[Above(i)]), Untold(lines[i])>> :
                               i \in {k \in DOMAIN lines : lines[k].level > 0}}
        /\ ~truncated => \A i \in DOMAIN lines :
             CASE lines[i].mark = "none"     -> HasBelow(i) \/ Bare(i) \/ Cut(i)
               [] lines[i].mark = "see root" ->
                    \E j \in DOMAIN lines :
                       lines[j].level = 0 /\ Same(i, j) /\ (HasBelow(j) \/ Cut(j))
               [] lines[i].mark = "seen"     ->
                    \E j \in 1 .. i - 1 : Same(i, j) /\ (HasBelow(j) \/ Bare(j))
        /\ truncated => drawn = <<>> \/ Ascii.truncated

(* TreeTellsAll -- whatever is collapsed, cut, inverted or printed, the    *)
(* three formats say what the walk found, and what they do not say they    *)
(* mark.                                                                   *)
TreeTellsAll == Printed => DocumentsAreTheGraph /\ NothingHiddenInSilence
=============================================================================
