------------------------------ MODULE Workspace ------------------------------
(***************************************************************************)
(* `build_workspace_graph` (crates/dependable-fetch/src/tree.rs), up to    *)
(* the graph and the walk of module Graph.                                 *)
(*                                                                         *)
(* It finds the workspace root above where it starts, collects the crates  *)
(* below the root -- each with the `[workspace]` that governs it, its      *)
(* scope -- and reads the root's lockfile; without one it assembles a      *)
(* shallow graph of the crates and what they declare.                      *)
(*                                                                         *)
(* The recursion of `Walk::descend` is the list `todo` of directories      *)
(* still to enter, in the order it enters them.                            *)
(***************************************************************************)
EXTENDS Graph, TLC

CONSTANTS
    Dirs,       \* directories
    Subdirs,    \* dir -> its subdirectories, sorted
    Skipped,    \* SKIP_DIRS and hidden directories
    ScanDepth,  \* the walk's depth limit
    NameOrder,  \* the package names, sorted
    Versions,   \* releases, and the versions of crates
    Several,        \* a constraint several releases satisfy
    Inherit,    \* version.workspace = true
    Layouts     \* what the directories hold; see LayoutOK

VARIABLES
    layout,   \* the files; None for a graph given as a lockfile
    rootDir,  \* the workspace root
    todo,     \* directories to enter: dir, depth left, enclosing scope
    scopes,   \* the arena of scopes; the first is the root's
    members,  \* crates found: name, dir, index of its scope
    nested    \* WorkspaceGraph::nested_roots: node -> dir

scanVars == <<layout, rootDir, todo, scopes, members, nested>>
vars == <<pc, input, graph, stack, expanded, drawn, truncated, layout,
          rootDir, todo, scopes, members, nested>>

Names == Elements(NameOrder)
Sorted(S) == SelectSeq(NameOrder, LAMBDA n : n \in S)

(* A dependency as a manifest declares it.  A constraint is a release (it  *)
(* names exactly that one), Several (it admits several), or None.            *)
Item == [name : Names, kind : {"Normal", "Workspace"},
         source : {"Registry", "Git", "Local", "Inherited"},
         constraint : Versions \cup {Several, None}]

(* Manifests that read and parse: `workspace` says whether there is a      *)
(* [workspace] table, `defaults` and the items of kind "Workspace" are     *)
(* what it lends its members.                                              *)
TextOK(text) ==
    /\ text.workspace \in BOOLEAN
    /\ text.exclude \subseteq Dirs
    /\ text.defaults \in Versions \cup {None}
    /\ text.name \in Names \cup {None}
    /\ text.version \in Versions \cup {Inherit, None}
    /\ Elements(text.items) \subseteq Item

(* A file is "Absent", "Unreadable", "Invalid" or a "Manifest".            *)
LayoutOK(l) ==
    /\ l.start \in Dirs
    /\ l.package \in Names \cup {None}
    /\ \A d \in Dirs :
          /\ l.kind[d] \in {"Absent", "Unreadable", "Invalid", "Manifest"}
          /\ l.kind[d] = "Manifest" => TextOK(l.text[d])
    /\ l.lock = None \/ l.lock.valid \in BOOLEAN

IsAncestor(a, d) == a # d /\ d \in
    LET below[n \in 0 .. Cardinality(Dirs)] ==
          IF n = 0 THEN Elements(Subdirs[a])
          ELSE LET more == below[n - 1]
               IN  more \cup UNION {Elements(Subdirs[s]) : s \in more}
    IN  below[Cardinality(Dirs)]

AtOrAbove(a, d) == a = d \/ IsAncestor(a, d)

ASSUME WorkspaceAssumption ==
    /\ \A d \in Dirs : Elements(Subdirs[d]) \subseteq Dirs
    /\ Skipped \subseteq Dirs
    /\ ScanDepth \in Nat
    /\ Versions \subseteq Nat
    /\ \A l \in Layouts : LayoutOK(l)

-----------------------------------------------------------------------------
IsWorkspace(d) == layout.kind[d] = "Manifest" /\ layout.text[d].workspace
IsOpaque(d)    == layout.kind[d] \in {"Unreadable", "Invalid"}
IsCrate(d)     == layout.kind[d] = "Manifest" /\ layout.text[d].name # None

(* The nearest of a set of directories above (or at) another.              *)
Nearest(S, d) ==
    CHOOSE a \in S : /\ AtOrAbove(a, d)
                     /\ \A b \in S : AtOrAbove(b, d) => AtOrAbove(b, a)

(* What a manifest lends the crates it governs.                            *)
NoScope(d) == [dir |-> d, defaults |-> None, declares |-> <<>>]
ScopeOf(d) ==
    IF layout.kind[d] # "Manifest" THEN NoScope(d)
    ELSE [dir |-> d, defaults |-> layout.text[d].defaults,
          declares |-> SelectSeq(layout.text[d].items,
                                 LAMBDA i : i.kind = "Workspace")]

Excluded ==
    IF IsWorkspace(rootDir) THEN layout.text[rootDir].exclude ELSE {}

(* locate_root: the nearest [workspace] above, else the nearest manifest   *)
(* that can be read.                                                       *)
Locate ==
    LET roots == {d \in Dirs : AtOrAbove(d, layout.start) /\ IsWorkspace(d)}
        plain == {d \in Dirs : /\ AtOrAbove(d, layout.start)
                               /\ layout.kind[d] \in {"Invalid", "Manifest"}}
        found == IF roots # {} THEN roots ELSE plain
    IN  /\ pc = "locate"
        /\ IF found = {}
           THEN pc' = "failed" /\ UNCHANGED <<rootDir, todo, scopes>>
           ELSE LET root == Nearest(found, layout.start)
                IN  /\ pc' = "scan"
                    /\ rootDir' = root
                    /\ scopes' = <<ScopeOf(root)>>
                    /\ todo' = <<[dir |-> root, left |-> ScanDepth, scope |-> 1]>>
        /\ UNCHANGED <<input, graph, stack, expanded, drawn, truncated,
                       layout, members, nested>>

(* Mutant: the first crate of a name stays.                                *)
RecordedFirst(found, crate) ==
    IF \E i \in DOMAIN found : found[i].name = crate.name
    THEN found ELSE Append(found, crate)

(* A name yields one crate: of two, the one whose scope opened first.      *)
Recorded(found, crate) ==
    IF \A i \in DOMAIN found : found[i].name # crate.name
    THEN Append(found, crate)
    ELSE [i \in DOMAIN found |->
            IF found[i].name = crate.name /\ crate.scope < found[i].scope
            THEN crate ELSE found[i]]

(* Mutant: a manifest that cannot be read is taken for none.               *)
OpensIfRead(d) == d # rootDir /\ IsWorkspace(d)

(* Whether a directory below the root opens a scope of its own.            *)
Opens(d) == d # rootDir /\ (IsWorkspace(d) \/ IsOpaque(d))

(* Enter a directory: open its scope, record its crate, and go on to its   *)
(* subdirectories, in order, before what is left of its siblings.          *)
Descend ==
    LET at    == Head(todo)
        d     == at.dir
        scope == IF Opens(d) THEN Len(scopes) + 1 ELSE at.scope
        into  == IF at.left = 0 THEN <<>>
                 ELSE SelectSeq(Subdirs[d],
                                LAMBDA s : s \notin Excluded \cup Skipped)
    IN  /\ pc = "scan"
        /\ todo # <<>>
        /\ scopes' = IF Opens(d) THEN Append(scopes, ScopeOf(d)) ELSE scopes
        /\ members' = IF IsCrate(d)
                      THEN Recorded(members, [name |-> layout.text[d].name,
                                              dir |-> d, scope |-> scope])
                      ELSE members
        /\ todo' = [i \in DOMAIN into |->
                       [dir |-> into[i], left |-> at.left - 1, scope |-> scope]]
                   \o Tail(todo)
        /\ UNCHANGED <<pc, input, graph, stack, expanded, drawn, truncated,
                       layout, rootDir, nested>>

-----------------------------------------------------------------------------
(***************************************************************************)
(* The shallow graph.                                                      *)
(***************************************************************************)
(* resolve_workspace_inheritance, of one item.                             *)
Resolved(item, declares) ==
    LET named == SelectSeq(declares, LAMBDA d : d.name = item.name)
    IN  IF \/ item.source # "Inherited" \/ item.constraint # None
           \/ named = <<>>
           \/ /\ named[1].constraint = None
              /\ named[1].source \notin {"Local", "Git"}
        THEN item
        ELSE [item EXCEPT
                !.constraint = named[1].constraint,
                !.source = IF named[1].source \in {"Local", "Git"}
                           THEN named[1].source ELSE @]

(* The release a declaration already resolves to.                          *)
DeclaredPin(item) ==
    IF item.source \in {"Registry", "Inherited"} /\ item.constraint \in Versions
    THEN item.constraint ELSE None

SourceOf(item) ==
    CASE item.source = "Git"   -> "git"
      [] item.source = "Local" -> None
      [] item.source \in {"Registry", "Inherited"} -> "registry"

(* What a crate's manifest declares, inheritance resolved.                 *)
ItemsOf(m) ==
    LET items == layout.text[m.dir].items
    IN  [i \in DOMAIN items |-> Resolved(items[i], scopes[m.scope].declares)]

(* Mutant: the first declaration of a name decides.                        *)
NotedFirst(externals, item) ==
    IF \E i \in DOMAIN externals : externals[i].name = item.name
    THEN externals
    ELSE Append(externals, [name |-> item.name, version |-> DeclaredPin(item),
                            source |-> SourceOf(item)])

(* A name is one node, whose version survives only while every declaration *)
(* agrees on it.                                                           *)
Noted(externals, item) ==
    IF \A i \in DOMAIN externals : externals[i].name # item.name
    THEN Append(externals, [name |-> item.name, version |-> DeclaredPin(item),
                            source |-> SourceOf(item)])
    ELSE [i \in DOMAIN externals |->
            IF /\ externals[i].name = item.name
               /\ externals[i].version # DeclaredPin(item)
            THEN [externals[i] EXCEPT !.version = None]
            ELSE externals[i]]

MemberNames == {members[i].name : i \in DOMAIN members}

Externals ==
    LET items == SelectSeq(Joined([m \in DOMAIN members |-> ItemsOf(members[m])]),
                           LAMBDA i : i.name \notin MemberNames)
        noted[i \in 0 .. Len(items)] ==
          IF i = 0 THEN <<>> ELSE Noted(noted[i - 1], items[i])
    IN  noted[Len(items)]

(* Mutant: what a crate's root does not say is asked of the scanned root.  *)
VersionOrRoots(m) ==
    CASE layout.text[m.dir].version = Inherit ->
             IF scopes[m.scope].defaults = None THEN scopes[1].defaults
             ELSE scopes[m.scope].defaults
      [] layout.text[m.dir].version # Inherit -> layout.text[m.dir].version

(* A crate's own version: as declared, or as the root that governs it says.*)
VersionOf(m) ==
    CASE layout.text[m.dir].version = Inherit -> scopes[m.scope].defaults
      [] layout.text[m.dir].version # Inherit -> layout.text[m.dir].version

(* Packages and dependencies as if from a lockfile: crates, then what they *)
(* declare.                                                                *)
ShallowPackages ==
    [i \in DOMAIN members |->
        [name |-> members[i].name, version |-> VersionOf(members[i]),
         source |-> None]]
    \o Externals

ShallowDepends ==
    LET p        == ShallowPackages
        IndexOf(n) == CHOOSE i \in DOMAIN p : p[i].name = n
        sorted(m) == Sorted({i.name : i \in Elements(ItemsOf(m))})
    IN  [i \in DOMAIN p |->
            IF i > Len(members) THEN <<>>
            ELSE [d \in DOMAIN sorted(members[i]) |->
                     IndexOf(sorted(members[i])[d])]]

(* The nodes that a nested root governs.                                   *)
NestedRoots(packages) ==
    LET inside == {i \in DOMAIN packages :
                      /\ IsMember(packages[i], MemberNames)
                      /\ \E m \in Elements(members) :
                            m.name = packages[i].name /\ m.scope # 1}
        crate(i) == CHOOSE m \in Elements(members) : m.name = packages[i].name
    IN  [i \in inside |-> scopes[crate(i).scope].dir]

HasLock == layout.lock # None /\ layout.lock.dir = rootDir

Scanned == pc = "scan" /\ todo = <<>>

(* A lockfile that does not parse ends the command.                        *)
Reject ==
    /\ Scanned
    /\ HasLock /\ ~layout.lock.valid
    /\ pc' = "failed"
    /\ UNCHANGED <<input, graph, stack, expanded, drawn, truncated, layout,
                   rootDir, todo, scopes, members, nested>>

(* Every directory is entered: hand the lockfile's packages, or the        *)
(* shallow ones, to the graph.                                             *)
Assemble ==
    LET packages == IF HasLock THEN layout.lock.packages ELSE ShallowPackages
    IN  /\ Scanned
        /\ HasLock => layout.lock.valid
        /\ pc' = "build"
        /\ input' = [packages |-> packages,
                     depends  |-> IF HasLock THEN layout.lock.depends
                                  ELSE ShallowDepends,
                     members  |-> MemberNames,
                     roots    |-> IF layout.package # None
                                  THEN <<layout.package>>
                                  ELSE Sorted(MemberNames)]
                    @@ layout.options
        /\ nested' = NestedRoots(packages)
        /\ UNCHANGED <<graph, stack, expanded, drawn, truncated, layout,
                       rootDir, todo, scopes, members>>

(* Either a lockfile is given to the graph as it is, or the graph is built *)
(* from what the directories hold.                                         *)
ScanInit ==
    /\ graph = [edges |-> <<>>, roots |-> <<>>, found |-> {}]
    /\ stack = <<>> /\ expanded = {} /\ drawn = <<>> /\ truncated = FALSE
    /\ rootDir = None
    /\ todo = <<>> /\ scopes = <<>> /\ members = <<>> /\ nested = <<>>
    /\ \/ pc = "build" /\ layout = None /\ input \in Inputs
       \/ pc = "locate" /\ layout \in Layouts /\ input = None

ScanStep == Locate \/ Descend \/ Reject \/ Assemble

Stopped == pc = "failed" /\ UNCHANGED vars

GraphStep == (Build \/ Walk) /\ UNCHANGED scanVars

ScanNext ==
    \/ ScanStep
    \/ GraphStep
    \/ Done /\ UNCHANGED scanVars
    \/ Stopped

ScanSpec == ScanInit /\ [][ScanNext]_vars /\ WF_vars(ScanStep \/ GraphStep)

-----------------------------------------------------------------------------
(***************************************************************************)
(* Properties.                                                             *)
(***************************************************************************)
(* ScanTypeOK -- scopes and crates are numbered in the order they were     *)
(* found, no crate points past the arena, no two share a name, and what    *)
(* reaches the graph is a lockfile it can draw.                            *)
ScanTypeOK ==
    /\ pc \in {"locate", "scan", "build", "walk", "done", "failed"}
    /\ \A i \in DOMAIN todo : todo[i].scope \in DOMAIN scopes
    /\ \A i \in DOMAIN members :
          /\ members[i].scope \in DOMAIN scopes
          /\ \A j \in DOMAIN members :
                members[i].name = members[j].name => i = j
    /\ pc \in {"build", "walk", "done"} => InputOK(input) /\ TypeOK

Assembled == layout # None /\ pc \in {"build", "walk", "done"}

(* A directory the scan enters: inside the root, and nothing on the way to *)
(* it is excluded or skipped.                                              *)
Entered(d) ==
    /\ AtOrAbove(rootDir, d)
    /\ \A e \in Dirs :
          IsAncestor(rootDir, e) /\ AtOrAbove(e, d) =>
              e \notin Excluded \cup Skipped

CratesIn == {d \in Dirs : Entered(d) /\ IsCrate(d)}

(* The directory of the root that governs a crate as Cargo sees it: the    *)
(* nearest with a [workspace], or one whose manifest cannot tell.          *)
Governing(d) ==
    Nearest({rootDir} \cup {w \in Dirs : /\ AtOrAbove(rootDir, w)
                                         /\ IsWorkspace(w) \/ IsOpaque(w)}, d)

(* NearestRootGoverns -- a crate is read against its nearest root and no   *)
(* other: its tables, its version where that is inherited (nothing, if the *)
(* root declares none: never another root's), and the label the tree and   *)
(* the browser give it.                                                    *)
NearestRootGoverns ==
    Assembled =>
      /\ \A m \in Elements(members) :
            scopes[m.scope] = ScopeOf(Governing(m.dir))
      /\ ~HasLock => \A i \in DOMAIN members :
            LET text == layout.text[members[i].dir]
            IN  input.packages[i].version =
                   IF text.version # Inherit THEN text.version
                   ELSE ScopeOf(Governing(members[i].dir)).defaults
      /\ \A i \in DOMAIN nested : \E m \in Elements(members) :
            /\ m.name = input.packages[i].name
            /\ nested[i] = Governing(m.dir) /\ nested[i] # rootDir

(* OuterCrateWins -- every crate name the scan meets yields one crate, and *)
(* where two share it, one an enclosing root governs is never given up for *)
(* one of a root inside it.                                                *)
OuterCrateWins ==
    Assembled =>
      /\ MemberNames = {layout.text[d].name : d \in CratesIn}
      /\ \A m \in Elements(members), d \in CratesIn :
            layout.text[d].name = m.name =>
                ~IsAncestor(Governing(d), Governing(m.dir))

(* What the crates declare under a name, each read against its own root.   *)
Declarations(name) ==
    {i \in UNION {Elements(ItemsOf(m)) : m \in Elements(members)} :
        i.name = name}

(* UnanimousVersions -- without a lockfile, a dependency shows a version   *)
(* only where every crate that declares it pins that very release, in      *)
(* whatever order the crates were found; and each that is not a crate of   *)
(* the scan is one node.                                                   *)
UnanimousVersions ==
    Assembled /\ ~HasLock =>
      LET outside == {i \in DOMAIN input.packages : i > Len(members)}
          name(i) == input.packages[i].name
      IN  /\ \A i \in outside :
               LET pins == {DeclaredPin(d) : d \in Declarations(name(i))}
               IN  input.packages[i].version =
                      IF Cardinality(pins) = 1 THEN CHOOSE p \in pins : TRUE
                      ELSE None
          /\ \A i, j \in outside : name(i) = name(j) => i = j

(* The graph of a scan is that of its crates, each under its own root,     *)
(* whatever the order they were met in.                                    *)
ScanIsFaithful == NearestRootGoverns /\ OuterCrateWins /\ UnanimousVersions
=============================================================================
