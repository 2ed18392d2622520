------------------------------- MODULE MCTree -------------------------------
(* Small instances of Workspace, LockGraphs, Graph and TreeOutput.         *)
EXTENDS TreeOutput, LockGraphs

CONSTANTS app, lib, x, y, z, top, sub, inner, side, skipped

Member(name) == [name |-> name, version |-> 1, source |-> None]
Crate(name, version) ==
    [name |-> name, version |-> version, source |-> "registry"]

(* The ascending sequences over a set of indices.                          *)
Ascending(S) == InOrder(5, S)
ListsOf(S) == {Ascending(T) : T \in SUBSET S}

In(packages, depends, roots, invert, collapse, depth, visits) ==
    [packages |-> packages, depends |-> depends, members |-> {app, lib},
     roots |-> roots, invert |-> invert, dedupe |-> collapse,
     collapse |-> collapse, depth |-> depth, visits |-> visits,
     opened |-> None, query |-> None]

(* Two members and a crate, with every set of edges between them.          *)
Small == <<Member(app), Member(lib), Crate(x, 1)>>
SmallDepends ==
    {<<a, b, c>> : a \in ListsOf({2, 3}), b \in ListsOf({1, 3}),
                   c \in ListsOf({1, 2})}

(* Two versions of one crate.                                              *)
Twice == <<Member(app), Crate(x, 1), Member(lib), Crate(x, 2)>>
TwiceDepends ==
    {<<a, b, c, d>> : a \in ListsOf({2, 3, 4}), b \in ListsOf({3}),
                      c \in ListsOf({1, 2, 4}), d \in ListsOf({2})}

(* `dependable tree`: all members, or `-p` a crate, either way round.      *)
TreeInputs ==
    {In(Small, d, roots, invert, collapse, depth, visits) :
        d \in SmallDepends, roots \in {<<app, lib>>, <<x>>},
        invert \in BOOLEAN, collapse \in BOOLEAN, depth \in {None, 1},
        visits \in {3, 50}}
    \cup {In(Twice, d, roots, invert, collapse, None, 60) :
             d \in TwiceDepends, roots \in {<<app, lib>>, <<x>>},
             invert \in BOOLEAN, collapse \in BOOLEAN}

(* The browser's rows: repeats expand, members are pointers; some paths    *)
(* are open, and the search box may match something.                       *)
RowInputs ==
    {[In(Small, d, <<app, lib>>, FALSE, TRUE, None, 50) EXCEPT
         !.dedupe = FALSE, !.opened = opened, !.query = query] :
        d \in SmallDepends,
        opened \in {{}, {<<1>>, <<2>>, <<1, 1>>}},
        query \in {None, {x}, {lib}, {app, x}}}

LockInputs == TreeInputs \cup RowInputs

(* What the theorems of GraphProofs suppose is so of these: as for the     *)
(* ceiling, a chain is no longer than there are packages.                  *)
ASSUME InstanceIsCovered ==
    \A in \in Inputs :
       /\ LockedOnce(in)
       /\ Len(in.packages) < MaxWalkDepth
       /\ in.query # None => NoChain(GraphOf(in).edges, MaxSearch)

-----------------------------------------------------------------------------
(* top holds sub, side and skipped; sub holds inner.                       *)
TreeDirs  == {top, sub, inner, side, skipped}
TreeSubdirs ==
    [d \in TreeDirs |-> CASE d = top -> <<side, skipped, sub>>
                          [] d = sub -> <<inner>>
                          [] d \notin {top, sub} -> <<>>]
TreeNames == <<app, lib, x, y, z>>

Needs(name, source, constraint) ==
    [name |-> name, kind |-> "Normal", source |-> source,
     constraint |-> constraint]
Lends(name, source, constraint) ==
    [Needs(name, source, constraint) EXCEPT !.kind = "Workspace"]

Missing == [kind |-> "Absent", text |-> None]
Broken(kind) == [kind |-> kind, text |-> None]
Text(workspace, exclude, defaults, name, version, items) ==
    [kind |-> "Manifest",
     text |-> [workspace |-> workspace, exclude |-> exclude,
               defaults |-> defaults, name |-> name, version |-> version,
               items |-> items]]

Inherits == <<Needs(x, "Inherited", None), Needs(lib, "Local", Several)>>

TopFiles ==
    {Missing, Broken("Invalid"),
     Text(TRUE, {}, 1, None, None, <<Lends(x, "Registry", 1)>>),
     Text(TRUE, {side}, 1, None, None, <<Lends(x, "Git", None)>>),
     Text(FALSE, {}, None, app, 1, <<Needs(x, "Registry", 1)>>)}
SubFiles ==
    {Missing, Broken("Unreadable"), Broken("Invalid"),
     Text(TRUE, {}, None, None, None, <<>>),
     Text(TRUE, {}, 2, lib, Inherit, <<Lends(x, "Registry", 2)>>),
     Text(FALSE, {}, None, lib, Inherit, Inherits)}
InnerFiles ==
    {Missing, Broken("Invalid"),
     Text(FALSE, {}, None, app, Inherit, Inherits),
     Text(TRUE, {}, None, app, Inherit, Inherits),
     Text(FALSE, {}, None, lib, 2, <<Needs(app, "Local", Several),
                                     Needs(x, "Registry", Several)>>)}
SideFiles ==
    {Missing,
     Text(FALSE, {}, None, app, 1, <<Needs(x, "Registry", 1)>>),
     Text(TRUE, {}, 2, lib, Inherit, Inherits)}

Locks ==
    {None, [dir |-> top, valid |-> FALSE],
     [dir |-> top, valid |-> TRUE,
      packages |-> <<Member(app), Crate(x, 2), Member(lib)>>,
      depends |-> <<<<2, 3>>, <<>>, <<2>>>>]}

Tree(start, files, package, lock) ==
    [start |-> start, package |-> package, lock |-> lock,
     kind |-> [d \in TreeDirs |-> files[d].kind],
     text |-> [d \in TreeDirs |-> files[d].text],
     options |-> [invert |-> FALSE, dedupe |-> TRUE, collapse |-> TRUE,
                  depth |-> None, visits |-> 50, opened |-> None,
                  query |-> None]]

Files(f, s, i, e) ==
    (top :> f @@ sub :> s @@ inner :> i @@ side :> e
     @@ skipped :> Text(FALSE, {}, None, z, 1, <<>>))

(* A root that is itself a crate and declares for its members.             *)
RootCrate ==
    {Tree(top, Files(Text(TRUE, {}, 1, app, Inherit,
                          <<Needs(x, "Inherited", None),
                            Lends(x, "Registry", 1), Lends(y, "Registry", 1)>>),
                     s, i, Missing), None, None) :
        s \in SubFiles, i \in InnerFiles}

TreeLayouts ==
    {Tree(start, Files(f, s, i, e), None, None) :
        start \in {top, inner}, f \in TopFiles, s \in SubFiles,
        i \in InnerFiles, e \in SideFiles}
    \cup {Tree(top, Files(f, s, i, e), package, lock) :
             f \in TopFiles \ {Missing}, s \in SubFiles, i \in InnerFiles,
             e \in {Missing}, package \in {None, lib}, lock \in Locks}
    \cup RootCrate

-----------------------------------------------------------------------------
(* Projects with a lockfile that says who depends on whom: what each       *)
(* declares, installs at one or two versions, and links.                   *)
On(names) == [k \in DOMAIN names |-> [name |-> names[k], table |-> "dependencies"]]
Peers(names) == [k \in DOMAIN names |-> [name |-> names[k], table |-> "peerDependencies"]]
Npm(key, name, version, resolved, deps) ==
    [key |-> key, name |-> name, version |-> version, resolved |-> resolved, deps |-> deps]
From(kind, path) == [kind |-> kind, path |-> path]
Url == From("url", <<>>)
LibDir == <<Folder(side), Folder(lib)>>

NpmRoot(name, version, deps) == Npm(<<>>, name, version, None, deps)
NpmOptional ==
    <<Npm(<<Modules(lib)>>, None, None, From("path", LibDir), <<>>),
      Npm(<<Modules(x)>>, None, 1, Url, On(<<y>>) \o Peers(<<lib>>)),
      Npm(<<Modules(x), Modules(y)>>, None, 2, Url, On(<<x>>)),
      Npm(<<Modules(y)>>, None, 1, From("git", <<>>), <<>>),
      Npm(LibDir, lib, 1, None, On(<<x, y>>)),
      Npm(LibDir \o <<Modules(x)>>, z, 2, Url, On(<<y>>))>>
Chosen(s, S) == LET kept == InOrder(Len(s), S)
                IN  [k \in DOMAIN kept |-> s[kept[k]]]
NpmDocs ==
    {<<NpmRoot(name, 1, deps)>> \o Chosen(NpmOptional, S) :
        name \in {app, None}, deps \in {<<>>, On(<<x, lib>>), Peers(<<y>>)},
        S \in {S \in SUBSET (1 .. 6) : (3 \in S => 2 \in S) /\ (6 \in S => 5 \in S) /\ (5 \in S <=> 1 \in S)}}
    \cup {<<>>, Tail(<<NpmRoot(app, 1, <<>>)>> \o Chosen(NpmOptional, {2, 4}))}

Versionless == {<<NpmRoot(app, 1, On(<<lib>>)), NpmOptional[1], NpmOptional[4],
                  Npm(LibDir, lib, None, None, On(<<y>>))>>}

Desc(name, version) == Ref(name, version)
Bun(key, described, deps) == [key |-> key, described |-> described, deps |-> deps]
Space(key, name, version, deps) == [key |-> key, name |-> name, version |-> version, deps |-> deps]
BunOptional ==
    <<Bun(<<lib>>, None, <<>>),
      Bun(<<x>>, Desc(<<x>>, 1), On(<< <<y>> >>)),
      Bun(<<x, y>>, Desc(<<y>>, 2), On(<< <<x>>, <<skipped, x>> >>)),
      Bun(<<y>>, Desc(<<y>>, 1), <<>>),
      Bun(<<skipped, x>>, Desc(<<skipped, x>>, 1), On(<< <<x>>, <<y>> >>)),
      Bun(<<skipped, x, y>>, Desc(<<z>>, 3), On(<< <<y>> >>)),
      Bun(<<skipped, y>>, None, On(<< <<x>> >>))>>
BunDocs ==
    {[workspaces |-> w, entries |-> Chosen(BunOptional, S)] :
        S \in {S \in SUBSET (1 .. 7) : (3 \in S => 2 \in S) /\ (6 \in S => 5 \in S)},
        w \in {<<Space(<<>>, <<app>>, 1, On(<< <<x>>, <<lib>> >>)),
                 Space(<<side, lib>>, <<lib>>, None, On(<< <<y>> >>))>>}}
    \cup {[workspaces |-> <<Space(<<side, lib>>, None, None, On(<< <<x>> >>))>>, entries |-> BunOptional]}

Flat(name, version, requires) ==
    [name |-> name, version |-> version, hex |-> version # 2, requires |-> requires]
On2(names) == [k \in DOMAIN names |-> [name |-> names[k], platform |-> names[k] = z]]
FlatDocs ==
    {<<Flat(x, a, On2(<<y, z>>)), Flat(y, b, On2(<<x>>)), Flat(n, 1, On2(<<x>>))>> :
        a, b \in {1, 2, None}, n \in {lib, app, None}}

Lock(format, state, doc) == [format |-> format, state |-> state, doc |-> doc, legacy |-> doc = <<>>]
Declared(name, pin) == [name |-> name, pin |-> pin, checkable |-> pin # 2]
Project(kind, name, directory, direct, lock) ==
    [kind |-> kind, name |-> name, directory |-> directory, version |-> 1, direct |-> direct,
     package |-> None, lock |-> lock, gone |-> FALSE]
Directs == {<<>>, <<Declared(x, 1), Declared(y, None), Declared(x, 1), Declared(y, 1)>>,
            <<Declared(y, 1), Declared(app, 1), Declared(x, 1), Declared(x, 2)>>}
NodeDirect == <<Declared(x, None), Declared(lib, None)>>
BunDirect == <<Declared(<<x>>, None)>>
SomeProjects ==
    {Project("package.json", app, top, NodeDirect, Lock("npm", "Valid", d)) : d \in NpmDocs}
    \cup {Project("package.json", <<app>>, top, BunDirect, Lock("bun", "Valid", d)) : d \in BunDocs}
    \cup {Project(f[1], name, app, <<Declared(x, 1)>>, Lock(f[2], "Valid", d)) :
             d \in FlatDocs, name \in {app, None},
             f \in {<<"composer.json", "composer">>, <<"mix.exs", "mix">>}}
    \cup {Project(kind, name, app, direct, Lock("npm", state, <<>>)) :
             kind \in {"package.json", "pom.xml"}, name \in {None, lib}, direct \in Directs,
             state \in {"Absent", "Unusable", "Broken"}}
    \cup {[Project("mix.exs", None, app, direct, Lock("mix", "Absent", <<>>)) EXCEPT
              !.package = package, !.gone = package = None] : direct \in Directs, package \in {None, x}}
LinkedProjects ==
    {Project("package.json", app, top, NodeDirect, Lock("npm", "Valid", d)) : d \in Versionless}

-----------------------------------------------------------------------------
NoProject == project = None /\ origin = None
NoTree == layout = None /\ rootDir = None /\ todo = <<>> /\ scopes = <<>>
          /\ members = <<>> /\ nested = <<>>
allVars == <<vars, project, origin>>
MCInit == (ScanInit /\ NoProject) \/ (NoTree /\ ProjectInit)
MCStep == BuildProjectGraph /\ UNCHANGED scanVars
ScanWork == (ScanStep \/ (Walk /\ UNCHANGED scanVars)) /\ UNCHANGED <<project, origin>>
MCNext == (ScanNext /\ UNCHANGED <<project, origin>>) \/ MCStep
(* A project is read and a graph built in the end; said of pc alone, whose *)
(* value is enough.                                                        *)
MCSpec == /\ MCInit /\ [][MCNext]_allVars
          /\ WF_allVars(ScanWork)
          /\ WF_pc(pc \in {"project", "build"} /\ pc' \in {"build", "walk", "failed"})
=============================================================================
