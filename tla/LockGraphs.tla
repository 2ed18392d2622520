----------------------------- MODULE LockGraphs -----------------------------
(***************************************************************************)
(* `build_project_graph` (crates/dependable-fetch/src/tree.rs): the graph  *)
(* of a project that is not a Cargo tree, from the lockfile beside its     *)
(* manifest where there is one that says who depends on whom               *)
(* (crates/dependable-core/src/lockfiles: npm, bun, composer, mix), and    *)
(* from the manifest's own declarations where there is none.  Module Graph *)
(* takes it from there.                                                    *)
(*                                                                         *)
(* A lockfile's entries name what they depend on; a reader resolves each   *)
(* such name to a reference, a name with or without a version, and the     *)
(* references are resolved to packages by `ResolvedLockfile`.              *)
(***************************************************************************)
EXTENDS Graph, FiniteSetsExt

CONSTANTS
    Projects,  \* manifests and lockfiles; None in the runs of other modules
    Scopes     \* the npm scopes, the names that begin with "@"

VARIABLES
    project,   \* the manifest, its lockfile, and the command's options
    origin     \* WorkspaceGraph::source

lockVars == <<pc, input, graph, stack, expanded, drawn, truncated, project, origin>>

-----------------------------------------------------------------------------
(***************************************************************************)
(* Packages and references.                                                *)
(***************************************************************************)
LockedPackage(name, version, source, refs) ==
    [name |-> name, version |-> version, source |-> source, refs |-> refs]
Ref(name, version) == [name |-> name, version |-> version]

(* ResolvedLockfile::resolve, for every reference; module Graph's Resolve. *)
Landed(packages) ==
    [i \in DOMAIN packages |->
        Joined([r \in DOMAIN packages[i].refs |-> Resolve(packages, packages[i].refs[r])])]

(* The tables that install what they name; peerDependencies is not one.    *)
DepTables == {"dependencies", "devDependencies", "optionalDependencies"}
Installs(deps) == SelectSeq(deps, LAMBDA d : d.table \in DepTables)

Keys(entries) == {entries[i].key : i \in DOMAIN entries}
At(entries, key) == CHOOSE i \in DOMAIN entries : entries[i].key = key

(* The longest of the scopes under which `below` has an entry; 0 without.  *)
Innermost(entries, scopes, Below_(_)) ==
    LET holding == {s \in scopes : Below_(s) \in Keys(entries)}
    IN  IF holding = {} THEN 0
        ELSE At(entries, Below_(CHOOSE s \in holding : \A t \in holding : Len(t) <= Len(s)))

-----------------------------------------------------------------------------
(***************************************************************************)
(* package-lock.json.  An entry's key is an install path: a sequence of    *)
(* directories and of packages under a node_modules.                       *)
(***************************************************************************)
Modules(name) == [under |-> "node_modules", name |-> name]
Folder(name)  == [under |-> "directory", name |-> name]
IsInstall(key) == \E i \in DOMAIN key : key[i].under = "node_modules"

(* `resolved` is None or [kind |-> "git", "url" or "path", path |-> a key].  *)
IsLinkStub(e) ==
    IsInstall(e.key) /\ e.version = None /\ e.resolved # None /\ e.resolved.kind = "path"

NpmSource(e) ==
    CASE e.resolved # None /\ e.resolved.kind = "git" -> "git"
      [] IsLinkStub(e) -> None
      [] OTHER -> IF IsInstall(e.key) THEN "registry" ELSE None

PackageName(key) == IF key = <<>> THEN None ELSE key[Len(key)].name
NpmIdentity(e) == Ref(IF e.name # None THEN e.name ELSE PackageName(e.key), e.version)

(* A key itself, what encloses each node_modules on it, and the root.      *)
EnclosingScopes(key) ==
    {key, <<>>} \cup {SubSeq(key, 1, i - 1) : i \in {i \in DOMAIN key : key[i].under = "node_modules"}}

(* Mutant: only the top level is looked at.                                *)
ResolveAtTop(entries, from, dep) ==
    Innermost(entries, {<<>>}, LAMBDA s : Append(s, Modules(dep)))

ResolveInstallPath(entries, from, dep) ==
    Innermost(entries, EnclosingScopes(from), LAMBDA s : Append(s, Modules(dep)))

FollowLink(entries, i) ==
    IF i # 0 /\ IsLinkStub(entries[i]) /\ entries[i].resolved.path \in Keys(entries)
    THEN At(entries, entries[i].resolved.path) ELSE i

(* The references of an entry, given what each of its names resolves to.   *)
RefsOf(deps, Target(_), Identity(_)) ==
    LET targets == SelectSeq([k \in DOMAIN deps |-> Target(deps[k].name)], LAMBDA t : t # 0)
    IN  [k \in DOMAIN targets |-> Identity(targets[k])]

NpmPackages(entries) ==
    [i \in DOMAIN entries |->
        LET e == entries[i]
            me == NpmIdentity(e)
        IN  LockedPackage(me.name, me.version, NpmSource(e),
                RefsOf(Installs(e.deps),
                       LAMBDA n : FollowLink(entries, ResolveInstallPath(entries, e.key, n)),
                       LAMBDA t : NpmIdentity(entries[t])))]

-----------------------------------------------------------------------------
(***************************************************************************)
(* bun.lock.  Names and keys are sequences of the parts a "/" separates;   *)
(* an entry's `described` is the reference its descriptor spells, or None. *)
(***************************************************************************)
Leaf(key) ==
    IF Len(key) > 1 /\ key[Len(key) - 1] \in Scopes
    THEN SubSeq(key, Len(key) - 1, Len(key)) ELSE SubSeq(key, Len(key), Len(key))

BunIdentity(e) == IF e.described # None THEN e.described ELSE Ref(Leaf(e.key), None)

(* A scope is left one part at a time, scoped names included.              *)
ResolveKey(entries, from, dep) ==
    Innermost(entries, {SubSeq(from, 1, n) : n \in 0 .. Len(from)}, LAMBDA s : s \o dep)

BunRefs(entries, from, deps) ==
    RefsOf(Installs(deps), LAMBDA n : ResolveKey(entries, from, n), LAMBDA t : BunIdentity(entries[t]))

(* The workspaces first; the entry of one that is also a package repeats it. *)
BunPackages(doc) ==
    LET entries == doc.entries
        Repeats(e) == /\ BunIdentity(e).version = None
                      /\ \E w \in DOMAIN doc.workspaces : doc.workspaces[w].name = BunIdentity(e).name
        others == SelectSeq(entries, LAMBDA e : ~Repeats(e))
        OfWorkspace(w) == LockedPackage(IF w.name # None THEN w.name ELSE Leaf(w.key), w.version,
                                        None, BunRefs(entries, <<>>, w.deps))
        OfEntry(e) == LET me == BunIdentity(e)
                      IN  LockedPackage(me.name, me.version,
                                        IF me.version = None THEN None ELSE "registry",
                                        BunRefs(entries, e.key, e.deps))
    IN  [i \in DOMAIN doc.workspaces |-> OfWorkspace(doc.workspaces[i])]
        \o [i \in DOMAIN others |-> OfEntry(others[i])]

-----------------------------------------------------------------------------
(***************************************************************************)
(* composer.lock and mix.lock: one version of each package, so a bare name *)
(* is enough.  A platform requirement (php, ext-json) is no package; a mix *)
(* entry that is not from Hex has no version.                              *)
(***************************************************************************)
ComposerPackages(entries) ==
    LET named == SelectSeq(entries, LAMBDA e : e.name # None)
    IN  [i \in DOMAIN named |->
            LET needs == SelectSeq(named[i].requires, LAMBDA d : ~d.platform)
            IN  LockedPackage(named[i].name, named[i].version, "registry",
                              [k \in DOMAIN needs |-> Ref(needs[k].name, None)])]

MixPackages(entries) ==
    LET hex == SelectSeq(entries, LAMBDA e : e.hex /\ e.version # None)
    IN  [i \in DOMAIN hex |->
            LockedPackage(hex[i].name, hex[i].version, "registry",
                          [k \in DOMAIN hex[i].requires |-> Ref(hex[i].requires[k].name, None)])]

-----------------------------------------------------------------------------
(***************************************************************************)
(* The project's graph.                                                    *)
(***************************************************************************)
HasGraphParser(kind) == kind \in {"package.json", "composer.json", "mix.exs"}

(* The parser of a lockfile, and what it makes of it; a version-1          *)
(* package-lock.json says no paths, so it is not one it reads.             *)
IsParsed(lock) == lock.state = "Valid" /\ ~(lock.format = "npm" /\ lock.doc = <<>> /\ lock.legacy)
Parsed(lock) ==
    CASE lock.format = "npm"      -> NpmPackages(lock.doc)
      [] lock.format = "bun"      -> BunPackages(lock.doc)
      [] lock.format = "composer" -> ComposerPackages(lock.doc)
      [] lock.format = "mix"      -> MixPackages(lock.doc)

RootName == IF project.name # None THEN project.name ELSE project.directory

(* Mutant: a root the lockfile names keeps what the lockfile says of it.   *)
WithRootAsLocked(packages, direct) ==
    IF \E i \in DOMAIN packages : packages[i].name = RootName /\ packages[i].source = None
    THEN packages
    ELSE <<LockedPackage(RootName, project.version, None, direct)>> \o packages

(* The project itself, put first if the lockfile does not name it.         *)
WithRoot(packages, direct) ==
    LET own == {i \in DOMAIN packages : packages[i].name = RootName /\ packages[i].source = None}
    IN  IF packages = <<>> \/ own = {} THEN <<LockedPackage(RootName, project.version, None, direct)>> \o packages
        ELSE IF packages[Min(own)].refs = <<>>
        THEN [packages EXCEPT ![Min(own)].refs = direct] ELSE packages

(* Mutant: the first of two declarations decides.                          *)
PinFirst(pins) == pins[1]

(* Two declarations of one name keep a version they agree on.              *)
PinOf(pins) == IF \A k \in DOMAIN pins : pins[k] = pins[1] THEN pins[1] ELSE None

(* What the manifest alone says: its own edges, and the releases it pins.  *)
DirectPackages ==
    LET others == SelectSeq(project.direct, LAMBDA d : d.name # RootName)
        names  == FirstOnly([k \in DOMAIN others |-> others[k].name])
        Pins(n) == LET same == SelectSeq(others, LAMBDA d : d.name = n)
                   IN  [k \in DOMAIN same |-> IF same[k].checkable THEN same[k].pin ELSE None]
    IN  <<LockedPackage(RootName, project.version, None,
              [k \in DOMAIN project.direct |-> Ref(project.direct[k].name, None)])>>
        \o [k \in DOMAIN names |-> LockedPackage(names[k], PinOf(Pins(names[k])), "registry", <<>>)]

Origin ==
    IF ~HasGraphParser(project.kind) THEN "Unsupported"
    ELSE IF project.lock.state = "Absent" THEN "Manifests"
    ELSE IF IsParsed(project.lock) THEN "Lockfile" ELSE "UnreadableLockfile"

Locked ==
    WithRoot(Parsed(project.lock),
             [k \in DOMAIN project.direct |-> Ref(project.direct[k].name, None)])

(* A file that cannot be read when its turn comes ends the command.        *)
BuildProjectGraph ==
    /\ pc = "project"
    /\ IF project.gone THEN pc' = "failed" /\ UNCHANGED <<origin, input>>
       ELSE /\ pc' = "build"
            /\ origin' = Origin
            /\ LET packages == IF Origin = "Lockfile" THEN Locked ELSE DirectPackages
               IN  input' = [packages |-> packages, depends |-> Landed(packages),
                             members |-> {RootName},
                             roots |-> IF project.package # None THEN <<project.package>>
                                       ELSE <<RootName>>,
                             invert |-> FALSE, dedupe |-> TRUE, collapse |-> TRUE,
                             depth |-> None, visits |-> 50, opened |-> None, query |-> None]
    /\ UNCHANGED <<graph, stack, expanded, drawn, truncated, project>>

ProjectInit ==
    /\ pc = "project" /\ project \in Projects /\ origin = None /\ input = None
    /\ graph = [edges |-> <<>>, roots |-> <<>>, found |-> {}]
    /\ stack = <<>> /\ expanded = {} /\ drawn = <<>> /\ truncated = FALSE

-----------------------------------------------------------------------------
(***************************************************************************)
(* Properties.                                                             *)
(***************************************************************************)
(* Where Node looks: in the node_modules of the dependent itself and of    *)
(* every directory above it.                                               *)
NodeFinds(entries, from, dep) ==
    Innermost(entries, {SubSeq(from, 1, n) : n \in 0 .. Len(from)}, LAMBDA s : Append(s, Modules(dep)))

(* A bun key, as the packages on it.                                       *)
PackagesOn(key) ==
    LET from[n \in 0 .. Len(key)] ==
          IF n = 0 THEN {<<>>}
          ELSE {SubSeq(key, 1, n)} \cup from[n - (IF n > 1 /\ key[n - 1] \in Scopes THEN 2 ELSE 1)]
    IN  from[Len(key)]
BunFinds(entries, from, dep) == Innermost(entries, PackagesOn(from), LAMBDA s : s \o dep)

(* The packages an npm or bun entry would load, of those it installs.      *)
Loads(lock, i) ==
    LET e == lock.doc[i]
        b == lock.doc.entries[i]
        deps == Installs(IF lock.format = "npm" THEN e.deps ELSE b.deps)
        Behind(t) == IF t = 0 \/ lock.doc[t].resolved = None THEN {t}
                     ELSE {u \in DOMAIN lock.doc : lock.doc[u].key = lock.doc[t].resolved.path} \ {1}
        Load(n) == IF lock.format = "npm"
                   THEN LET t == NodeFinds(lock.doc, e.key, n)
                        IN  IF Behind(t) = {} THEN t ELSE Min(Behind(t))
                   ELSE BunFinds(lock.doc.entries, b.key, n)
    IN  {Load(deps[k].name) : k \in DOMAIN deps} \ {0}

Named(p) == Ref(p.name, p.version)
FromLock == pc = "build" /\ project # None /\ origin = "Lockfile"
NpmLock  == FromLock /\ project.lock.format = "npm"
BunLock  == FromLock /\ project.lock.format = "bun"
Entries  == IF NpmLock THEN project.lock.doc ELSE project.lock.doc.entries

(* The node of an entry, and the nodes its edges lead to.                  *)
NodeOf(i) ==
    Len(input.packages) - Len(Entries) + i
EdgesOf(n) == {Named(input.packages[j]) : j \in Elements(input.depends[n])}

(* No edge between a scoped package and its unscoped namesake.             *)
Unambiguous(lock) ==
    lock.format = "bun" =>
      \A i \in DOMAIN lock.doc.entries : LET e == lock.doc.entries[i] IN
        \A k \in DOMAIN e.deps :
          ResolveKey(lock.doc.entries, e.key, e.deps[k].name)
          = BunFinds(lock.doc.entries, e.key, e.deps[k].name)

(* EdgesAreInstalled -- an edge of the graph of an npm or bun project      *)
(* leads to the name and version of the copy Node would load there, not to *)
(* another version installed elsewhere; no dependency that is installed    *)
(* loses its edge, and a peer dependency gives none.  Of a bun lockfile it *)
(* is said of the entries that are described, and only where no search for *)
(* a package meets a scoped namesake of it on the way out: keys are left   *)
(* segment by segment, so out of `@s/a` a search for `d` also tries `@s/d` *)
(* (`Unambiguous`, bun_lock_graph.rs:200).                                 *)
EdgesAreInstalled ==
    /\ NpmLock => \A i \in DOMAIN Entries :
          NodeOf(i) # 1 \/ Loads(project.lock, i) # {}
          => EdgesOf(NodeOf(i)) = {NpmIdentity(Entries[t]) : t \in Loads(project.lock, i)}
    /\ BunLock /\ Unambiguous(project.lock) => \A i \in DOMAIN Entries :
          Entries[i].described # None =>
             \E n \in DOMAIN input.packages :
                /\ Named(input.packages[n]) = BunIdentity(Entries[i])
                /\ EdgesOf(n) = {BunIdentity(Entries[t]) : t \in Loads(project.lock, i)}

(* Does the lockfile itself say what the project needs?                    *)
RootIsListed ==
    LET p   == Parsed(project.lock)
        own == {i \in DOMAIN p : p[i].name = RootName /\ p[i].source = None}
    IN  origin = "Lockfile" /\ own # {} /\ p[Min(own)].refs # <<>>

(* RootSaysWhatItNeeds -- the project is in its own graph, whatever the    *)
(* lockfile says of it.  Where the lockfile says nothing of what it needs, *)
(* it has an edge for each direct dependency the graph has a package for;  *)
(* where there is no lockfile to read, one for each there is.  A lockfile  *)
(* that lists some keeps its list (tree.rs:766 fills in an empty one only),*)
(* and of that no more is said than that it is not lost: a dependency the  *)
(* manifest gained since has no edge until the lockfile is written again.  *)
(* And a version no lockfile resolved is one every declaration agrees on.  *)
RootSaysWhatItNeeds ==
    pc = "build" /\ project # None =>
      \E r \in DOMAIN input.packages :
        LET p == input.packages
            present == {d \in Elements(project.direct) :
                          \E n \in DOMAIN p : n # r /\ p[n].name = d.name}
        IN
        /\ p[r].name = RootName /\ p[r].source = None
        /\ ~RootIsListed => {d.name : d \in present} \subseteq {p[j].name : j \in Elements(input.depends[r])}
        /\ present # {} => input.depends[r] # <<>>
        /\ origin # "Lockfile" =>
             /\ {p[j].name : j \in Elements(input.depends[r])} = {d.name : d \in Elements(project.direct)}
             /\ \A n \in DOMAIN p : n # r /\ p[n].version # None =>
                  \A d \in Elements(project.direct) :
                     d.name = p[n].name => d.checkable /\ d.pin = p[n].version

(* LockfileIsSaid -- a lockfile that is there and was not used is never    *)
(* reported as absent.                                                     *)
LockfileIsSaid ==
    pc = "build" /\ project # None /\ project.lock.state # "Absent" => origin # "Manifests"

(* The graph of a project says what its lockfile installs.                 *)
LockGraphsAreFaithful == EdgesAreInstalled /\ RootSaysWhatItNeeds /\ LockfileIsSaid

(* MembersKeepTheirEdges -- following a link to a workspace member leads   *)
(* to the member and what it depends on, not to the stub that installs it. *)
MembersKeepTheirEdges ==
    NpmLock => \A i \in DOMAIN Entries :
        \A t \in Loads(project.lock, i) :
            ~IsLinkStub(Entries[t]) =>
               NodeOf(t) \in Elements(input.depends[NodeOf(i)])
               \/ Entries[t].version # None
=============================================================================
