------------------------------ MODULE CheckPath ------------------------------
(***************************************************************************)
(* From a directory to the dependencies a run looks up: `run_check` and    *)
(* `run_list` (crates/dependable/src/runner.rs) over `Checker::check_path` *)
(* (dependable-fetch/check.rs), on the files module Discovery describes.   *)
(*                                                                         *)
(* A check reads the manifest, the lockfile and the workspace root one     *)
(* after the other, then waits for the network, and looks once more at the *)
(* lockfile to tell the user what it did not read.  Another program may    *)
(* write a file between any two of these steps.                            *)
(*                                                                         *)
(* The content of a file is tree.text[dir][name]: the items of a manifest, *)
(* the package -> versions of a lockfile, the pins of a Package.resolved.  *)
(* A constraint is the set of versions it admits, None when empty, or      *)
(* Garbled when no front-end reads it.                                     *)
(***************************************************************************)
EXTENDS Discovery

CONSTANTS
    Garbled,
    Versions,     \* locked versions; semver order is that of the numbers
    TextOrder,    \* the same versions, in the order of their texts
    Paths,        \* every [dir, name] of a tree, in path order
    Trees,        \* the trees considered
    Edits,        \* what another program may write: dir, name, state, text
    Runs,         \* the runs considered: path, depth, locks, enabled
    MaxEdits

ASSUME CheckPathAssumption ==
    /\ Versions \subseteq Nat /\ IsFiniteSet(Versions) /\ Elems(TextOrder) = Versions
    /\ Paths \in Seq(Elems(Paths)) /\ \A f \in Elems(Paths) : f.dir \in Dirs
    /\ MaxEdits \in Nat

VARIABLES
    tree, run,
    pc,        \* "discover", "read", "lock", "root", "inner", "notices", "done"
    todo,      \* the manifests left to check, the first in path order under way
    doing,     \* what the check of the first has read so far
    wsCache,   \* Checker::workspace_cache: root -> its declarations
    reports,   \* the reports of the finished checks
    edits      \* files written by others so far

vars == <<tree, run, pc, todo, doing, wsCache, reports, edits>>

Ecosystems == {EcosystemOf(k) : k \in ManifestKinds}
HasRegistry(ecosystem) == ecosystem # "Swift"

Text(t, f)  == t.text[f.dir][f.name]
KindOf(f)   == Detect(f.name)
MaxNat(S)   == CHOOSE v \in S : \A w \in S : w <= v

(* Item::is_checkable: an inherited or locked entry only with a version.   *)
IsCheckable(item) ==
    \/ item.source \in {"Registry", "Jsr"}
    \/ item.source \in {"Inherited", "Locked"} /\ item.constraint # None

Inheriting(item) == item.source = "Inherited" /\ item.constraint = None

(* The entries of a manifest.  One that inherits has no version of its own *)
(* in a Cargo manifest (skip_item); elsewhere it has the one it shares     *)
(* (gradle_catalog.rs, `inherited`), or, in a POM, none.  Only go.mod      *)
(* locks what it declares, to that very version.                           *)
IsEntry(i) ==
    i = [name |-> i.name, kind |-> i.kind, source |-> i.source,
         constraint |-> i.constraint, locked |-> i.locked]

HoldsEntries(name, text) ==
    \A i \in text.items :
        /\ IsEntry(i)
        /\ i.source = "Inherited" =>
             IF Detect(name) = "CargoToml" THEN i.constraint = None
             ELSE Detect(name) = "PomXml" \/ i.constraint # None
        /\ i.locked # None => i.source # "Inherited" /\ i.locked \in i.constraint

(* What a lockfile says of a name are versions.                            *)
HoldsVersions(text) ==
    \A n \in DOMAIN text.versions : text.versions[n] \subseteq Versions

HoldsText(name, text) ==
    /\ text \notin {None, Garbled} /\ text.items # Garbled
    /\ HoldsEntries(name, text) /\ HoldsVersions(text)

IsTree(t) ==
    /\ t = [at |-> t.at, text |-> t.text, skipped |-> t.skipped]
    /\ t.at = [d \in Dirs |-> t.at[d]] /\ t.text = [d \in Dirs |-> t.text[d]]
    /\ \A d \in Dirs :
         /\ t.at[d] = [n \in Present(t, d) |-> t.at[d][n]]
         /\ t.text[d] = [n \in Present(t, d) |-> t.text[d][n]]
         /\ \A n \in Present(t, d) : HoldsText(n, t.text[d][n])

ASSUME TreesAssumption ==
    /\ \A t \in Trees : IsTree(t)
    /\ \A e \in Edits : e.dir \in Dirs /\ HoldsText(e.name, e.text)

-----------------------------------------------------------------------------
(* Workspace inheritance.                                                  *)
Declarations(t, root) ==
    IF Parses(t, root.dir, root.name)
    THEN {i \in Text(t, root).items : i.kind = "Workspace"} ELSE {}

Sourced(d) == d.source \in {"Local", "Git"}

Stating(item, d) ==
    [item EXCEPT !.constraint = d.constraint,
                 !.source = IF Sourced(d) THEN d.source ELSE @]

(* The entry takes the constraint the root declares; its source too when   *)
(* that is a path or a repository.  A root that declares neither a version *)
(* nor a source supplies nothing.                                          *)
Inherited(item, declared) ==
    LET d == CHOOSE d \in declared : d.name = item.name
    IN  IF /\ Inheriting(item) /\ \E e \in declared : e.name = item.name
           /\ d.constraint # None \/ Sourced(d)
        THEN Stating(item, d) ELSE item

ResolveInheritance(items, declared) == {Inherited(i, declared) : i \in items}

-----------------------------------------------------------------------------
(* Lockfiles.                                                              *)
(* Mutant: the newest locked version, whatever the constraint.             *)
PickNewest(versions, constraint) == MaxNat(versions)

(* Of several locked versions: the newest the constraint admits, else the  *)
(* last as text.                                                           *)
PickLocked(versions, constraint) ==
    LET fits == IF constraint \in {None, Garbled} THEN versions
                ELSE versions \cap constraint
    IN  IF Cardinality(versions) = 1 THEN CHOOSE v \in versions : TRUE
        ELSE IF fits # {} THEN MaxNat(fits)
        ELSE CHOOSE v \in versions :
                \A w \in versions :
                   \E i \in DOMAIN TextOrder : TextOrder[i] = v
                      /\ \E j \in 1 .. i : TextOrder[j] = w

ApplyLockfile(items, versions) ==
    {IF i.name \in DOMAIN versions
     THEN [i EXCEPT !.locked = PickLocked(versions[i.name], i.constraint)]
     ELSE i : i \in items}

(* A pin of Package.resolved: where it is from, its identity, the name its *)
(* location stands for, and its version or branch.                         *)
PinName(pin) ==
    IF pin.from \in {"path", "registry"} \/ pin.location = None
    THEN pin.identity ELSE pin.location

PinItem(pin) ==
    [name |-> PinName(pin), kind |-> "Indirect",
     constraint |-> IF pin.version = None THEN None ELSE {pin.version},
     source |-> CASE pin.from = "path"     -> "Local"
                  [] pin.from = "registry" -> "Unidentified"
                  [] OTHER -> IF pin.version = None THEN "Git" ELSE "Locked",
     locked |-> IF pin.from = "remote" THEN pin.version ELSE None]

PinItems(pins) == {PinItem(pin) : pin \in {p \in pins : PinName(p) # None}}

(* What a lockfile of which `content` was read does to the items: None     *)
(* stands for no lockfile, Garbled for one that does not parse.           *)
LockedItems(items, lock, content) ==
    CASE lock = None \/ content = Garbled -> items
      [] OTHER -> IF IsDependencySource(lock.name)
                  THEN items \cup PinItems(content.pins)
                  ELSE ApplyLockfile(items, content.versions)

ReadOrBroken(t, f) == IF Parses(t, f.dir, f.name) THEN Text(t, f) ELSE Garbled

(* Checker::read_lockfile: the nearest that exists; --no-lock-file keeps   *)
(* it from annotating, never from being the dependency list.               *)
LockfileRead(t, r, m) ==
    LET lock == LocateLockfile(t, m.dir, KindOf(m))
    IN  IF lock = None THEN None
        ELSE IF ~r.locks /\ ~IsDependencySource(lock.name) THEN None
        ELSE IF Reads(t, lock.dir, lock.name) THEN lock ELSE None

(* run_list: the nearest that parses, unless the one located is the list.  *)
ListItems(t, r, m) ==
    LET kind   == KindOf(m)
        root   == WorkspaceRootOf(t, m)
        items  == IF root = None THEN Text(t, m).items
                  ELSE ResolveInheritance(Text(t, m).items, Declarations(t, root))
        near   == LocateLockfile(t, m.dir, kind)
        lock   == IF near # None /\ IsDependencySource(near.name) THEN near
                  ELSE IF r.locks THEN FindLockfile(t, m.dir, kind) ELSE None
    IN  LockedItems(items, lock,
                    IF lock = None THEN None ELSE ReadOrBroken(t, lock))

-----------------------------------------------------------------------------
(* What the user is told about entries with no version.                    *)
Undeclared(items) == {i.name : i \in {i \in items : Inheriting(i)}}

InheritanceWarnings(kind, root, items) ==
    IF root # None \/ kind \in {"CargoToml", "PomXml"}
    THEN Undeclared(items) ELSE {}

(* Checker::check_inner's early return.                                    *)
Supported(r, kind) == EcosystemOf(kind) \in r.enabled

UnreadNoticed(t, m) ==
    \E n \in LockfileNotices(t, m.dir, KindOf(m)) : n.unread

-----------------------------------------------------------------------------
Nothing == [items |-> {}, declares |-> FALSE, lock |-> None, content |-> None,
            root |-> None]

Init ==
    /\ tree \in Trees /\ run \in Runs
    /\ pc = "discover" /\ todo = {} /\ doing = Nothing
    /\ wsCache = <<>> /\ reports = {} /\ edits = 0

(* --manifest names one file; else --ecosystem keeps what it asks for.     *)
Selected ==
    LET found == Manifests(tree, run.path, run.depth)
        kept  == IF run.manifest # None THEN {run.manifest}
                 ELSE {m \in found : run.asked = {} \/ EcosystemOf(KindOf(m)) \in run.asked}
    IN  Elems(Paths) \cap kept

CollectManifests ==
    /\ pc = "discover"
    /\ todo' = Selected
    /\ pc' = IF todo' = {} THEN "done" ELSE "read"
    /\ UNCHANGED <<tree, run, doing, wsCache, reports, edits>>

(* They are checked in the order of their paths.                           *)
Current == Paths[First({i \in DOMAIN Paths : Paths[i] \in todo})]

Next1(rest) == pc' = (IF rest = {} THEN "done" ELSE "read") /\ todo' = rest

(* A manifest that cannot be read ends the run.                            *)
ReadManifest ==
    /\ pc = "read"
    /\ IF Reads(tree, Current.dir, Current.name)
       THEN /\ doing' = [Nothing EXCEPT
                  !.items = IF Parses(tree, Current.dir, Current.name)
                            THEN Text(tree, Current).items ELSE Garbled,
                  !.declares = DeclaresWorkspace(tree, Current.dir, Current.name)]
            /\ pc' = "lock"
       ELSE pc' = "done" /\ UNCHANGED doing
    /\ UNCHANGED <<tree, run, todo, wsCache, reports, edits>>

ReadLockfile ==
    /\ pc = "lock"
    /\ LET lock == LockfileRead(tree, run, Current)
       IN  doing' = [doing EXCEPT !.lock = lock,
                        !.content = IF lock = None THEN None
                                    ELSE ReadOrBroken(tree, lock)]
    /\ pc' = "root"
    /\ UNCHANGED <<tree, run, todo, wsCache, reports, edits>>

(* The root of the manifest as it was read: itself, or one above it.       *)
GoverningRoot ==
    IF doing.declares THEN Current ELSE NearestWorkspaceRoot(tree, Current)

RootDeclarations(root) ==
    IF root = Current
    THEN {i \in IF doing.items = Garbled THEN {} ELSE doing.items : i.kind = "Workspace"}
    ELSE Declarations(tree, root)

(* The cache, with what one root declares.                                 *)
Remembering(root) ==
    [r \in DOMAIN wsCache \cup {root} |->
        IF r = root THEN RootDeclarations(root) ELSE wsCache[r]]

(* Mutant: the declarations are read again for every manifest.             *)
ReadRootAgain ==
    /\ pc = "root"
    /\ doing' = [doing EXCEPT !.root = GoverningRoot]
    /\ wsCache' = IF GoverningRoot = None THEN wsCache
                  ELSE Remembering(GoverningRoot)
    /\ pc' = "inner"
    /\ UNCHANGED <<tree, run, todo, reports, edits>>

(* The root is located for every manifest, its declarations are read once  *)
(* per run.                                                                *)
ReadRoot ==
    /\ pc = "root"
    /\ doing' = [doing EXCEPT !.root = GoverningRoot]
    /\ wsCache' = IF GoverningRoot = None \/ GoverningRoot \in DOMAIN wsCache
                  THEN wsCache
                  ELSE Remembering(GoverningRoot)
    /\ pc' = "inner"
    /\ UNCHANGED <<tree, run, todo, reports, edits>>

(* Mutant: the lockfile is applied before inheritance is resolved.         *)
CheckInnerLockFirst ==
    /\ pc = "inner"
    /\ IF ~Supported(run, KindOf(Current))
       THEN Next1(todo \ {Current}) /\ UNCHANGED doing
       ELSE IF doing.items = Garbled
       THEN pc' = "done" /\ UNCHANGED <<doing, todo>>
       ELSE /\ doing' = [doing EXCEPT !.items =
                  LET locked == LockedItems(@, doing.lock, doing.content)
                  IN  IF doing.root = None THEN locked
                      ELSE ResolveInheritance(locked, wsCache[doing.root])]
            /\ pc' = "notices"
            /\ UNCHANGED todo
    /\ UNCHANGED <<tree, run, wsCache, reports, edits>>

(* check_inner: an ecosystem that is switched off is skipped before the    *)
(* manifest is parsed; a manifest that does not parse ends the run.        *)
CheckInner ==
    /\ pc = "inner"
    /\ IF ~Supported(run, KindOf(Current))
       THEN Next1(todo \ {Current}) /\ UNCHANGED doing
       ELSE IF doing.items = Garbled
       THEN pc' = "done" /\ UNCHANGED <<doing, todo>>
       ELSE /\ doing' = [doing EXCEPT !.items =
                  LockedItems(IF doing.root = None THEN @
                              ELSE ResolveInheritance(@, wsCache[doing.root]),
                              doing.lock, doing.content)]
            /\ pc' = "notices"
            /\ UNCHANGED todo
    /\ UNCHANGED <<tree, run, wsCache, reports, edits>>

(* Engine::check_manifest, back from the network.                          *)
ReportNotices ==
    /\ pc = "notices"
    /\ reports' = reports \cup
           {[manifest |-> Current, items |-> doing.items, root |-> doing.root,
             lock |-> doing.lock, readList |-> doing.content \notin {None, Garbled},
             warned |-> InheritanceWarnings(KindOf(Current), doing.root, doing.items),
             unread |-> UnreadNoticed(tree, Current)]}
    /\ Next1(todo \ {Current})
    /\ UNCHANGED <<tree, run, doing, wsCache, edits>>

(* Another program writes a file.                                          *)
Edit ==
    /\ edits < MaxEdits
    /\ pc \notin {"discover", "done"}
    /\ \E e \in Edits :
          /\ e.name \in Present(tree, e.dir)
          /\ tree' = [tree EXCEPT !.at[e.dir][e.name] = e.state,
                                  !.text[e.dir][e.name] = e.text]
    /\ edits' = edits + 1
    /\ UNCHANGED <<run, pc, todo, doing, wsCache, reports>>

Finished == pc = "done" /\ UNCHANGED vars

Next ==
    \/ CollectManifests \/ ReadManifest \/ ReadLockfile \/ ReadRoot
    \/ CheckInner \/ ReportNotices \/ Edit \/ Finished

Spec == Init /\ [][Next]_vars

-----------------------------------------------------------------------------
Files == Elems(Paths)

TypeOK ==
    /\ pc \in {"discover", "read", "lock", "root", "inner", "notices", "done"}
    /\ todo \subseteq Files
    /\ DOMAIN wsCache \subseteq Files
    /\ \A r \in reports : r.manifest \in Files /\ r.root \in Files \cup {None}
    /\ edits \in 0 .. MaxEdits

(* Where the catalog that declares a script's dependencies is: beside the  *)
(* script, or at the nearest directory above that starts a build, when     *)
(* that build declares subprojects and is in the same repository.  The     *)
(* index counts directories up from the script.                            *)
DeclaredAt(d) ==
    LET up == PathUp[d]
        stop(i) == IsBuildRoot(tree, up[i]) \/ HasGit(tree, up[i])
    IN  {i \in DOMAIN up :
           /\ HoldsCatalog(tree, up[i])
           /\ i = 1 \/ DeclaresSubprojects(tree, up[i])
           /\ \A j \in 1 .. i - 1 : ~stop(j)}

(* A build script the scan enters is reported exactly when no catalog      *)
(* declares what it would, the scan looking at most one directory above    *)
(* where it starts (`is_superseded`): no unread dependency list is hidden  *)
(* by another build's catalog, and a module checked on its own is not told *)
(* to write the catalog its build already has.                             *)
ScriptsReported ==
    \A r, d \in Dirs :
        d \in Entered(tree, r, Cardinality(Dirs)) =>
            \A s \in BuildScripts :
                IsFile(tree, d, s) =>
                    ([dir |-> d, name |-> s]
                        \in ManifestNotices(tree, r, Cardinality(Dirs), {"Jvm"}))
                    = ~\E i \in DeclaredAt(d) :
                          i - 1 <= First({j \in DOMAIN PathUp[d] : PathUp[d][j] = r})

AtOrAbove(a, d) == a \in Elems(PathUp[d])

(* The two searches for a lockfile (`locate_lockfile` for check,           *)
(* `find_lockfile` for list and the browser) can disagree only over a      *)
(* lockfile that does not parse, and when that lockfile is beside the      *)
(* manifest the user is told.  Neither leaves the repository, and neither  *)
(* lets one package's dependency list stand for another's.                 *)
LockfilesAgree ==
    \A d \in Dirs, k \in ManifestKinds :
        LET near == LocateLockfile(tree, d, k)
            good == FindLockfile(tree, d, k)
        IN  /\ good # None => near # None
            /\ near # good =>
                 /\ ~Parses(tree, near.dir, near.name)
                 /\ near.dir = d => \E n \in LockfileNotices(tree, d, k) : n.name = near.name
            /\ \A f \in {near, good} \ {None} :
                 /\ AtOrAbove(f.dir, d)
                 /\ IsDependencySource(f.name) => f.dir = d
                 /\ \A a \in Dirs : AtOrAbove(a, d) /\ HasGit(tree, a) => AtOrAbove(a, f.dir)

Unlocked(items) == {[i EXCEPT !.locked = None] : i \in items}

(* `list` and `check` report the same dependencies of a manifest, and the  *)
(* same locked versions of them unless their two searches end at different *)
(* lockfiles (runner.rs, run_list: "an inventory and a check never         *)
(* disagree about what a member depends on").                              *)
ListAndCheckAgree ==
    edits = 0 =>
        \A r \in reports :
            LET listed == ListItems(tree, run, r.manifest)
                kind   == KindOf(r.manifest)
            IN  /\ Unlocked(listed) = Unlocked(r.items)
                /\ LocateLockfile(tree, r.manifest.dir, kind)
                      = FindLockfile(tree, r.manifest.dir, kind)
                   => listed = r.items

(* A locked version the constraint does not admit is reported only when    *)
(* the lockfile has no version that it admits (`pick_locked`).             *)
LockedFits ==
    edits = 0 =>
        \A r \in reports : \A i \in r.items :
            /\ i.source # "Locked" /\ i.locked # None
            /\ i.constraint \notin {None, Garbled} /\ i.locked \notin i.constraint
            => Text(tree, r.lock).versions[i.name] \cap i.constraint = {}

(* However the root is edited while a run is under way, no two members of  *)
(* one workspace are checked against different declarations of the same    *)
(* name (`Checker::workspace_cache`), and an entry left without a version  *)
(* is always named in a warning.                                           *)
MembersAgree ==
    \A r, s \in reports :
        /\ r.root # None /\ r.root = s.root =>
             \A i \in r.items, j \in s.items :
                /\ {i.source, j.source} = {"Inherited"} /\ i.name = j.name
                /\ i.kind # "Workspace" /\ j.kind # "Workspace"
                => i.constraint = j.constraint
        /\ \A i \in r.items : Inheriting(i) => i.name \in r.warned

(* A manifest whose dependency list was not read is reported as unread:    *)
(* its empty list never stands for a project without dependencies.         *)
(* It holds as long as nothing writes the lockfile during the check; see   *)
(* EmptyListIsSaid.                                                        *)
UnreadIsSaid ==
    edits = 0 =>
        \A r \in reports :
            KindOf(r.manifest) = "PackageSwift" => r.unread = ~r.readList

(* The same, whatever is written meanwhile.  discover.rs says of           *)
(* `dependency_list_unread`: "with the list unread there is nothing to     *)
(* check, and reporting nothing wrong would assert exactly what was never  *)
(* established".  The notices are taken from a second look at the file,    *)
(* after the check.                                                        *)
EmptyListIsSaid ==
    \A r \in reports :
        KindOf(r.manifest) = "PackageSwift" /\ ~r.readList => r.unread

(* What decides which files a run reads agrees with what the rest says of  *)
(* them: no build script without a reader goes unsaid, the lockfile looked *)
(* up twice is one, and a lockfile that was found and not read is told.    *)
DiscoveryAgrees ==
    (\E d \in Dirs : DOMAIN tree.at[d] # {}) =>
        ScriptsReported /\ LockfilesAgree /\ UnreadIsSaid

(* `list` and `check` report the same items, at the version the lockfile   *)
(* holds for the constraint.                                               *)
ReadersAgree == ListAndCheckAgree /\ LockedFits
=============================================================================
