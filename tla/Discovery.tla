------------------------------ MODULE Discovery ------------------------------
(***************************************************************************)
(* Which manifests a directory tree holds, which lockfile and which        *)
(* workspace root govern each, and what the user is told was not read      *)
(* (crates/dependable-fetch/src/discover.rs, dependable-core/manifest.rs). *)
(*                                                                         *)
(* The file system is one value `t`: t.at[d] maps the names present in     *)
(* directory d to what reading the file gives,                             *)
(*     "Unreadable"   the file is there and cannot be read,                *)
(*     "Broken"       it reads and does not parse,                         *)
(*     "Plain"        it parses and declares nothing (a lockfile: no       *)
(*                    versions; a manifest: no workspace table),           *)
(*     "Full"         it parses and has versions, a workspace table, or is *)
(*                    simply there,                                        *)
(*     "Directory"    a directory of that name;                            *)
(* t.skipped are the directories named in SKIP_DIRS or hidden.             *)
(* Walking up from a directory is its Path: itself, its parent, ...        *)
(***************************************************************************)
EXTENDS Naturals, Sequences, FiniteSets

CONSTANTS
    None,
    Dirs,       \* directories
    Parent      \* dir -> the directory above it, or None

Elems(s) == {s[i] : i \in DOMAIN s}
First(S) == CHOOSE i \in S : \A j \in S : i <= j

(* A manifest kind, as `ManifestKind` tabulates it.  Roots are the file    *)
(* names that can declare a workspace for it.                              *)
ManifestKinds == {"CargoToml", "GoMod", "PackageJson", "DenoJson",
    "PnpmWorkspaceYaml", "ComposerJson", "RequirementsTxt", "PyprojectToml",
    "PubspecYaml", "MixExs", "Csproj", "GradleVersionCatalog", "PomXml",
    "PackageSwift"}

(* Every walk up ends: there are finitely many directories, each further   *)
(* from its root than the one above it.                                    *)
ASSUME DiscoveryAssumption ==
    /\ None \notin Dirs \cup ManifestKinds /\ IsFiniteSet(Dirs)
    /\ Parent \in [Dirs -> Dirs \cup {None}]
    /\ \E depth \in [Dirs -> 0 .. Cardinality(Dirs)] :
          \A d \in Dirs : Parent[d] # None => depth[Parent[d]] < depth[d]

EcosystemOf(kind) ==
    CASE kind = "CargoToml" -> "Rust"
      [] kind = "GoMod" -> "Go"
      [] kind \in {"PackageJson", "DenoJson", "PnpmWorkspaceYaml"} -> "Npm"
      [] kind = "ComposerJson" -> "Php"
      [] kind \in {"RequirementsTxt", "PyprojectToml"} -> "Python"
      [] kind = "PubspecYaml" -> "Dart"
      [] kind = "MixExs" -> "Elixir"
      [] kind = "Csproj" -> "CSharp"
      [] kind \in {"GradleVersionCatalog", "PomXml"} -> "Jvm"
      [] kind = "PackageSwift" -> "Swift"

(* The lockfiles of a kind, the preferred first; a lockfile is named by    *)
(* its file.                                                               *)
Lockfiles(kind) ==
    CASE kind = "CargoToml" -> <<"Cargo.lock">>
      [] kind = "PackageJson" -> <<"package-lock.json", "bun.lock">>
      [] kind = "ComposerJson" -> <<"composer.lock">>
      [] kind = "PubspecYaml" -> <<"pubspec.lock">>
      [] kind = "MixExs" -> <<"mix.lock">>
      [] kind = "PackageSwift" -> <<"Package.resolved">>
      [] OTHER -> <<>>

(* Finding no lockfile is not finding one.                                 *)
ASSUME LockfileAssumption ==
    \A kind \in ManifestKinds : None \notin [dir : Dirs, name : Elems(Lockfiles(kind))]

IsDependencySource(lockfile) == lockfile = "Package.resolved"
UnreadableLockfiles(kind) == IF kind = "PackageJson" THEN {"bun.lockb"} ELSE {}
WorkspaceRoots(kind) == IF kind = "CargoToml" THEN {"Cargo.toml"} ELSE {}

(* The kind a file name stands for; each name of the model stands for the  *)
(* pattern the code matches (any *.versions.toml, requirements*.txt ...).  *)
Detect(name) ==
    CASE name = "Cargo.toml" -> "CargoToml"
      [] name = "go.mod" -> "GoMod"
      [] name = "package.json" -> "PackageJson"
      [] name \in {"deno.json", "deno.jsonc"} -> "DenoJson"
      [] name \in {"pnpm-workspace.yaml", "pnpm-workspace.yml"}
            -> "PnpmWorkspaceYaml"
      [] name = "composer.json" -> "ComposerJson"
      [] name \in {"pyproject.toml", "pixi.toml"} -> "PyprojectToml"
      [] name = "pubspec.yaml" -> "PubspecYaml"
      [] name = "mix.exs" -> "MixExs"
      [] name \in {"Directory.Packages.props", "app.csproj"} -> "Csproj"
      [] name = "pom.xml" -> "PomXml"
      [] name = "Package.swift" -> "PackageSwift"
      [] name = "libs.versions.toml" -> "GradleVersionCatalog"
      [] name \in {"requirements.txt", "requirements-dev.in"}
            -> "RequirementsTxt"
      [] OTHER -> None

(* Gradle build scripts: seen, and not readable without running them.      *)
BuildScripts == {"build.gradle.kts", "build.gradle"}
Settings     == {"settings.gradle.kts", "settings.gradle"}
Catalog      == "libs.versions.toml"

-----------------------------------------------------------------------------
Present(t, d) == DOMAIN t.at[d]
IsFile(t, d, name) == name \in Present(t, d) /\ t.at[d][name] # "Directory"
Reads(t, d, name)  == IsFile(t, d, name) /\ t.at[d][name] # "Unreadable"
Parses(t, d, name) == Reads(t, d, name) /\ t.at[d][name] # "Broken"
HasGit(t, d) == ".git" \in Present(t, d)

PathUp[d \in Dirs] ==
    IF Parent[d] = None THEN <<d>> ELSE <<d>> \o PathUp[Parent[d]]

(* How far up a walk that stops at the repository boundary looks.          *)
Repository(t, d) ==
    LET up == PathUp[d]
    IN  {i \in DOMAIN up : \A j \in 1 .. i - 1 : ~HasGit(t, up[j])}

(* The catalog is looked for as gradle/libs.versions.toml; `gradle` is not *)
(* modelled as a directory of its own.                                     *)
HoldsCatalog(t, d)        == IsFile(t, d, Catalog)
DeclaresSubprojects(t, d) == \E s \in Settings : IsFile(t, d, s)
IsBuildRoot(t, d)         == HoldsCatalog(t, d) \/ DeclaresSubprojects(t, d)

(* Mutant: any catalog above counts, subprojects declared or not.          *)
IsSupersededByAny(t, dir, scanRoot) ==
    LET up == PathUp[dir]
        go[i \in DOMAIN up] ==
            \/ HoldsCatalog(t, up[i])
            \/ /\ ~IsBuildRoot(t, up[i]) /\ ~HasGit(t, up[i])
               /\ i < Len(up)
               /\ \/ scanRoot \notin {up[j] : j \in 1 .. i}
                  \/ DeclaresSubprojects(t, up[i + 1])
               /\ go[i + 1]
    IN  IF scanRoot = None THEN HoldsCatalog(t, dir) ELSE go[1]

(* Whether a catalog the scan reads already declares what the script in    *)
(* `dir` would: its own, or that of a build above that declares            *)
(* subprojects.  Past `scanRoot` the walk moves only onto such a build.    *)
IsSuperseded(t, dir, scanRoot) ==
    LET up == PathUp[dir]
        go[i \in DOMAIN up] ==
            \/ (i = 1 \/ DeclaresSubprojects(t, up[i])) /\ HoldsCatalog(t, up[i])
            \/ /\ ~IsBuildRoot(t, up[i]) /\ ~HasGit(t, up[i])
               /\ i < Len(up)
               /\ \/ scanRoot \notin {up[j] : j \in 1 .. i}
                  \/ DeclaresSubprojects(t, up[i + 1])
               /\ go[i + 1]
    IN  IF scanRoot = None THEN HoldsCatalog(t, dir) ELSE go[1]

(* The directories a scan of `root` to a depth enters.                     *)
Entered(t, root, depth) ==
    {d \in Dirs : LET up == PathUp[d]
                  IN  \E n \in DOMAIN up :
                        /\ up[n] = root /\ n - 1 <= depth
                        /\ \A i \in 1 .. n - 1 : up[i] \notin t.skipped}

Manifests(t, root, depth) ==
    {m \in [dir : Entered(t, root, depth), name : UNION {Present(t, d) : d \in Dirs}] :
        IsFile(t, m.dir, m.name) /\ Detect(m.name) # None}

(* Files seen whose dependencies are not read.  `enabled` is the set of    *)
(* ecosystems the run asked for.                                           *)
ManifestNotices(t, root, depth, enabled) ==
    {m \in [dir : Entered(t, root, depth), name : BuildScripts] :
        /\ IsFile(t, m.dir, m.name)
        /\ "Jvm" \in enabled
        /\ ~IsSuperseded(t, m.dir, root)}

Discover(t, root, depth, enabled) ==
    [manifests |-> Manifests(t, root, depth),
     notices   |-> ManifestNotices(t, root, depth, enabled)]

-----------------------------------------------------------------------------
(* Mutant: a dependency list is adopted from a directory above.            *)
AdoptableFromAbove(lockfile, i) == TRUE

(* Lockfiles.  A lockfile that IS the dependency list belongs to the       *)
(* package beside it and to no other.                                      *)
AdoptableFrom(lockfile, i) == IsDependencySource(lockfile) => i = 1

(* Every candidate of a directory is tried before the directory above.     *)
SearchUp(t, dir, kind, Accepts(_, _)) ==
    LET up   == PathUp[dir]
        lock == Lockfiles(kind)
        hit(i, c) == AdoptableFrom(lock[c], i) /\ Accepts(up[i], lock[c])
        at   == {i \in Repository(t, dir) : \E c \in DOMAIN lock : hit(i, c)}
    IN  IF at = {} THEN None
        ELSE LET i == First(at)
             IN  [dir  |-> up[i],
                  name |-> lock[First({c \in DOMAIN lock : hit(i, c)})]]

LocateLockfile(t, dir, kind) ==
    SearchUp(t, dir, kind, LAMBDA d, name : IsFile(t, d, name))
FindLockfile(t, dir, kind) ==
    SearchUp(t, dir, kind, LAMBDA d, name : Parses(t, d, name))

(* Mutant: a lockfile that is not there is nothing to report.              *)
LockfileNoticesIfThere(t, dir, kind) ==
    {[dir |-> dir, name |-> l,
      unread |-> IsDependencySource(l) /\ ~Parses(t, dir, l)] :
        l \in {l \in Elems(Lockfiles(kind)) :
                 IsFile(t, dir, l) /\ t.at[dir][l] # "Full"}}

(* What is wrong with the lockfiles beside a manifest.                     *)
LockfileNotices(t, dir, kind) ==
    {[dir |-> dir, name |-> u, unread |-> FALSE] :
        u \in {u \in UnreadableLockfiles(kind) : IsFile(t, dir, u)}}
    \cup
    {[dir |-> dir, name |-> l,
      unread |-> IsDependencySource(l) /\ ~Parses(t, dir, l)] :
        l \in {l \in Elems(Lockfiles(kind)) :
                 IF IsFile(t, dir, l) THEN t.at[dir][l] # "Full"
                 ELSE IsDependencySource(l)}}

-----------------------------------------------------------------------------
(* Workspaces.                                                             *)
DeclaresWorkspace(t, d, name) ==
    Reads(t, d, name) /\ Detect(name) = "CargoToml" /\ t.at[d][name] = "Full"

(* The nearest root above a manifest that is not the manifest itself.      *)
NearestWorkspaceRoot(t, m) ==
    LET up == PathUp[m.dir]
        root(i) == {n \in WorkspaceRoots(Detect(m.name)) :
                      [dir |-> up[i], name |-> n] # m
                      /\ DeclaresWorkspace(t, up[i], n)}
        at == {i \in Repository(t, m.dir) : root(i) # {}}
    IN  IF at = {} THEN None
        ELSE [dir |-> up[First(at)], name |-> CHOOSE n \in root(First(at)) : TRUE]

(* The root a manifest inherits from: itself, when it declares one.        *)
WorkspaceRootOf(t, m) ==
    IF m.name \in WorkspaceRoots(Detect(m.name)) /\ DeclaresWorkspace(t, m.dir, m.name)
    THEN m ELSE NearestWorkspaceRoot(t, m)
=============================================================================
