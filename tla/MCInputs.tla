------------------------------ MODULE MCInputs ------------------------------
(* A small repository for module CheckPath: out > top > sub > leaf, with   *)
(* `vendor` skipped under top; what small registries serve; and checks of  *)
(* up to two manifests to be printed.                                      *)
EXTENDS CheckPath, Registries, Renderers, MCPapers

CONSTANTS out, top, sub, leaf, vendor, serde, tokio

MCDirs   == {out, top, sub, leaf, vendor}
MCParent == (out :> None) @@ (top :> out) @@ (sub :> top) @@ (leaf :> sub)
            @@ (vendor :> top)

F(d, n) == [dir |-> d, name |-> n]
MCPaths == <<F(top, "Cargo.toml"), F(top, "Package.swift"),
             F(leaf, "Cargo.toml"), F(sub, "Cargo.toml"), F(sub, "pom.xml"),
             F(vendor, "Cargo.toml"), F(sub, "package.json")>>

MCTextOrder == <<1, 10, 9>>

NoText == [items |-> {}, versions |-> <<>>, pins |-> {}]
Items(S)  == [NoText EXCEPT !.items = S]
Locks(f)  == [NoText EXCEPT !.versions = f]
Pins(S)   == [NoText EXCEPT !.pins = S]

Dep(n, source, constraint) ==
    [name |-> n, kind |-> "Normal", source |-> source,
     constraint |-> constraint, locked |-> None]
Decl(n, source, constraint) == [Dep(n, source, constraint) EXCEPT !.kind = "Workspace"]

(* A tree from a set of files [dir, name, state, text].                    *)
Tree(files) ==
    [at |-> [d \in Dirs |-> [n \in {f.name : f \in {f \in files : f.dir = d}} |->
                (CHOOSE f \in files : f.dir = d /\ f.name = n).state]],
     text |-> [d \in Dirs |-> [n \in {f.name : f \in {f \in files : f.dir = d}} |->
                (CHOOSE f \in files : f.dir = d /\ f.name = n).text]],
     skipped |-> {vendor}]
File(d, n, state, text) == [dir |-> d, name |-> n, state |-> state, text |-> text]
Bare(d, n) == File(d, n, "Full", NoText)

(* A Cargo workspace whose root declares serde in each of several ways.    *)
RootTexts == {Items({Decl(serde, "Registry", {1, 9}), Dep(tokio, "Registry", {10})}),
              Items({Decl(serde, "Local", None), Decl(tokio, "Registry", None)}),
              Items({})}
MemberText == Items({Dep(serde, "Inherited", None), Dep(tokio, "Inherited", None)})
LeafText   == Items({Dep(serde, "Inherited", None), Dep(tokio, "Registry", Garbled)})
PomText    == Items({Dep(serde, "Inherited", None), Dep(tokio, "Inherited", {9})})
LockTexts  == {Locks((serde :> {1, 10}) @@ (tokio :> {9, 10})), Locks((tokio :> {1}))}

CargoTrees ==
    {Tree({File(top, "Cargo.toml", "Full", root), Bare(top, ".git"),
           File(sub, "Cargo.toml", "Plain", MemberText),
           File(leaf, "Cargo.toml", "Plain", LeafText),
           Bare(vendor, "Cargo.toml"), Bare(out, "Cargo.toml"),
           File(top, "Cargo.lock", lockState, lock)}) :
        root \in RootTexts, lockState \in {"Full", "Broken", "Unreadable"},
        lock \in LockTexts}
    \cup
    {Tree({File(top, "Cargo.toml", "Full", root), Bare(top, ".git"),
           File(sub, "Cargo.toml", "Plain", MemberText),
           File(top, "Cargo.lock", "Full", Locks(serde :> {1, 10})),
           File(sub, "Cargo.lock", lockState, Locks(serde :> {9}))}) :
        root \in RootTexts, lockState \in {"Full", "Broken", "Unreadable"}}
    \cup
    {Tree({File(sub, "Cargo.toml", state, MemberText), Bare(sub, ".git"),
           File(leaf, "Cargo.toml", "Plain", LeafText),
           File(sub, "pom.xml", "Plain", PomText)}) :
        state \in {"Plain", "Unreadable", "Broken"}}

SwiftPins == {[from |-> "remote", identity |-> serde, location |-> tokio, version |-> 1],
              [from |-> "remote", identity |-> serde, location |-> None, version |-> None],
              [from |-> "registry", identity |-> tokio, location |-> None, version |-> 9],
              [from |-> "path", identity |-> None, location |-> tokio, version |-> None]}

SwiftTrees ==
    {Tree({Bare(top, "Package.swift"), File(top, "Package.resolved", state, Pins(SwiftPins)),
           File(out, "Package.resolved", "Full", Pins(SwiftPins))}) :
        state \in {"Full", "Plain", "Broken", "Unreadable", "Directory"}}

MCTrees == CargoTrees \cup SwiftTrees

MCEdits ==
    {File(top, "Cargo.toml", "Full", text) : text \in RootTexts}
    \cup {File(top, "Cargo.toml", "Plain", NoText),
          File(top, "Package.resolved", "Full", Pins(SwiftPins)),
          File(top, "Package.resolved", "Broken", NoText)}

Run(path, locks) ==
    [path |-> path, depth |-> 3, locks |-> locks, enabled |-> Ecosystems,
     asked |-> {}, manifest |-> None]
MCRuns == {Run(top, TRUE), Run(top, FALSE), Run(sub, TRUE),
           [Run(top, TRUE) EXCEPT !.enabled = {"Swift", "Jvm"}],
           [Run(top, TRUE) EXCEPT !.asked = {"Rust"}, !.depth = 1],
           [Run(top, TRUE) EXCEPT !.manifest = F(leaf, "Cargo.toml")]}

(* Trees for the questions a tree alone answers.                           *)
Marks == {"settings.gradle", "libs.versions.toml", ".git"}
ScriptTrees ==
    {Tree({Bare(leaf, "build.gradle"), Bare(sub, "build.gradle.kts"), Bare(vendor, "build.gradle")}
          \cup {Bare(x[1], x[2]) : x \in S}) :
        S \in SUBSET ({top, sub, leaf} \X Marks)}

LockStates == {"Absent", "Unreadable", "Broken", "Full"}
LockTrees ==
    {Tree({f \in {File(leaf, "package-lock.json", a, NoText), File(leaf, "bun.lock", b, NoText),
                  File(sub, "package-lock.json", c, NoText), File(sub, "bun.lock", b, NoText),
                  File(leaf, "Package.resolved", a, NoText),
                  File(top, "bun.lock", "Full", NoText), File(top, "Package.resolved", "Full", NoText)}
             : f.state # "Absent"} \cup g) :
        a, b, c \in LockStates, g \in {{}, {Bare(leaf, ".git")}, {Bare(sub, ".git")}}}

(* The questions of a single tree need no run.                             *)
TreeOnly ==
    /\ tree \in ScriptTrees \cup LockTrees
    /\ run = Run(top, TRUE)
    /\ pc = "done" /\ todo = {} /\ doing = Nothing
    /\ wsCache = <<>> /\ reports = {} /\ edits = 0

-----------------------------------------------------------------------------
(* What a registry may serve: two releases, each as it may be listed, over *)
(* one document or pages; and the documents that describe a package.       *)
Rel(n, legible, readable, yanked, dates) ==
    [version |-> n, legible |-> legible, readable |-> readable, yanked |-> yanked,
     dates |-> dates, licenses |-> IF n = 2 THEN <<"MIT">> ELSE <<>>]
Shapes(n) == {Rel(n, TRUE, TRUE, {FALSE}, {n}), Rel(n, FALSE, TRUE, {FALSE}, {}),
              Rel(n, TRUE, FALSE, {FALSE}, {}), Rel(n, TRUE, TRUE, {TRUE}, {n, n + 1}),
              Rel(n, TRUE, TRUE, BOOLEAN, {n, n + 1}), Rel(n, TRUE, TRUE, {}, {})}
Two == {{}} \cup {{r} : r \in Shapes(1) \cup Shapes(2)} \cup {{r, s} : r \in Shapes(1), s \in Shapes(2)}
Replies == {NoReply, 404, 410, 451, 429, 500}

Person(name, email) == [name |-> name, login |-> Unsent, email |-> email]
Quiet == [registry |-> "hex", want |-> "versions", status |-> 200, releases |-> {}, tag |-> Unsent,
          pages |-> <<>>, latest |-> [status |-> 200, release |-> Rel(2, TRUE, TRUE, {FALSE}, {})],
          root |-> "default", first |-> Unsent, touched |-> 9, whole |-> TRUE, owners |-> 200,
          people |-> <<>>, expression |-> Unsent, classifiers |-> <<>>, text |-> Unsent,
          licenses |-> <<>>, addressed |-> TRUE, named |-> TRUE, past |-> {}]

OneDocument == {"crates.io", "npm", "jsr", "pypi", "packagist", "hex", "pub.dev", "maven"}
Documents ==
    {[Quiet EXCEPT !.registry = r, !.releases = S, !.tag = t] :
        r \in OneDocument, S \in Two, t \in {Unsent, 1}}
    \cup {[Quiet EXCEPT !.registry = r, !.status = s] : r \in OneDocument, s \in Replies}
    \cup {[Quiet EXCEPT !.registry = "maven", !.addressed = FALSE, !.status = s] : s \in {200} \cup Replies}
    \cup {[Quiet EXCEPT !.registry = "packagist", !.named = FALSE, !.releases = S] : S \in Two}
Page(s, S) == [status |-> s, releases |-> S]
Paged ==
    {[Quiet EXCEPT !.registry = "nuget", !.releases = S, !.pages = <<Page(s, a), Page(t, b)>>] :
        S \in {{}, {Rel(3, TRUE, TRUE, {FALSE}, {})}}, s, t \in {200, 404, 500},
        a \in {{}, {Rel(1, TRUE, TRUE, {FALSE}, {})}},
        b \in {{Rel(2, TRUE, TRUE, {FALSE}, {})}, {Rel(2, FALSE, TRUE, {FALSE}, {})}}}
    \cup {[Quiet EXCEPT !.registry = "nuget", !.status = s] : s \in Replies}
Proxied ==
    {[Quiet EXCEPT !.registry = "go", !.releases = S, !.latest.status = t] :
        t \in {200} \cup Replies, S \in {{}} \cup {{r} : r \in {r \in Shapes(1) : r.legible}}}
    \cup {[Quiet EXCEPT !.registry = "go", !.status = s, !.latest.status = t] :
              s \in Replies, t \in {200} \cup Replies}
Datings == {{Rel(1, TRUE, TRUE, {FALSE}, x), Rel(2, TRUE, TRUE, {FALSE}, y)} : x, y \in {{}, {3, 4}}}
About == [Quiet EXCEPT !.want = "metadata", !.first = 2,
             !.people = <<Person("a", Unsent), Person("a", Unsent), Person(Unsent, Unsent)>>]
Described ==
    {[About EXCEPT !.registry = r, !.releases = S, !.root = root, !.tag = t, !.owners = o] :
        r \in {"crates.io", "npm", "hex", "packagist", "maven"}, S \in Datings,
        root \in {"default", "alternate"}, t \in {Unsent, 1}, o \in {200, 500}}
    \cup {[About EXCEPT !.registry = "npm", !.releases = S, !.tag = t, !.past = {Rel(5, TRUE, TRUE, {FALSE}, d)}] :
        S \in Datings \cup {{}}, t \in {Unsent, 1, 5}, d \in {{}, {6}}}
    \cup {[About EXCEPT !.registry = "packagist", !.releases = S, !.named = FALSE] : S \in Datings}
    \cup {[About EXCEPT !.registry = r, !.status = s] : r \in PublishesMetadata, s \in Replies}
    \cup {[About EXCEPT !.registry = "pypi", !.releases = S, !.whole = w, !.expression = e,
                        !.classifiers = c, !.text = x] :
        S \in Datings, w \in BOOLEAN, e \in {Unsent, "MIT"}, x \in {Unsent, "short", "long"},
        c \in {<<>>, <<"MIT", "Apache-2.0", "MIT">>, <<"Other">>}}
SomeServed == Documents \cup Paged \cup Proxied \cup Described

-----------------------------------------------------------------------------
(* Finished checks: rows of every status, vulnerable ones rated, labelled  *)
(* or only named, printed by a run that stands in one of several places.   *)
Rating(id, score, label, day) == Record(id, score, label, FALSE, day)
Row(name, status, line) ==
    [name |-> name, status |-> status, line |-> line, ids |-> <<>>, known |-> <<>>]
Hit(name, line, ids, known) ==
    [Row(name, "Vulnerable", line) EXCEPT !.ids = ids, !.known = known]

AllRows ==
    {Row(1, "UpToDate", 1), Row(2, "PatchAvailable", 2), Row(3, "UpdateAvailable", 3),
     Row(4, "Outdated", 4), Row(5, "Error", Missing), Row(6, "Undetermined", Missing),
     Row(7, "Git", 7), Hit(8, 8, <<1, 2>>, <<Rating(1, 98, Missing, 5), Rating(2, Missing, 2, 3)>>),
     Hit(9, Missing, <<3>>, <<>>), Hit(1, 4, <<4, 4>>, <<Rating(4, 55, 4, Missing)>>),
     Hit(2, 5, <<5, 6>>, <<Rating(5, 0, Missing, 9), Record(6, 75, Missing, TRUE, 4)>>)}

Beside == {<<>>, <<Row(1, "UpToDate", 1)>>, <<Row(3, "UpdateAvailable", 9), Row(6, "Undetermined", 2)>>,
           <<Hit(8, 2, <<1>>, <<Rating(1, 98, Missing, 5)>>), Row(5, "Error", 3), Row(4, "Outdated", 2)>>}

Path(rooted, parts) == [rooted |-> rooted, parts |-> parts]
Report(path, ecosystem, unread, rows) ==
    [path |-> path, ecosystem |-> ecosystem, unread |-> unread, rows |-> rows]
Scan(read, workspace, cwd, annotate, existing) ==
    [inventory |-> FALSE, reports |-> read, workspace |-> workspace, cwd |-> cwd,
     annotate |-> annotate, existing |-> existing]

Here     == Path(TRUE, <<"w", "app">>)
Relative == Path(FALSE, <<".", "app", "m">>)

RowScans ==
    {Scan(<<Report(Relative, "rust", rows = <<>>, rows),
            Report(Path(FALSE, <<"m">>), x.ecosystem, x.unread, b)>>,
          Missing, Here, TRUE, x.existing) :
        rows \in UNION {[1 .. k -> AllRows] : k \in 0 .. 2}, b \in Beside,
        x \in {[ecosystem |-> "rust", unread |-> FALSE, existing |-> 0],
               [ecosystem |-> "npm",  unread |-> TRUE,  existing |-> 8],
               [ecosystem |-> "rust", unread |-> FALSE, existing |-> 30]}}

PathScans ==
    {Scan(IF two THEN <<Report(p, "rust", FALSE, r), Report(q, "rust", TRUE, <<>>)>>
          ELSE <<Report(p, "rust", FALSE, r)>>, w, c, a, 0) :
        p, q \in {Relative, Path(TRUE, <<"w", "app", "..", "m">>), Path(FALSE, <<"..", "..", "m">>),
                  Path(TRUE, <<"m">>), Path(FALSE, <<".", "m">>)},
        r \in {<<Hit(9, 1, <<3>>, <<>>)>>}, two, a \in BOOLEAN,
        w \in {Missing, Path(TRUE, <<"w">>), Path(TRUE, <<"w", ".", "app">>)},
        c \in {Here, Path(TRUE, <<"w", "app", "src">>)}}

Inventories ==
    {[Scan(<<Report(Relative, "rust", FALSE, a), Report(Path(FALSE, <<"m">>), e, FALSE, b)>>,
           Missing, Here, FALSE, 0) EXCEPT !.inventory = TRUE] :
        a, b \in Beside \cup {<<Row(1, "Git", 1), Row(3, "UpToDate", 2)>>}, e \in {"rust", "npm"}}

SomeScans == RowScans \cup PathScans \cup Inventories

-----------------------------------------------------------------------------
NoLookup == stage = "off" /\ served = Quiet /\ waiting = {} /\ heard = {} /\ answer = Unset
NoTree ==
    /\ tree = Tree({}) /\ run = Run(top, TRUE)
    /\ pc = "done" /\ todo = {} /\ doing = Nothing
    /\ wsCache = <<>> /\ reports = {} /\ edits = 0

NoScan ==
    /\ turn = "off" /\ scan = Missing /\ screen = Missing /\ annotated = Missing
    /\ stepFile = Missing /\ page = Missing /\ listing = Missing

NoPaper ==
    /\ desk = "off" /\ paper = Paper("swift", <<>>, <<>>)
    /\ found = {} /\ prior = {} /\ stroke = NoStroke
NoScanner == manuscript = Loose(<<>>) /\ scanner = [Scanner(<<>>) EXCEPT !.expects = FALSE]

MCvars == <<vars, lookupVars, renderVars, parserVars, scanVars>>

MCInit == \/ (Init \/ TreeOnly) /\ NoLookup /\ NoScan /\ NoPaper /\ NoScanner
          \/ NoTree /\ LookupInit /\ NoScan /\ NoPaper /\ NoScanner
          \/ NoTree /\ NoLookup /\ RenderInit /\ NoPaper /\ NoScanner
          \/ NoTree /\ NoLookup /\ NoScan /\ ParserInit /\ NoScanner
          \/ NoTree /\ NoLookup /\ NoScan /\ NoPaper /\ JsonInit

(* One part of the system moves in a behaviour; a finished one may rest.   *)
Resting ==
    \/ stage = "answered" \/ turn = "printed"
    \/ desk \in {"refused", "read", "reread"}
    \/ manuscript # Loose(<<>>) /\ Ended(scanner)

MCNext == \/ /\ stage = "off" /\ turn = "off" /\ desk = "off" /\ manuscript = Loose(<<>>)
             /\ Next /\ UNCHANGED <<lookupVars, renderVars, parserVars, scanVars>>
          \/ stage # "off" /\ LookupStep /\ UNCHANGED <<vars, renderVars, parserVars, scanVars>>
          \/ turn # "off" /\ RenderNext /\ UNCHANGED <<vars, lookupVars, parserVars, scanVars>>
          \/ desk # "off" /\ ParserNext /\ UNCHANGED <<vars, lookupVars, renderVars, scanVars>>
          \/ JsonStep /\ UNCHANGED <<vars, lookupVars, renderVars, parserVars>>
          \/ Resting /\ UNCHANGED MCvars
MCSpec == MCInit /\ [][MCNext]_MCvars
=============================================================================
