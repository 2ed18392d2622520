# A formal model of `dependable`

`dependable` checks the dependencies that a project's manifests declare: it asks
package registries which versions exist, asks OSV which of them are vulnerable,
reports what is behind, exits with a code a CI job can gate on, rewrites
constraints (`dependable fix`), and browses the whole in a terminal.

This directory holds TLA+ modules that model the parts of it with the most
state, concurrency and failure, the TLC configurations that check them on small
instances, and theorems about them that TLAPS proves for every instance. Every
definition is translated from the source; `PROJECT.json` maps each one to the
lines it stands for. Paths below are relative to `crates/`.

## The system

| Component | State it keeps | Operations | Talks to |
|---|---|---|---|
| `Checker` (`dependable-fetch/src/check.rs`) | two in-memory caches, the disk cache, the progress counter | `check_manifest` → `check_inner` → `fetch_all`, `fetch_versions`, `fetch_metadata`, `enrich_advisories`, `scan_package` | registries, OSV, the disk; called by the CLI and the TUI |
| Caches (`cache.rs`) | moka maps with a time to live; one JSON file per package, shared by all processes of a user | `get`, `put` | the file system |
| Retry (`retry.rs`, `error.rs`) | attempt count | `with_retry`, `is_transient`, `is_permanent_absence` | every registry and OSV call |
| OSV client (`osv/client.rs`, `osv/advisory.rs`, `osv/cvss.rs`) | batch cache, detail cache | `query_batch`, `query_detail` | OSV |
| Registry clients (`registries/*`) | an HTTP client each; the pages of a lookup under way | `fetch_versions`, `fetch_metadata`: one exchange, or several joined as they land | registries |
| Status evaluation (`dependable-core/src/semver/*`) | none | `evaluate`, constraint translation | called per row |
| Parsers, lockfiles (`dependable-core/src/{parsers,lockfiles}`) | none; a scanner's cursor | text → items with the spans a rewrite may touch, locked versions, edges | files |
| Graph and tree (`dependable-core/src/graph.rs`, `dependable-fetch/src/tree.rs`) | a resolved graph | build, invert, walk | lockfiles, the TUI, `dependable tree` |
| Discovery, workspaces (`dependable-fetch/src/discover.rs`, `dependable-core/src/manifest.rs`) | a file tree walk | find manifests and lockfiles, inherit workspace versions | files |
| `check` and its gates (`dependable/src/runner.rs`, `dependable-report/src/policy.rs`) | the reports of the run | `run_check`, `partition`, `gate_is_answerable`, `exit_code`, `evaluate` (policy) | the `Checker` |
| `fix` (`dependable/src/fix.rs`, `runner.rs`) | the plans of the run | `plan_fixes`, `plan`, `apply_edits`, `commit` | manifests on disk, editors beside it |
| TUI (`dependable-tui/src/*`) | the `App`, a pending selection, a frame | `event_loop`, `App::apply`, lookups | the `Checker`, through a channel |
| Outputs (`dependable/src/output/*`, `dependable-report/src/*`) | the job summary file, shared with other commands | table, JSON, SARIF, annotations, summary, HTML, `list` | stdout, stderr, files |
| Command line, configuration (`cli.rs`, `config.rs`, `features.rs`, `licenses.rs`, `npmrc.rs`) | resolved settings, routes and credentials | parsing and merging | the files and the environment |

### Where it is hard

* **Interleaving.** Lookups run in a pool and answer in any order; several
  processes share the files of the disk cache with no lock; the TUI's loop,
  discovery and lookups interleave freely; an editor may save a manifest in the
  middle of a `fix`.
* **Unreliable answers.** OSV answers a batch short, pages a record list without
  end, fails, and changes what it holds between two requests of one check.
* **Stale state.** Two caches stacked on one another; a cache keyed by less than
  what identifies an answer; a manifest read three times in one `fix`; a click
  resolved against the frame before last.
* **Partial failure.** One request of many fails, one manifest of many cannot be
  written, an advisory's record does not arrive: a gate must not take what is
  missing for what is clean.
* **Crashes.** A kill truncates a cache file; a kill stops a `fix` between two
  manifests.
* **Long sequences.** `fix` run after run over months of releases must not drift.
* **Boundaries.** Carets below 1.0.0, partial versions, scores and bands, the largest
  segment of a version, GitHub's caps and size limit.
* **Several readers of one thing.** Two searches for a lockfile, two reads of the
  configuration, `list` and `check`, five output formats: each can disagree with the next.
* **Sharing.** One property gives many dependencies their version; one lockfile entry is
  installed at two places; a credential belongs to one host.
* **Shapes.** Cycles, two versions of one crate, repeats, nested workspaces: one walk
  draws them collapsed, cut at a depth, filtered or with paths open.

`PROJECT.json` lists each hazard at its line with the properties aimed at it.

### What makes each component correct

* Lookup: every row is answered, once, by the registry it is routed to, about the
  package it names, no older than promised; failures are named by route.
* Fix: a rewrite keeps what the author's range means, lands on the dependency it
  was planned for, and never over somebody else's save; the report is what happened.
* Gates: exit 0 means what the documentation says it means, whatever failed.
* TUI: what is on screen is what is known; a spinner ends.
* OSV client: a version is certified clean only by a complete answer, the records
  explain the IDs, and every call ends.
* Graph: the tree shows every edge, its markers lead to what they promise, a search
  shows every match, and a walk ends within its bounds.
* Workspace graph: every crate is found once and read against its own root.
* Discovery: what decides which files are read agrees with what the user is told of
  them; all members of a workspace inherit one set of declarations.
* Parsers: a dependency is reported as it is stated, and a span is given only to its
  sole reader.
* Dialects: a translated range admits nothing its author excluded, and what is
  reported was published.
* Registries: the whole list or an error; absence only when it was said.
* Settings: a gate that was configured is enforced or refused; a token stays at home.
* Outputs: no surface denies what another says, and what is cut off is announced.

## The modules

### `Checker` — the version lookup

A *process* is one run of the program, with one `Checker`; it checks the
manifests of `Manifests[p]` one by one. Within one manifest `phase` follows
`check_inner` and `fetch_all`: `lookup` (each task is looked for in memory, then
on disk), `fetch` (the misses go through `buffer_unordered(Concurrency)`, each
under `with_retry`), `store` (outcomes are put in the caches and in the
`FetchedMap`), `reported`. `TaskIndices` is the de-duplicated task list,
`RouteItem` is `route_item`: which registry an item is asked of and which cache
key the answer is kept under. The processes share only `disk`.

| Action | Code |
|---|---|
| `StartManifest` | the task list of `check_inner` |
| `MemoryHit`, `DiskHit`, `CacheMiss` | the lookups of `fetch_all`; a disk hit is copied into memory |
| `BeginFetching`, `StartCall`, `BackOff`, `Retry`, `Settle` | the pool, `with_retry`, the progress event |
| `BeginStoring`, `StoreAnswer`, `StoreFailure`, `Report` | the loop over the outcomes |
| `EndPut` | `DiskCache::put`'s write, after the truncation `StoreAnswer` made |
| `Crash`, `Restart`, `Tick` | a kill, the next run, time |

A version list is abstracted to where it came from, which package it is of, and
when it was stored: that is all the properties tell apart. A write to the disk
cache is two steps (truncate, then bytes) and may leave a file that does not
parse (`Torn`).

`VersionService` is the abstract specification: a client asks questions, each is
settled once, by the registry it belongs to, with a bounded age, or by a failure
that flags its key. No cache, pool, retry or file occurs in it.
`Checker!ImplementsService` is the refinement, with the mapping at the end of
`Checker`. `CheckerProofs` holds the theorems, the refinement among them.
`NothingAssumption` says that the value which stands for no entry is not one.

### `Constraint` and `Upgrade` — what a rewrite means

`Constraint` holds pure definitions: what a constraint admits in each of the three
readings of a bare version (caret, exact, minimum), how `evaluate` classifies a
dependency, and how `plan_fixes` and `rewrite_constraint` rewrite or decline one.
`Upgrade` puts one dependency through its life: releases are published and
yanked, a build locks one, and `dependable fix` runs with any flags, any number
of times. Versions are final releases; unions and pre-releases are left out.
`NoneAssumption` says that the value which stands for no release is not one.
`FixProofs` holds the theorems, for the operators that name a floor.

### `Fix` — one `dependable fix` beside an editor

`run_fix` checks and plans every manifest before it writes the first. The check
parses one reading of a file, the plan splices into a second, the commit compares
a third and renames. `CheckManifest`, `CheckUnread`, `SkipManifest`, `FailCheck`,
`PlanManifest`, `FailPlan` are the first loop, `PassOver`, `Report`, `Reread`,
`RefuseCommit`, `Rename`, `FailWrite` the second, `Finish` the closing line;
`Save` is an editor, `Kill` a kill. Writing the temporary file changes nothing
anybody sees, so a commit is a re-read and a rename. A dependency's texts are
`TextsOf`; `FixAssumption` keeps the text `fix` writes for one apart from the
texts of the others, and the layouts a run starts from are written in own texts.
`FixProofs` holds the theorems.

### `Gate` — what the exit code means

`project` is the truth about the dependencies (what a registry would say, which
advisories exist, whether a lockfile pins them). `Begin`, `CheckVersions`,
`ScanFails`, `ScanVulnerabilities` and `EnrichAdvisories` turn it into reports,
losing whatever the failing calls lose; `JudgePolicy` and `JudgeGate` decide from
the reports alone. The properties compare the verdict with the truth.
`GateProofs` holds the theorems.

### `TuiLoop` — the interactive browser

`pc` follows one turn of `event_loop`: `Draw`, `Pump` (drain the channel, start
the settled lookup), `Poll` (at most one input: `Move`, `Rearrange`, `SetMode`,
`Refresh`, `OpenLink`, `Hover`, `Resize`, `Timeout` or `Quit`). Discovery
(`SendNotice`, `SendProjects`) and the lookups (`FetchMetadata`,
`FetchVersions`) only send messages. The tree is abstracted to the sequences of
rows it can show. `TuiLoopProofs` holds the theorems.

### `OsvClient` — advisories

*Callers* share one client: the checks of manifests, which enrich what they
find, and the browser's lookups, which scan one package and enrich nothing. A
caller's `at` follows `query_batch` under `scan_vulnerabilities` or
`scan_package`, and then `enrich_advisories`. What OSV answered in full is kept
in `told`, a history no action reads: it is what the properties compare with.

| Action | Code |
|---|---|
| `Serve`, `BeginPosting` | the loop over the queries: from the ID cache, or pending |
| `Posted`, `PostAgain`, `GiveUp` | one chunk of `MAX_BATCH`: answered in full, retried, or the whole scan given up (a short answer is such an error) |
| `Flip` | the results folded onto the rows, by all spellings of a name |
| `StartDetail`, `LookForClean` | a `query_detail` call starts while the stream has room: a look at the record cache (`client.rs:237`), then one at the ID cache (`client.rs:240`) |
| `Page`, `FailDetail` | its requests: pages to `MAX_DETAIL_PAGES`, or a failure |
| `StoreRecords`, `BackfillIds` | the list stored (`client.rs:294`), then the ID cache filled in (`client.rs:299`) |
| `Collect` | the records attached, the first failure reported |
| `Revise`, `Expire` | external: OSV's database changes; a cache entry is evicted |

An advisory is its ID; whether it starts with `GHSA-` decides whether it counts
(`Counted`). A page that brings no record and a token changes nothing but the
page counter. A detail query awaits each of its four dealings with the caches, and the
other callers' steps fall in between: each is an action of its own. (The entries of a
chunk are awaited one by one too. No property relates two of them, so `Posted` stores
them together.) `overtaken` is a history no action reads either: the queries to whose
question a cache got an answer after they had looked there. `OsvClientProofs` holds the
theorems.

### `Graph` and `Workspace` — the dependency tree

`Graph` is `from_resolved` (references resolved by name and version, or by name alone, as
`resolve` does, which drops the source of the third form, `name version (source)`, so the
model has two; the first package of each identity kept), `inverted`, and `Walker::visit`. The recursion is a
stack of frames: `Enter` hands an appearance to the visitor with its `Placement`
(in full, a cycle, a pointer to a root's own tree, a repeat, cut by the depth, or
closed) and descends; `Skip` is the filter, `Stop` the visit budget and the
recursion ceiling, `Leave` and `Finish` the returns. The same walk draws
`dependable tree` and the browser's rows (`rows.rs`), whose search box is
`Searched`: the paths to every match, kept and opened.

`Workspace` is `build_workspace_graph`: `Locate` climbs to the workspace root,
`Descend` enters the directories below it (`todo` is the recursion of
`Walk::descend`), keeping for each crate the `[workspace]` that governs it and
one crate per name; `Reject` is a lockfile that does not parse, `Assemble` hands
the lockfile's packages, or a shallow graph of what the crates declare, to
`Graph`. `MCTree` instantiates both: one run walks given lockfiles and scanned
layouts.

### `TreeOutput` — what `dependable tree` prints

`Ascii`, `Json` and `Dot` are the three formats of `output/tree.rs`, made from the finished
walk: nested lines with the mark of a pointer or of a repeat, and, after `Flatten`, nodes
under new numbers with the edges between them. `TreeTellsAll` adds to what the walk
promises (`WalkTellsAll`) that a document read back by its numbers is the graph the roots reach, and that
the drawn tree has the same edges and marks every subtree it leaves out.

### `LockGraphs` — the graphs of the other ecosystems

`BuildProjectGraph` is `build_manifest_graph`: the packages of an npm, bun, composer or
mix lockfile with the references each makes, or, where none can be read, the manifest's
own declarations under a root. `ResolveInstallPath`, `FollowLink` and `ResolveKey` are the
climbs through install paths; `Graph` walks the result. The properties compare the edges
with where Node would look (`NodeFinds`, `BunFinds`): for bun only in lockfiles where the
climb meets no scoped namesake (`Unambiguous`), since `resolve_key` steps out of a key
segment by segment. The project itself has an edge for each direct dependency that is
in the graph wherever the lockfile lists none of its needs (`RootSaysWhatItNeeds`); a list
it does have is kept as it is, also where the manifest has gained entries since
(`tree.rs:766` fills in an empty one only).

### `Discovery` and `CheckPath` — which files a run reads

`Discovery` holds pure definitions over one value, the file tree: the walk, the two
searches for a lockfile, the climb to a workspace root, which manifests and build
scripts are named as unread. `CheckPath` is a run over that tree: `CollectManifests`,
then for each manifest `ReadManifest`, `ReadLockfile`, `ReadRoot` (through the cache of
root declarations), `CheckInner` (inheritance, locked versions, pins) and
`ReportNotices`, which looks at the lockfile again. `Edit` is another program writing a
file between any two of them. `TreesAssumption` says what a reader makes of a file: an
entry that inherits states no version in a Cargo manifest, only `go.mod` locks what it
declares, and a lockfile holds versions. `list` and `check` search for the lockfile with
different conditions (one that parses, one that exists), so `ListAndCheckAgree` compares
the locked versions where both searches end at the same file, and everything else always.
Theorems in `InputProofs`.

### `Dialects` — other people's version numbers

`ToSemverConstraint` translates a constraint of seven ecosystems into comparators,
`ToSemver` a published version, `ExactPin` finds a pin, and `EvaluateVersions` goes from
a registry's list to what is reported and back to the name it was published by:
the pre-release filter, Maven's flavours, the version in use. A version is its numbers
and words; `Width` is the largest number a segment holds. Saturation is in the model, but
not in the run, whose numbers (`MaxPart = 2`) stay below `Width = 4`.
The properties compare with each dialect's own reading (`ClauseMeans`).

The way back (`NativeFor`, `check.rs:1653`) ranges over the versions that read, as
`SemverVersion::parse` does: an npm version of four segments is not there, and is never
reported in place of the release its first three segments name. Of several that read alike
the one with the most discarded precision is taken, and of those alike in that too the last
text; `TextOf` is the place of a version's text among all texts, so the choice is total.
`ListsAssumption` says what a list is: only PEP 440 writes epochs, and no two versions have
one text. Theorem in `FixProofs`.

### `Registries` — ten clients

A lookup asks (`Ask`, `NuGetIndex`, `GoList`, `AskMetadata`), may ask more (`PageIn`
in any order, `GoLatest`, `AskOwners`), and answers. What differs between clients is
data: which statuses mean absence, which releases are dropped, what is an error, and
whether there is a request at all: a Maven coordinate that spells no path is `NotFound`
without one (`addressed`). A document may answer another question than the one asked:
Packagist's list may be under another name (`named`), and npm dates releases it no longer
lists (`past`).
`ServedAssumption` says what a registry may serve: finitely many releases, each version
once in a document, nothing to read behind a status that is not a success, pages from
NuGet and dates of past releases from npm alone. Theorem in `InputProofs`.

### `Parsers` and `JsonScan` — manifests

A document is a table of named values, what the project says of itself, and entries, each
in a section; a text is a literal, a reference, a composed value and so on. `Parse` is
all fourteen manifest kinds: which entries are dependencies, of which kind and source, at
which constraint, and in which place a rewrite may touch them. `ReadPaper`, `Rewrite`
(any item that has a place) and `ReadAgain` close the loop: what `fix` writes is read by
the same parser. `JsonScan` is the single-pass scanner under the JavaScript, PHP and Swift
readers, one token per step, on documents whole, cut off anywhere, or malformed. What
a document of JSON holds is the grammar's own reading of it (`Follow`, token by token,
`IsJson`), which knows nothing of the scanner; `ScanAssumption` asks of the documents in
`Manuscripts` that those called JSON are, and TLC evaluates it on all of them. Theorem in
`InputProofs`.

### `Settings` — what a command runs with

`ReadConfig`, `ResolveSettings`, `ResolvePolicy` (which reads the file a second time) and
`Wire` are the start of every command; `EditConfig` is somebody changing the file between
the reads. Flags, `DEPENDABLE_*` variables (set, blank, "0", malformed) and the
file are merged as `runner.rs` and `config.rs` do; two `.npmrc` files and `$CARGO_HOME`
give routes and tokens. `SettingsAssumption` gives the shape of a setup: which values a
flag, a variable, a file or a line of `.npmrc` can have, and that the file's policy under
the variables is some policy. The theorem is in `GateProofs`.

### `Policy` — the rules that are not about advisories

`AttachLicenses` collects the licenses, any of which may fail; `EvaluatePolicy` applies
denied packages, version floors, majors behind and the license allowlist. `Spdx` is the
recursive-descent parser over tokens; the property compares it with the grammar
(`Means`), and the distance in majors with a count one release at a time (`Behind`).

### `Renderers` — what a finished check is turned into

`Render` prints the table, JSON and SARIF, `EmitAnnotations` and `WriteSummary` serve
GitHub, `RenderHtml` and `ListProjects` the other commands. Text is left out except for
the path of a manifest, which a reader has to find back; bytes are counted in lines.

`MCInputs` puts `CheckPath`, `Registries`, `Renderers`, `Parsers` and `JsonScan` in one
run: they share no state, each has its own behaviours, and the run's `MCInit`
chooses which of them moves. `MCUpgrade`, `MCGate` and `MCTree` do the same for
`Upgrade`, `Dialects` and `Fix`, for `Gate`, `Settings` and `Policy`, and for `Graph`,
`Workspace` and `LockGraphs`.

`Lists` holds the one operator `Dialects` and `Registries` share, the elements of a list at
given places (`Picked`), a recursive function about which both can be proved. `NatSets` models
nothing: it is the induction and the recursion over naturals that the proofs need, in terms
of sets.

## The runs

The type invariants of `Upgrade`, `Fix`, `Gate`, `TuiLoop`, `Graph`, `Workspace`
and `OsvClient` are stated in their modules; all but those of `Graph` and `Workspace`
are proved (`WalkInv`, which is, says more of a walk than `Graph`'s).

| Run | Instance | Shows |
|---|---|---|
| `checker_pool` | 1 process, 2 manifests, 5 tasks on 3 routes, 2 slots, 3 attempts, 1 kill, 2 ticks, fairness | every row answered, the unreachable set exact, nothing asked twice, the progress exact, the run ends |
| `checker_age` | 2 processes, 3 checks of two packages whose cache files share a name, 3 ticks, torn writes, kills | every answer is from the right registry about the right package; the two cache lifetimes bound the age; `Checker` implements `VersionService` |
| `checker_alias` (violation) | 2 processes whose configurations give one alias two registries | the second is served the first one's answer |
| `upgrade_range` | `Upgrade`: 3 readings, every constraint of floor operators with components up to 1, 4 releases, 2 listed at once, any history. `Dialects`: constraints of 7 ecosystems, lists of up to three versions. `Fix`: 2 manifests with 3 dependencies, 2 saves anywhere, a kill | ranges keep their meaning, fixes settle, a decline says why; a dialect is read as written and what is reported was published; a fix changes its own versions only, where the texts are distinct and no save removes lines; its report is what it wrote, no save is overwritten but in the last window |
| `upgrade_ceiling` (violation) | `Upgrade` with `<` and `<=` | a rewrite takes releases out of the author's range |
| `gate` | `Gate`: 18 kinds of dependency beside others, all gates; all pairs of 6 advisory records under all severity rules. `Settings`: every command, with each variable, flag and file that bears on a gate or a credential, and an edit. `Policy`: reports of one and two dependencies under each rule, licenses of every grammatical shape | a pass means what it says, `--certify-answered` hides nothing, a policy speaks up; settings are honoured; a broken rule comes up at its level |
| `gate_truncated` (violation) | advisory lists that come back truncated | the missing records pass a severity rule in silence |
| `tui_loop` | a project and a package, two trees, a release, a refresh, a cache expiry, a notice, fairness | spinner, screen, pointer, one lookup per package and refresh; a resting selection is answered |
| `tree` | `Graph`: every graph of two members and a crate, and of a crate in two versions, under the options of `tree` and of the browser. `Workspace`: layouts of three nested roots and a crate beside them, with and without a lockfile. `LockGraphs`: npm, bun, composer and mix locks with two versions, links and scopes. `TreeOutput`: what each finished walk prints | no edge lost, markers lead somewhere, bounds hold, every match shown; tree, JSON and DOT say what the walk found; each crate read against its own root; an edge leads to what is installed (bun: in unambiguous locks), and a root without a list of its own to its direct dependencies; every walk ends |
| `tree_links` (violation) | an npm workspace whose members have no version | the member is replaced by the stub that links it and loses its edges |
| `osv` | a check of one row under two spellings, one per chunk, beside a check that names the first of them, both enriching; 2 attempts, 2 pages, 1 change of OSV's database, 1 eviction at any time | clean needs a complete answer, records explain the IDs, a request is under way only for a row with IDs and only where a cache answered too late, every call ends |
| `inputs` | `CheckPath`: Cargo and Swift trees of five directories, one edit, six command lines; every placing of the marks of a Gradle build, and of two lockfiles in four states, on three levels. `Registries`: two releases in six shapes, seven statuses, pages in any order. `Parsers`: documents of 14 kinds with shared properties, chains, aliases, catalogs, overrides. `JsonScan`: every document of two levels, every prefix of one, a few malformed ones. `Renderers`: up to four rows of eleven kinds, caps of 2 and 3, a size limit, five spellings of a path | no two readers disagree, no answer is invented, no span is shared, the scan is total and says what it lost, no surface denies another |

### Bounds, and why they are enough

`Checker`: the hazards need two processes (one writes while another reads), two
names in one file, three routes (default, alias, JSR), a duplicate, an item
without a version, and a second manifest that finds the first one's answers; two
slots for three tasks so that the pool is full; three attempts so that a failure
can be followed by a retry and by a last attempt; ticks past both lifetimes
(`MemTTL = 2`, `DiskTTL = 1`). The cache lifetimes differ so that neither can
stand for the other. Larger instances of the two central invariants are covered by
proof.

`Upgrade`: components up to 2 with one release on each line a caret keys its bound
off; a bound moves between versions of one component only, so longer versions add
nothing.

`Fix`: two manifests so that one can be written before the other fails; two
dependencies in a manifest so that lines can move.

`Dialects`: three parts and the components `0 .. MaxPart` reach every rule of the
translations (which bound moves, what is padded), but not the saturation of a segment,
since `Width` lies above the parts; a fourth segment and an epoch occur in published versions, and
`TextOf` sorts the texts of those versions (`Alphabetical`).

`Gate`: two manifests and two dependencies are what `--certify-answered` and the
row-wise rules can tell apart; scores lie on both sides of each threshold.

`TuiLoop`: a project row (nothing to look up) beside a package row; the lookups in
flight are bounded by the refresh.

`Graph`: three nodes make every shape the placements tell apart (cycles through a
root and past one, diamonds, a root below another); `MaxWalkDepth` and `MaxSearch`
lie above the longest path without a repeat, so what ends a walk is the logic and
not the ceiling; budgets of 3 and 50 to 60 visits spend it early and never.

`Workspace`: two roots one inside the other and one beside them, one crate name
that several claim; `ScanDepth = 2` is the depth of the deepest chain, so that the
walk reaches all of it: what the real limit cuts off is not in question.

`LockGraphs`: install paths of two levels, a link and a scope make every climb end at the
top, at a sibling and at itself.

`CheckPath`: out > top > sub > leaf gives every relation between a scan root, a workspace
root, a repository boundary and a member; one edit suffices for two reads to disagree.

`Registries`: two releases are enough for one to hide another; two pages for one to fail.

`Parsers`: `MaxHops = 2` (8 in the code) puts chains on both sides of the limit; two or
three entries beside two properties make every way to share a text.

`JsonScan`: `MaxDepth = 2` (256) puts documents on both sides of it.

`Renderers`: `MaxAnnotations = 2` and `MaxRows = 3` (10 and 100), and a limit of 20 lines
with 1 to spare, are each reached, passed and not reached, alone and together.

`Settings` and `Policy`: one setup per source that can speak, and pairs where one
overrules the other; licenses up to the nesting where precedence and parentheses matter.

`OsvClient`: `MaxBatch = 1` makes two chunks of two queries; two attempts make one
retry and one last attempt; two pages make a list cut at the bound; one change is
enough for two answers of one check to disagree. Both callers enrich and share a
package, so each can fill a cache between the other's looks and its request; one
eviction opens every question again that an entry had closed.

`MaxChanges`, `Worlds`, `MaxClock`, `MaxCrashes`, `MaxSaves`, `MaxEdits`, `MaxReleases`,
`MaxRefreshes`, `MaxExpiries`, `MaxListed` and `MaxPart` are bounds of the model,
not of the code.

### Deadlock

Checked in every run. A process that has reported its last manifest, a finished
`fix`, a decided gate, a drawn or rejected tree, callers that are done, a browser
that quit, a lookup answered, a document read and a page printed stutter explicitly.
`MCGate` and `MCUpgrade` do so for settings, judged reports and questions.

### Fairness

`Checker!FairSpec` assumes weak fairness of each process's steps and of its
restart: the runtime polls a ready future, every request has a timeout, a sleep
ends. Nothing is assumed of what is answered, and a kill owes nothing.
`TuiLoop!FairSpec` assumes weak fairness of each phase of the loop (input is
polled with a timeout, so the loop never blocks), of discovery, of the lookups
(requests time out) and of the clock. User, registries and cache expiry owe
nothing. `Workspace!ScanSpec` assumes that the one thread that scans and walks goes
on. `OsvClient!Spec` assumes weak fairness of each caller: every request ends in an
answer or a failure (reqwest's timeouts), and the runtime polls the task;
nothing is assumed of which it is, nor of when OSV changes. `CallsEnd` rests on the
bounds of attempts and on a failed detail query not being retried.
The other modules are checked for safety only; what
must end there ends by construction, but for the JSON scanner, whose steps
`JsonScanIsHonest` bounds at three a token and one more: a bracket takes a step to see that
a value comes, one to enter and one to leave.

## What is proved

`CheckerProofs`, for every number of processes, packages, registries and
manifests, and every bound, under `CheckerAssumption` (the types of the
constants, at least one slot and one attempt, `MemTTL > 0`):

* `TypeCorrect`: `Spec => []TypeOK`. `TypeOK` alone is not inductive: `Retry`
  adds one to `tries`, so the invariant is `TypeOK` with "a sleeping task has an
  attempt left" (`TriesInv`), which `BackOff`'s guard establishes.
* `StalenessBounded`: `Spec => []BoundedStaleness`: no served list is as old as
  `DiskTTL + MemTTL`. The inductive invariant states the age of every carrier: a
  file's `fetched_at` is its answer's `stored`; an entry in memory was at most
  `DiskTTL` old when inserted; nothing is dated ahead of the clock; the same
  of the write under way. The two steps that matter are `DiskHit` (at most
  `DiskTTL` old on insertion) and `MemoryHit` (less than `MemTTL` after it).
* `NoForeignAnswer`: if all processes agree on what each alias means
  (`AliasesAgree`), every answer served was said by the registry the item is
  routed to, about its package. The invariant carries provenance through memory,
  disk, half-written files and outcomes: what is under a key is from the registry
  the key resolves to, and what is served is about the name asked for. The hypothesis
  is necessary: `checker_alias` is its counterexample.
* `NobodyIsForgotten`: `Spec => []EveryItemAnswered`, and `NobodyIsAskedTwice`:
  `Spec => []OneRequestPerPackage`. One invariant (`TaskInv`) serves both: each
  task's status fits the phase of its process (`Placed`), an outcome that has
  arrived is what the store loop will read (`Concluded`), the progress counter is
  the number of tasks concluded (`Counted`), and a key that was answered is in
  memory or has outlived it (`Remembered`). `NothingAssumption` is used here: an
  outcome must not be confused with its absence.
* `ChecksAsPromised`: `AliasesAgree => (Spec => ImplementsService)`: the refinement of
  `VersionService`, step by step. `StartManifest` is its `Ask`; a hit in a cache and
  `StoreAnswer` are `Answer`; `StoreFailure` is `Absent` or `Refuse`; `Crash` is
  `Vanish`; time is time; every other step stutters. It rests on the three
  invariants above: provenance gives `Answer` its registry, age its bound, and the
  order of the tasks makes every question settled once.

`OsvClientProofs`, for any callers, queries, packages, databases and limits, under
`OsvAssumption` (the types of the constants, every limit at least 1, and `None` is
no answer):

* `TypesHold`: `Spec => []TypeOK`. The invariant adds that, once the cache was
  asked, each query has an answer or is pending (`Answered`): without it `Flip`
  could fold a missing answer.
* `AskedOnlyWhileOpen`: `Spec => []AskedWhileOpen`: a detail request is under way only for
  a row of which OSV named an advisory, and where a cache answers its question, that answer
  came after the query had looked there. "No cache answers it" would be false: the two
  lookups are separate awaits, and another query may store its list after either. The
  invariant follows a row from OSV's answer (`Truthful`) over the mark to its detail queries
  (`JobsFollow`), and each query through its states: an entry that appears beside one that
  has looked already is written down in `overtaken` by the store that makes it
  (`StoreRecords`, `BackfillIds`, `Posted`), and nothing else makes one.
* `CleanIsTold`: `Spec => []CleanMeansTold`: what the ID cache says of a package,
  and what a row of a scan that did not fail shows, is at least what OSV said of
  that package in one complete answer. The invariant (`Truthful`) says it of the
  cache, of the answers callers have taken, and of the marked rows; `JobsFollow`
  adds that what a paged query has is what counts of what it heard, so that the
  back-fill after the last page is an answer OSV gave. The steps that matter are
  `Posted` (the answer is complete), `BackfillIds` (only a list that is complete fills
  the cache) and `Flip` (every spelling counts).

* `RecordsAreExplained`: `Spec => []RecordsExplainIds`: while OSV says the same, an
  enriched row has records of its own IDs only, and all of them but for what a
  reported failure or a list cut at the bound leaves out. The invariant says that, as
  long as OSV did not change, every list and every job holds what OSV says (`Steady`),
  and follows the records from job to row (`Attaching`).

`GateProofs`, for any projects, settings, scores and failures, under `GateAssumption`
(the shape of a project, and that no score is the missing one):

* `GateTypeOK`, `ExitZeroMeans` (`PassIsWhatItSays`) and `CertifyingHidesNothing`
  (`CertifyHidesNothing`). The verdict is decided from the reports alone, so what has
  to be invariant is that the reports are true: each row is what the answer to its
  question makes of the dependency, flipped by a scan that was made and did not fail
  (`Faithful`); the scan follows the check and is made wherever a gate needs it
  (`Ordered`); and a verdict was decided from reports that are complete (`Decided`).
* `PolicyIsHeard`: `~PartialDetails => (Spec => []PolicySpeaksUp)`: an advisory over
  the limit, or unrated, never goes by in silence where a list of records comes whole
  or not at all. The hypothesis is necessary: `gate_truncated` is its counterexample.

`FixProofs`, for any tree of manifests, texts, number of saves, and a kill at any
moment, under `FixAssumption`:

* `FixTypeCorrect`; `ReportIsTrue` (`ReportMatchesWrites`); `SavesSurvive`
  (`OverwritesOnlyPlanned`, an action property: what a rename replaces is what the
  plan was made of, but for a save between comparison and rename).
* `NoForeignVersion`: `Distinct /\ NeverCut => (FixSpec => []OwnVersionOnly)`: no
  dependency ever says another's version, on disk or in a plan. Both hypotheses are
  needed, and both are about the program: an edit is guarded by the text at its line
  and nothing else (`fix.rs:949`), and one past the end of the file is dropped and
  reported (`fix.rs:937`).
* The invariant: the rows come of one reading (`Read`); disk and plan hold spans of
  dependencies in their order (`Spans`); nothing is written before all is planned
  (`Order`); the report counts what was done (`Told`).

`TuiLoopProofs`, for any rows, views, packages and limits, under `TuiAssumption`:

* `LoopTypeOK`, `SpinnersTurnForSomething` (`LoadingIsUnderWay`), `NothingStaleOnScreen`
  (`ScreenIsCurrent`) and `ClicksFindTheirRow` (`ClicksHitShownRows`).
* Two facts carry them. Until the projects found are received there is nothing to look
  up (`Quiet`), so replacing the App cannot lose a mark; and a frame is drawn before
  each drain (`Drawn`), so whatever changed the App without asking for a redraw would
  be seen. `Marked` ties a mark to a lookup in flight or to its answer in the channel;
  the drain applies any number of messages, a recursion over the channel, which is why
  `NatSets` is needed.

Of `Upgrade`, in `FixProofs` too, for any bound on the components of a version and any number of
releases, under `ConstraintAssumption` and `NoneAssumption`:

* `UpgradeTypeOK`, and for operators that name a floor (`FloorsOnly`: bare, `^`, `~`,
  `=`, `>=`): `RangeSurvives` (`RangeIntact`), `FixesSettle` (`FixSettles`) and
  `DeclinesExplain` (`DeclineSaysWhy`), over every history of publishing, yanking,
  locking and fixing. The hypothesis is necessary: `upgrade_ceiling` is its
  counterexample for `<` and `<=`, and `>` fails at the version written.
* The heart is `RewriteKeepsRange`: a constraint that no guard refuses, rewritten to a
  release it admits, admits what it admitted from that release on, and nothing more.
  It is proved per operator and length (`CaretMoves`, `TildeMoves`, `FloorMoves`,
  `WildMoves`) from the order on versions. `Settled` adds what `--all` leaves behind: the
  version it wrote with no other bound, without which the next default run could find
  something to write.

`InputProofs`, for every tree of files, every run over it and any number of edits,
under `DiscoveryAssumption` (finitely many directories, none above itself),
`CheckPathAssumption` (the types of the constants) and `TreesAssumption` (above):

* `OneRootOneStory`: `Spec => []MembersAgree`, with other programs writing files between any
  two steps. What is in the cache of root declarations stays there (`RootStep`), and
  inheritance reads nothing else (`ResolveFollows`), so each report of a member follows the
  cache (`Reported`) whatever the root says by then. That an entry without a version is
  warned about rests on a fact about kinds: only a Cargo manifest has a root
  (`RootsAreCargo`), and only Cargo and POM entries inherit without stating a version.
* `ListTellsWhatCheckTells`: `Spec => []ReadersAgree`. While nobody has written a file, what
  a check has read so far, step by step, is what the files hold (`AsIs`), so that a report
  is a function of the tree (`Checked`); `ListAgrees` compares it with what `list` computes
  at once. A dependency list that parses is the one both searches find (`OwnListAgrees`),
  any other lockfile only annotates (`LockAnnotates`), and what is picked from it fits the
  constraint if anything does (`PickedFits`). `PathsGoUp` unrolls the recursion by
  which a directory's ancestors are found, by induction on its depth.
* `DiscoveryHidesNothing`: `Spec => []DiscoveryAgrees`, under `LockfileAssumption` besides (a
  path that is found is not the value for none). A build script without a reader is named,
  unless it is superseded by the catalog it uses; the search of `check` and that of `list` part
  only at a lockfile that does not parse, and neither leaves the repository; a package's
  dependency list is read or said not to be. A directory's ancestors nest (`PathUp`), so the
  walk of `is_superseded`, unrolled along them, meets exactly the settings files a reader
  would look for, and the two searches along the same path find the same first
  lockfile unless it is broken (`SearchFindsFirst`).

`InputProofs` holds two more, for everything a registry may serve (`ServedAssumption`), in
any order of pages, and for every text and every `MaxDepth` (`ScanAssumption`):

* `RegistriesAreHeard`: `LookupSpec => []LookupIsFaithful`. A list that is given out is
  whole, without what was withdrawn, newest first; a package that was asked for is absent
  only where the registry said so, and one that was not only where a Maven coordinate spells
  no path; each number has a date the document gives that number, and nobody is an owner
  whom it does not name. The invariant (`LookupInv`) says what
  each stage holds of what was served: the index and the pages that came (`Gathering`),
  nothing listed that parses (`Unlisted`), the rest of the metadata (`Describing`), a
  faithful answer. Each client's answer is shown faithful by itself (`PlainReply`,
  `OutcomeIsFaithful`, one request at a time); `NewestFirst`, which is a `CHOOSE` among the orders of a set,
  is the list by ranks, which exists and has each release once.
* `ScansAreHonest`: `JsonSpec => []JsonScanIsHonest`. `Cost` falls with every step: three for
  each token ahead, one for each container entered, and what the step at hand still has to
  see; so steps and cost together never exceed what the text costs (`StepCosts`). While the
  document goes well the scanner stands where the grammar's reading stands, with the same
  containers and strings (`InStep`), and what it expects agrees with what may come next
  (`Agreed`); a key takes two tokens at once. It leaves that state only by giving up
  (`GivenUp`), at the end of a text that is cut off or at a container too deep, and then it
  is never well-formed again and what it found is a prefix of what the document holds
  (`ReadsOnGrows`). Each reader is proved to do one of a list of things (`ValueRead`,
  `ObjectRead`, `ArrayRead`), and each token of the grammar too (`Followed`), so the two
  are compared case by case.

`GraphProofs`, for any lockfiles, options, budgets and ceilings, under `GraphAssumption`
(the shape of an input; the browser, which alone searches, has no depth limit and
collapses no repeat):

* `WalkInvariant`: `Spec => []WalkInv`. The stack is a path through the graph whose frames
  are rows shown in full (`Stacked`, `FramesShown`); rows are paths, each once, parents
  before children, in the order of the walk (`Listed`, `AllPassed`); what is remembered as
  expanded has a full row (`Remembered`); the reason each row gives for stopping is true of
  the rows before it (`Honest`); and each slot of a full row has its row, is left out by the
  filter, or is still to be taken in a frame of the stack (`Covered`). The graph is the
  lockfile's: `Resolve` finds what `Reference` wrote (`ReferenceResolves`).
* `MarkersLead` (`MarkersPointSomewhere`), with no hypothesis. Under a filter a
  pointer to a root's tree is itself among the matches, since the search stops where a tree
  of its own begins, so that root's row, a match by the same name, is there too
  (`PointerLeads`).
* `WalkIsBounded` (`BoundedByEdges`), when no chain of packages is as long as
  `MAX_WALK_DEPTH` (`NoChain`). Rows of a collapsing walk are injected into roots and edges:
  two rows with one parent package and one slot have one path, because a package is shown in
  full once (`RowsAreFew`). The stack has distinct packages, so only a chain reaches the
  ceiling (`DeepIsChain`).
* `EdgesAreDrawn` (`EveryEdgeDrawn`), when a lockfile locks nothing twice at one version
  (`LockedOnce`). Every row leads to a full row of its package (`SomewhereFull`), so the
  packages drawn are closed under dependencies; and the set the roots reach is the least such
  set, because its approximations stop growing after as many steps as there are packages
  (`NearEnough`).
* `MatchesAreShown` (`EveryMatchShown`), when a lockfile that is searched has also no chain as
  long as `MAX_SEARCH_DEPTH`. The search visits exactly the paths that never go on below a
  repeat or a pointer (`SearchedIs`, level by level), each package the roots reach lies at the
  end of one (`MetWhereItGoesOn`, `ReachableIsMet`), and what the filter keeps is drawn, by
  induction over the prefixes of a match (`FoundIsShown`).
* `GraphIsTold`: `Spec => []WalkTellsAll`, the four together. The hypotheses are about the
  program: a lockfile with one package twice resolves to the first copy (below), the search
  does look no deeper than 12 levels (`rows.rs:27`), the walk no deeper than 512
  (`graph.rs:251`). `MCTree` checks that its inputs meet them (`InstanceIsCovered`).

Of `Settings`, in `GateProofs`, for any flags, variables, files and edits, under
`SettingsAssumption`:

* `SettingsHonoured`: `SettingsSpec => []SettingsAreHonoured`: a gate that was configured is
  enforced or the run stops; a blank variable is an unset one; a token goes to the registry it
  was written for; every ecosystem that is on has a fetcher or no registry. The
  invariant (`SettingsInv`) says what each stage holds of the call and of the file: what was
  extracted (`Extracted`, while nobody edited it), merged (`Settled`), read again for the
  policy (`Ruled`) and wired (`Wired`). The routes are a recursion over the lines of `.npmrc`, where
  a later line overrides; what it yields is proved by induction over its prefixes.

Of `Dialects`, in `FixProofs`, for any lists, locks, constraints and filters, under
`ListsAssumption`:

* `ReportsArePublished`: `DialectsSpec => []ReportedWasPublished`: a version that is reported
  is on the registry's list and reads as a version; where a reading discards numbers (PEP 440,
  NuGet) it is the newest of those kept that read alike; where pre-releases are excluded it is
  one only if nothing else was published; and it is of no other flavour where releases come in
  several. A list is never filtered down to nothing, and its order changes none of this. What
  `evaluate` compares is a set of readings, and each reading it reports is one of them; so
  what matters is that the way back is a choice: `RanksBelow` is a strict total order on
  versions, every finite set has a greatest member by it (`GreatestOf`), and that member is
  taken (`NativeIsListed`) wherever `InNativeVersions` puts a name back. The filters keep a
  part of the list, and a function of its *set* decides which (`FilteredList`); reversing a
  list keeps its set (`ReversedQuestion`), so the report stays (`SameReport`). Where nothing
  discarded tells two versions apart, their numbers are the same to four segments, which is
  why the text may decide.
* The flavours of the property are those of the list the pre-release filter left, as in
  `evaluate_versions`: a flavour that partitions only releases that were set aside selects
  nothing, and the statement over the whole list is false.

`NatSets` proves, of sets and functions, what induction says of predicates (`LeastNat`,
`GreatestNat`, `SetInduction`, `Unrolled`): a set with zero and the successors of its members is `Nat`. The
library's induction theorems cannot be used, as they take an operator; these can, as long as
the statement is turned into a set. What is proved by it: a drain of the channel of any
length, the least task of each kind, the newest of any set of releases, the search of a
graph level by level, the lines of an `.npmrc`, the reading of a document, what is picked
from a list (`PickedIsListed`), the greatest of a finite set (`GreatestOf`).

Only model-checked: liveness and fairness, which are beyond the prover
(`EveryRunFinishes`, `SelectionIsAnswered`, `CallsEnd`, `WalkEnds`), the translation of
constraints (`Dialects.ReadsAsWritten`), and everything about `Policy`, `TreeOutput`,
`Workspace`, `LockGraphs`, `Renderers` and `Parsers`. These compare a pure function of the
input with a reference definition; the function is a recursion over a document, a constraint
or a graph, and the comparison is an induction, or a case for each operator of each dialect,
for each of them.

## Where the code and its own words disagree

Each of these has a run (`PROJECT.json`, `findings`).

1. `check.rs:1074`: an alternate registry's cache key is its alias, not its URL;
   two projects that use one alias for two registries share the disk entries.
2. `policy.rs:829`: advisories whose records are missing pass a severity rule
   when another record of the row arrived (`policy.rs:219`).
3. `package_lock_graph.rs:125`: an edge to a workspace member without a version lands on
   the stub that links it, and what the member depends on is lost
   (`package_lock_graph.rs:192`).

4. `fix.rs:839`: `<`, `<=` and `>` constraints are rewritten by putting the new version
   behind the operator: `<1` becomes `<0.1.0` and loses releases its author admits
   (`fix.rs:587`).

The models show these too, with no run of their own. Where a property would be broken
by one, its comment or its inputs say that it is set aside.

Checking and fixing:

* `fix.rs:937`: an edit whose line no longer exists is dropped and its record
  is still reported (`fix.rs:285`); the editor of `upgrade_range` rewords and
  inserts but removes no line (`SaveKinds`).
* `fix.rs:338`: a save between the re-read and the rename is overwritten; the
  property `OverwritesOnlyPlanned` names that window.
* `fix.rs:949`: lines of two dependencies with one constraint text can trade
  places unnoticed between check and plan. The dependencies of `upgrade_range` have
  distinct texts (`TextsOf`); `Distinct` is the hypothesis of the theorem.
* `runner.rs:1143`: rows that ended in an error are not counted by the closing
  line, so it can say everything is up to date with every registry down;
  `ReportMatchesWrites` counts the other rows only.
* `runner.rs:311`: what was not read is told from a second look at the lockfile, after
  the check; a file written in between hides an empty list. `EmptyListIsSaid` states it,
  `UnreadIsSaid` is what holds when nobody writes.
* `tree.rs:503`: without a lockfile the entries of `[workspace.dependencies]` are
  drawn as dependencies of the root crate (`tree.rs:467`, `cargo_toml.rs:67`);
  `ItemsOf` keeps them.
* `graph.rs:598`: a node counts as shown in full although the depth limit cut its
  dependencies, so a shallower appearance is collapsed and what lies within the
  depth below it is not drawn (`graph.rs:590`); `EveryEdgeDrawn`
  speaks of trees that were given no depth.
* `tree`: a package locked twice at one version resolves to the first copy; bun's
  `resolve_key` steps out of `@scope/x` by one segment, so a scoped package can resolve
  to itself (`Unambiguous` sets these locks aside), and resolves workspace
  dependencies from the top only.
* `app.rs:493`: `r` drops the App's copy and is answered from the caches below
  (`app.rs:490`); `tui_loop` claims no freshness for a refresh.
* `run.rs:149`, `run.rs:134`: a pending lookup outlives its selection; of two
  notices drained together only the last is seen.

Gates and settings:

* `runner.rs:2177`: `--fail-on outdated` lets a patch release pass
  (`cli.rs:368`); `OutdatedPassIsFresh` says so.
* `policy.rs:810` and `policy.rs:590`: `max_cvss` is also compared as a band, and
  `fail_on_severity` still decides beside it, although `policy.rs:577` announces that it
  is ignored.
* `check.rs:2072`: `[rust] enabled = false` does nothing for a check (`config.rs:75`).
* The project's `.npmrc` is read from the working directory, not from the path checked.
* Licenses are collected although `DEPENDABLE_NO_POLICY` switched the policy off; they
  are attached by name to Git and local rows too, and those of a JSR item are asked of npm.

Versions and registries:

* PEP 440 `~=1.4.5a4` admits up to 2.0.0, `==1.1.*` excludes a locked 1.1a1, and a
  post-release is newer than its release where the docs say they compare equal.
* npm's bare `1.2` is read as a caret though documented as `1.2.x`; a full bare version of
  PHP or Python is read as a caret though `Ecosystem::bare_version` says exact.
* NuGet's `bump_last` adds one to the largest segment without saturating.
* `sort_desc` of the registries is documented as total; mixed lists of versions that parse
  and versions that do not are ordered intransitively.
* JSR and PyPI answer an empty list when every release is yanked, crates.io `AllYanked`; a
  NuGet index page with neither items nor an address is skipped.
* `maven_central.rs:62`: a coordinate without a path is `NotFound` though no registry was
  asked, so it counts as a permanent absence (`AbsenceWasSaid` names the case).
* `npm.rs:270`: publish dates are kept for every key of `time` but two, listed release or
  not (`MetadataIsOwn` promises a date of that number, not that the number is still there).
* `packagist.rs:134`: versions are those under the package's own name, and a document that
  lists another package only is an empty list, not an error; the metadata are the first
  list's, whatever its name.
* `pubspec_yaml.rs:115`: a range of two clauses is silently no version.
* `pom_xml.rs:366`: a property chain longer than the limit is not counted as a reader of
  what it ends at, so a fix can move its entry too (`Overlong`); a reference split by a
  comment is not counted either.

Output:

* `github.rs:822`: the note under a table counts findings against a cap that notices about
  unread manifests consume as well, and `github.rs:843`: a table cut to no rows loses its
  note; `SummaryIsHonest` counts the document's own total of omitted rows.
* `dependable report` does not look at whether the vulnerability scan failed: such a report
  looks like a clean one.
* `summary.rs:186`: a manifest that was not read has no rows, so `up_to_date_percent` can be
  100 beside it, where its doc says that "a run that could not read everything does not have
  a single number" (`summary.rs:180`). `HundredPercent` speaks of the rows, and asks of such
  a page only that it counts the manifest as unread; the percentage itself is set aside.
* SARIF fingerprints of a package declared twice in one manifest coincide
  (`AlertsAreDistinct` is about packages), and a single absolute manifest is named relative
  to its own directory there but to the workspace in annotations.
* `github.rs:354`: among advisories rated alike the last is named, not the first.

## Not modelled

* Bytes: the scanners of TOML, XML, YAML, Gradle and Elixir text (libraries, or loops that
  give the documents `Parsers` starts from); the splitting of a version's text into numbers
  and words; the JSON names and URLs of the registries; `cargo_package.rs`, whose output
  nothing in the repository uses.
* CVSS: the formula is floating-point arithmetic over a table of weights; scores and bands
  are inputs of `Gate` and `Renderers`.
* Markup, wording, columns, colours and glyphs of every output; the drawing of the browser
  (`ui/`, `theme.rs`), whose content `TuiLoop` and `Graph` give; its divider, scrolling and
  the pointer's fade.
* In `Checker`: `fetch_versions`' use of the same cache under its own key; moka's eviction
  beyond 10,000 entries; a clock that runs backwards.
* In `Fix`: file modes, symbolic links, several dependencies on one line.
* In `OsvClient`: the decoding of a record, and how a row's advisories are sorted.
* In `Graph`: the search's own budget, and several projects in one browser.
* `Checker` and `CheckPath` meet only in the items a manifest yields: a behaviour is one or
  the other, and no run takes a tree through discovery, lookup and gate at once. The three
  together are out of TLC's reach; what passes between them is a set of items and a list of
  reports, which each side ranges over.

## Plan

1. Proofs: `TreeOutput` (`Flatten` numbers each package once), `Workspace` (`ScanIsFaithful`),
   `Policy` (the rules one by one; the license grammar is an induction over tokens).
2. An abstract specification of `fix` (each manifest goes from one text to another in one
   step, or stays) that `Fix` refines, with an editor beside it.
3. CVSS scores in integers of a tenth, if the rounding of the formula can be stated
   exactly; the search budget of the browser.
