----------------------------- MODULE Renderers -----------------------------
(***************************************************************************)
(* What a finished check is turned into.                                   *)
(*                                                                         *)
(* `check` prints a table, JSON, text or SARIF and then, under GitHub      *)
(* Actions, annotations on stderr and a job summary appended to a file     *)
(* that other commands of the step also write                              *)
(* (crates/dependable/src/output); `report` renders one HTML document      *)
(* (crates/dependable-report/src/html and summary.rs); `list` prints the   *)
(* inventory with the features and licenses it looked up.  All of them     *)
(* draw on the same rows, and each leaves something out.                   *)
(*                                                                         *)
(* Text is left out, except where a caller has to find its way back: the   *)
(* path of a manifest.  Bytes are counted in lines.                        *)
(***************************************************************************)
EXTENDS Naturals, FiniteSets, Sequences, SequencesExt, FiniteSetsExt, TLC

CONSTANTS
    Scans,           \* the finished checks and where they run
    Missing,          \* no score, no band, no date, no path, no version
    MaxAnnotations,  \* GitHub shows this many of a level per step: 10
    MaxRows,         \* rows of one table of the job summary: 100
    SummaryLimit,    \* the size GitHub accepts of the summary file
    SummaryMargin    \* what is left free of it

VARIABLES
    scan,       \* the manifests with their rows; where and how they are printed
    turn,       \* "render", "annotate", "summarise", "report", "list", "printed"
    screen,     \* the documents on stdout, one for each format
    annotated,  \* level -> the annotations on stderr
    stepFile,   \* the job summary: its size, and what this run appended
    page,       \* the HTML document
    listing     \* what `list` prints beside each dependency

renderVars == <<scan, turn, screen, annotated, stepFile, page, listing>>

Statuses == {"UpToDate", "PatchAvailable", "UpdateAvailable", "Outdated",
             "Vulnerable", "Error", "Local", "Git", "Undetermined"}

Cells(reports) ==
    UNION {{<<m, r>> : r \in DOMAIN reports[m].rows} : m \in DOMAIN reports}
CellRow(reports, c) == reports[c[1]].rows[c[2]]
InOrder(reports) ==
    FlattenSeq([m \in DOMAIN reports |-> [r \in DOMAIN reports[m].rows |-> <<m, r>>]])

IsCheckableRow(row) == row.status \notin {"Local", "Git"}

Rank(x) == IF x = Missing THEN 0 ELSE x + 1
Greatest(S) == IF S \subseteq {Missing} THEN Missing ELSE Max(S \ {Missing})

(***************************************************************************)
(* Advisories (crates/dependable-core/src/result.rs).                      *)
(***************************************************************************)
Rated(score) ==
    CASE score >= 90 -> 4 [] score \in 70 .. 89 -> 3 [] score \in 40 .. 69 -> 2
      [] score \in 1 .. 39 -> 1 [] score = 0 -> 0

Record(id, score, label, withdrawn, published) ==
    [id |-> id, score |-> score, withdrawn |-> withdrawn, published |-> published,
     band |-> IF score # Missing THEN Rated(score) ELSE label]

AdvisoryOf(row, id) ==
    IF \E a \in Range(row.known) : a.id = id
    THEN CHOOSE a \in Range(row.known) : a.id = id
    ELSE Record(id, Missing, Missing, FALSE, Missing)

MaxCvss(row)     == Greatest({a.score : a \in Range(row.known)})
MaxSeverity(row) == Greatest({a.band : a \in Range(row.known)})

(***************************************************************************)
(* Totals.  The console and the report count on their own.                 *)
(***************************************************************************)
WithStatus(reports, statuses) ==
    {c \in Cells(reports) : CellRow(reports, c).status \in statuses}

SummaryOf(reports) ==
    [manifests |-> Len(reports),
     unread    |-> Cardinality({m \in DOMAIN reports : reports[m].unread}),
     unique    |-> Cardinality({<<reports[c[1]].ecosystem, CellRow(reports, c).name>> :
                       c \in {x \in Cells(reports) : IsCheckableRow(CellRow(reports, x))}}),
     total     |-> Cardinality(Cells(reports)),
     of        |-> [s \in Statuses |-> Cardinality(WithStatus(reports, {s}))]]

(* The line under the table: nothing with no members is mentioned.         *)
PrintTotals(s) ==
    LET parts == <<s.of["UpToDate"], s.of["PatchAvailable"],
                   s.of["UpdateAvailable"] + s.of["Outdated"], s.of["Vulnerable"],
                   s.of["Error"], s.of["Undetermined"], s.of["Local"] + s.of["Git"]>>
    IN  SelectSeq(parts, LAMBDA n : n > 0)

(* One row of an advisory list: the dependency, and the advisory, once.    *)
Instances(reports) ==
    UNION {{<<c[1], c[2], id>> : id \in Range(CellRow(reports, c).ids)} :
              c \in Cells(reports)}
InstanceOf(reports, x) == AdvisoryOf(reports[x[1]].rows[x[2]], x[3])

EcosystemSummary(reports, eco) ==
    LET Of(statuses) == Cardinality({c \in WithStatus(reports, statuses) :
                                        reports[c[1]].ecosystem = eco})
        behind == {"PatchAvailable", "UpdateAvailable", "Outdated"}
    IN  [total |-> Of(Statuses), upToDate |-> Of({"UpToDate"}),
         outdated |-> Of(behind), vulnerable |-> Of({"Vulnerable"}),
         other |-> Of(Statuses \ ({"UpToDate", "Vulnerable"} \cup behind))]

ReportSummary(reports) ==
    LET s == SummaryOf(reports)
        instances == Instances(reports)
    IN  [counts     |-> s,
         checkable  |-> s.total - s.of["Local"] - s.of["Git"] - s.of["Undetermined"],
         instances  |-> Cardinality(instances),
         distinct   |-> Cardinality({x[3] : x \in instances}),
         withdrawn  |-> Cardinality({x[3] : x \in {y \in instances :
                                        InstanceOf(reports, y).withdrawn}}),
         severity   |-> [b \in (0 .. 4) \cup {Missing} |->
                            Cardinality({x \in instances :
                                            InstanceOf(reports, x).band = b})],
         maxCvss    |-> Greatest({MaxCvss(CellRow(reports, c)) : c \in Cells(reports)}),
         ecosystems |-> [e \in {reports[m].ecosystem : m \in DOMAIN reports} |->
                            EcosystemSummary(reports, e)]]

(* <<up to date, of>>: not a number while a row is undetermined; a list    *)
(* that went unread leaves no row, and does not count.                     *)
UpToDatePercent(s) ==
    IF s.checkable = 0 \/ s.counts.of["Undetermined"] > 0 THEN Missing
    ELSE <<s.counts.of["UpToDate"], s.checkable>>

(***************************************************************************)
(* Paths.                                                                  *)
(***************************************************************************)
LexicalNormalize(path) ==
    LET Step(done, part) ==
            CASE part = "." -> done
              [] part = ".." /\ done # <<>> /\ Last(done) # ".." -> Front(done)
              [] OTHER -> Append(done, part)
    IN  [path EXCEPT !.parts = FoldLeft(Step, <<>>, @)]

Joined(dir, path) == IF path.rooted THEN path
                     ELSE [dir EXCEPT !.parts = @ \o path.parts]

(* The path a workflow command can name a manifest by, from the workspace  *)
(* or else from the working directory.                                     *)
RelativeFile(path, workspace, cwd) ==
    LET whole == LexicalNormalize(Joined(cwd, path))
        Under(dir) == dir # Missing /\ IsStrictPrefix(LexicalNormalize(dir).parts,
                                                     whole.parts)
        From(dir) == SubSeq(whole.parts, Len(LexicalNormalize(dir).parts) + 1,
                            Len(whole.parts))
    IN  IF Under(workspace) THEN From(workspace)
        ELSE IF Under(cwd) THEN From(cwd) ELSE Missing

CommonAncestor(a, b) ==
    SubSeq(a, 1, Max({n \in 0 .. Min({Len(a), Len(b)}) :
                          \A i \in 1 .. n : a[i] = b[i]}))

(* SARIF finds its own root: where the manifests' directories part.        *)
ScanRoot(reports, cwd) ==
    IF \A m \in DOMAIN reports : ~reports[m].path.rooted
    THEN [rooted |-> FALSE, parts |-> <<".">>]
    ELSE LET dirs == [m \in DOMAIN reports |-> reports[m].path.rooted]
             Dir(m) == (IF dirs[m] THEN <<"/">> ELSE <<>>) \o Front(reports[m].path.parts)
             common == FoldLeft(LAMBDA a, m : CommonAncestor(a, Dir(m)), Dir(1),
                                [m \in DOMAIN reports |-> m])
         IN  IF common = <<>> THEN cwd ELSE [rooted |-> TRUE, parts |-> Tail(common)]

WithoutDots(path) == [path EXCEPT !.parts = SelectSeq(@, LAMBDA p : p # ".")]

UriFor(root, path) ==
    LET from == WithoutDots(root).parts
        to   == WithoutDots(path).parts
    IN  IF root.rooted = path.rooted /\ IsPrefix(from, to)
        THEN [rooted |-> FALSE, parts |-> SubSeq(to, Len(from) + 1, Len(to))]
        ELSE WithoutDots(path)

(***************************************************************************)
(* `check`: what goes to stdout.                                           *)
(***************************************************************************)
RenderTable(reports) ==
    [manifests |-> [m \in DOMAIN reports |->
         [unreadSaid |-> reports[m].rows = <<>> /\ reports[m].unread,
          statuses   |-> [r \in DOMAIN reports[m].rows |-> reports[m].rows[r].status],
          totals     |-> PrintTotals(SummaryOf(<<reports[m]>>))]],
     overall |-> IF Len(reports) > 1 THEN PrintTotals(SummaryOf(reports)) ELSE <<>>]

RenderJson(reports) ==
    LET order == InOrder(reports) IN
    [summary |-> SummaryOf(reports),
     results |-> [i \in DOMAIN order |->
         LET row == CellRow(reports, order[i]) IN
         [manifest |-> order[i][1], name |-> row.name, status |-> row.status,
          vulnerabilities |-> row.ids]]]

Result(rule, level, m, package, id, line) ==
    [rule |-> rule, level |-> level, manifest |-> m, package |-> package,
     advisory |-> id, line |-> line]

(* Every advisory is a result of its own, worst read when nothing rates it.*)
LevelFor(a) == CASE a.band \in {3, 4, Missing} -> "error" [] a.band = 2 -> "warning"
                 [] a.band \in {0, 1} -> "note"

AdvisoryIds(row) ==
    IF row.ids = <<>> THEN {a.id : a \in Range(row.known)} ELSE Range(row.ids)

SarifOf(m, row) ==
    CASE row.status = "Vulnerable" ->
             LET ids == SetToSeq(AdvisoryIds(row)) IN
             [i \in DOMAIN ids |-> Result("DEP002", LevelFor(AdvisoryOf(row, ids[i])), m,
                                          row.name, ids[i], row.line)]
      [] row.status = "Outdated" ->
             <<Result("DEP001", "warning", m, row.name, Missing, row.line)>>
      [] row.status = "UpdateAvailable" ->
             <<Result("DEP001", "note", m, row.name, Missing, row.line)>>
      [] OTHER -> <<>>

(* What an alert is recognised by in the next run: no line, so that moving *)
(* a declaration does not close it; and a status, so that a change does.   *)
Fingerprint(s, r) ==
    <<r.rule, s.reports[r.manifest].ecosystem, r.package,
      IF r.rule = "DEP001" THEN r.level ELSE r.advisory,
      UriFor(ScanRoot(s.reports, s.cwd), s.reports[r.manifest].path)>>

RenderSarif(reports) ==
    [results |-> FlattenSeq([m \in DOMAIN reports |->
         (IF reports[m].unread
          THEN <<Result("DEP003", "warning", m, Missing, Missing, Missing)>> ELSE <<>>)
         \o FlattenSeq([r \in DOMAIN reports[m].rows |-> SarifOf(m, reports[m].rows[r])])])]

(***************************************************************************)
(* GitHub Actions.                                                         *)
(***************************************************************************)
Levels == <<"error", "warning", "notice">>

(* Mutant: only a failed lookup counts as not checked.                     *)
LevelIfErrored(status) ==
    CASE status = "Vulnerable" -> "error"
      [] status \in {"Outdated", "UpdateAvailable"} -> "warning"
      [] status = "Error" -> "notice"
      [] OTHER -> "none"

LevelOf(status) ==
    CASE status = "Vulnerable" -> "error"
      [] status \in {"Outdated", "UpdateAvailable"} -> "warning"
      [] status \in {"Error", "Undetermined"} -> "notice"
      [] OTHER -> "none"

(* Lexicographic order of two keys.                                        *)
KeyBefore(a, b) ==
    \E i \in DOMAIN a : a[i] < b[i] /\ \A j \in 1 .. i - 1 : a[j] = b[j]

Worst == 200

(* What a finding is sorted by: an error by how bad it is, a warning by    *)
(* how far behind, all by where they stand.                                *)
SortKey(reports, level, c) ==
    LET row == CellRow(reports, c)
        place == <<c[1], row.name, Rank(row.line)>>
    IN  CASE level = "error"   -> <<Worst - Rank(MaxCvss(row)),
                                    Worst - Rank(MaxSeverity(row)),
                                    Worst - Len(row.ids)>> \o place
          [] level = "warning" -> <<IF row.status = "Outdated" THEN 0 ELSE 1>> \o place
          [] level = "notice"  -> place

Group(reports, level) ==
    SortSeq(SetToSeq({c \in Cells(reports) : LevelOf(CellRow(reports, c).status) = level}),
            LAMBDA c, d : KeyBefore(SortKey(reports, level, c), SortKey(reports, level, d)))

(* The advisory a row is described by: the last of the highest scored.     *)
TopAdvisory(row) ==
    LET best == {i \in DOMAIN row.known : Rank(row.known[i].score) = Rank(MaxCvss(row))}
    IN  IF row.known = <<>> THEN Missing ELSE row.known[Max(best)]

(* An annotation of a whole manifest, whose list nobody could read, or of  *)
(* one dependency.  A line is only given with the file it is in.           *)
Annotation(s, c) ==
    LET file == RelativeFile(s.reports[c[1]].path, s.workspace, s.cwd)
        line == IF c[2] = 0 THEN Missing ELSE CellRow(s.reports, c).line
        worst == IF c[2] = 0 THEN Missing ELSE TopAdvisory(CellRow(s.reports, c))
    IN  [of |-> c, advisory |-> IF worst = Missing THEN Missing ELSE worst.id,
         file |-> file, line |-> IF file = Missing THEN Missing ELSE line,
         named |-> file = Missing]

Leading(reports, level) ==
    IF level # "notice" THEN <<>>
    ELSE LET unread == {m \in DOMAIN reports : reports[m].unread}
         IN  [i \in DOMAIN SetToSortSeq(unread, LAMBDA a, b : a < b) |->
                 <<SetToSortSeq(unread, LAMBDA a, b : a < b)[i], 0>>]

UpTo(n, seq) == SubSeq(seq, 1, Min({n, Len(seq)}))
Beyond(n, count) == IF count > n THEN count - n ELSE 0

Annotations(s, level) ==
    LET all == Leading(s.reports, level) \o Group(s.reports, level)
    IN  [lines  |-> [i \in DOMAIN UpTo(MaxAnnotations, all) |-> Annotation(s, all[i])],
         elided |-> Beyond(MaxAnnotations, Len(all))]

(* A table of the job summary: a heading of three lines, rows, notes.      *)
Tables(reports) ==
    LET Table(level) == [level |-> level, rows |-> Group(reports, level)] IN
    SelectSeq([i \in DOMAIN Levels |-> Table(Levels[i])], LAMBDA t : t.rows # <<>>)

NoteCount(t) == Cardinality({n \in {MaxRows, MaxAnnotations} : Len(t.rows) > n})

TableSize(t, keep) == IF keep = 0 THEN 0 ELSE 3 + keep + NoteCount(t)

(* Mutant: the first rows to go are those of the first table.              *)
KeptFromTheBack(tables, k) ==
    LET rows == [i \in DOMAIN tables |-> Min({MaxRows, Len(tables[i].rows)})]
        Before(i) == FoldLeft(+, 0, SubSeq(rows, 1, i - 1))
    IN  [i \in DOMAIN tables |-> Beyond(Beyond(Before(i), k), rows[i])]

(* What is left after giving up k rows, the last of the last table first.  *)
Kept(tables, k) ==
    LET rows == [i \in DOMAIN tables |-> Min({MaxRows, Len(tables[i].rows)})]
        After(i) == FoldLeft(+, 0, SubSeq(rows, i + 1, Len(rows)))
    IN  [i \in DOMAIN tables |-> Beyond(Beyond(After(i), k), rows[i])]

Caveats(s) == IF s.of["Undetermined"] = 0 /\ s.unread = 0 THEN 0
              ELSE 1 + Cardinality({n \in {1, 2} : IF n = 1 THEN s.of["Undetermined"] > 0
                                                   ELSE s.unread > 0})

NoDocument == [tables |-> <<>>, kept |-> <<>>, omitted |-> 0, clean |-> FALSE, size |-> 0]

SummaryMarkdown(reports, budget) ==
    LET s      == SummaryOf(reports)
        tables == Tables(reports)
        head   == 2 + Caveats(s)
        clean  == tables = <<>> /\ s.of["Undetermined"] = 0 /\ s.unread = 0
        most   == FoldLeft(LAMBDA n, t : n + Len(t.rows), 0, tables)
        Size(k) == FoldLeft(+, head + (IF clean THEN 1 ELSE 0) + (IF k > 0 THEN 1 ELSE 0),
                            [i \in DOMAIN tables |-> TableSize(tables[i], Kept(tables, k)[i])])
        fits   == {k \in 0 .. most : Size(k) <= budget}
    IN  IF fits = {} THEN NoDocument
        ELSE [tables |-> tables, kept |-> Kept(tables, Min(fits)), omitted |-> Min(fits),
              clean |-> clean, size |-> Size(Min(fits))]

(***************************************************************************)
(* `report`: one HTML document.                                            *)
(***************************************************************************)
VulnKey(reports, x) ==
    LET a == InstanceOf(reports, x) IN
    <<Worst - Rank(a.score), Worst - Rank(a.band), reports[x[1]].rows[x[2]].name, x[3]>>

TimelineKey(reports, x) ==
    LET a == InstanceOf(reports, x) IN
    <<Worst - Rank(a.published), reports[x[1]].rows[x[2]].name, x[3]>>

SortedBy(key(_), S) == SetToSortSeq(S, LAMBDA x, y : KeyBefore(key(x), key(y)))

Html(reports) ==
    LET s == ReportSummary(reports) IN
    [summary |-> s, percent |-> UpToDatePercent(s),
     vulnerabilities |-> SortedBy(LAMBDA x : VulnKey(reports, x), Instances(reports)),
     timeline |-> SortedBy(LAMBDA x : TimelineKey(reports, x), Instances(reports)),
     manifests |-> [m \in DOMAIN reports |->
         [unread |-> reports[m].unread,
          rows |-> [r \in DOMAIN reports[m].rows |->
                       [status |-> reports[m].rows[r].status,
                        advisories |-> Range(reports[m].rows[r].ids)]]]],
     slices |-> IF s.counts.total = 0 THEN {}
                ELSE {<<e, s.ecosystems[e].total>> : e \in DOMAIN s.ecosystems}]

(***************************************************************************)
(* `list`: features of Rust packages over all manifests at once, licenses  *)
(* manifest by manifest; a name that gets no answer is left bare.          *)
(***************************************************************************)
CheckableIn(report) ==
    {report.rows[r].name : r \in {x \in DOMAIN report.rows : IsCheckableRow(report.rows[x])}}

RustPackageNames(reports) ==
    UNION {CheckableIn(reports[m]) : m \in {x \in DOMAIN reports :
                                                reports[x].ecosystem = "rust"}}

ApplyFeatures(report, fetched) ==
    IF report.ecosystem = "rust" THEN CheckableIn(report) \cap fetched ELSE {}

(* Features and licenses are printed by name, on whichever row has it.     *)
Listed(reports, fetched, licensed) ==
    [m \in DOMAIN reports |->
        [r \in DOMAIN reports[m].rows |->
            [features |-> reports[m].rows[r].name \in ApplyFeatures(reports[m], fetched),
             license  |-> reports[m].rows[r].name \in licensed[m]]]]

-----------------------------------------------------------------------------
RenderInit ==
    /\ scan \in Scans
    /\ turn = IF scan.inventory THEN "list" ELSE "render"
    /\ screen = Missing /\ annotated = Missing /\ page = Missing /\ listing = Missing
    /\ stepFile = [size |-> scan.existing, wrote |-> Missing]

Render ==
    /\ turn = "render"
    /\ screen' = [table |-> RenderTable(scan.reports), json |-> RenderJson(scan.reports),
                  sarif |-> RenderSarif(scan.reports)]
    /\ turn' = IF scan.annotate THEN "annotate" ELSE "report"
    /\ UNCHANGED <<scan, annotated, stepFile, page, listing>>

EmitAnnotations ==
    /\ turn = "annotate"
    /\ annotated' = [l \in ToSet(Levels) |-> Annotations(scan, l)]
    /\ turn' = "summarise"
    /\ UNCHANGED <<scan, screen, stepFile, page, listing>>

(* The budget is what the whole file has left, whoever wrote the rest.     *)
WriteSummary ==
    /\ turn = "summarise"
    /\ LET budget == Beyond(SummaryMargin, Beyond(stepFile.size, SummaryLimit))
           markdown == SummaryMarkdown(scan.reports, budget)
       IN  stepFile' = [size |-> stepFile.size + markdown.size, wrote |-> markdown]
    /\ turn' = "report"
    /\ UNCHANGED <<scan, screen, annotated, page, listing>>

RenderHtml ==
    /\ turn = "report"
    /\ page' = Html(scan.reports)
    /\ turn' = "printed"
    /\ UNCHANGED <<scan, screen, annotated, stepFile, listing>>

ListProjects ==
    /\ turn = "list"
    /\ \E fetched \in SUBSET RustPackageNames(scan.reports) :
           \E answering \in SUBSET DOMAIN scan.reports :
               listing' = Listed(scan.reports, fetched,
                                 [m \in DOMAIN scan.reports |->
                                     IF m \in answering THEN CheckableIn(scan.reports[m])
                                     ELSE {}])
    /\ turn' = "printed"
    /\ UNCHANGED <<scan, screen, annotated, stepFile, page>>

RenderNext == Render \/ EmitAnnotations \/ WriteSummary \/ RenderHtml \/ ListProjects

-----------------------------------------------------------------------------
Found(statuses) == {<<c[1], CellRow(scan.reports, c).name>> :
                        c \in WithStatus(scan.reports, statuses)}
Results(rules, levels) ==
    {<<r.manifest, r.package>> : r \in {x \in Range(screen.sarif.results) :
                                          x.rule \in rules /\ x.level \in levels}}
Added(seq) == FoldLeft(+, 0, seq)

(* A row is counted once in each of the totals a reader can add up: under  *)
(* the table, over all tables, in the slices of the report's chart.        *)
TotalsAddUp ==
    LET all == Cardinality(Cells(scan.reports)) IN
    /\ \A m \in DOMAIN scan.reports :
          Added(screen.table.manifests[m].totals) = Len(scan.reports[m].rows)
    /\ screen.table.overall # <<>> => Added(screen.table.overall) = all
    /\ MapThenSumSet(LAMBDA slice : slice[2], page.slices) = all
    /\ \A e \in DOMAIN page.summary.ecosystems :
          LET of == page.summary.ecosystems[e]
          IN  of.total = of.upToDate + of.outdated + of.vulnerable + of.other
    /\ MapThenSumSet(LAMBDA b : page.summary.severity[b], (0 .. 4) \cup {Missing})
          = Len(page.vulnerabilities)
    /\ Range(page.timeline) = Range(page.vulnerabilities)

(* A vulnerable package is one in every format, and so is an outdated one. *)
FormatsAgree ==
    /\ Results({"DEP002"}, {"error", "warning", "note"}) = Found({"Vulnerable"})
    /\ Found({"Vulnerable"}) = {<<r.manifest, r.name>> :
          r \in {x \in Range(screen.json.results) : x.vulnerabilities # <<>>}}
    /\ Found({"Vulnerable"}) = {<<x[1], scan.reports[x[1]].rows[x[2]].name>> :
          x \in Range(page.vulnerabilities)}
    /\ Results({"DEP001"}, {"warning", "note"}) = Found({"Outdated", "UpdateAvailable"})
    /\ Results({"DEP003"}, {"warning"}) =
          {<<m, Missing>> : m \in {x \in DOMAIN scan.reports : scan.reports[x].unread}}

(* Every finding is annotated or in the number that is not, and none left  *)
(* out is worse than one that is shown.                                    *)
Due(level) ==
    CASE level = "error"   -> {"Vulnerable"}
      [] level = "warning" -> {"Outdated", "UpdateAvailable"}
      [] level = "notice"  -> {"Error", "Undetermined"}

AnnotationsMissNothing ==
    annotated # Missing => \A l \in DOMAIN annotated :
        LET shown == {annotated[l].lines[i].of : i \in DOMAIN annotated[l].lines}
            all   == WithStatus(scan.reports, Due(l))
            Score(c) == Rank(MaxCvss(CellRow(scan.reports, c)))
        IN  /\ shown \cap Cells(scan.reports) \subseteq all
            /\ Cardinality(all \cup shown) + (IF l = "notice"
                    THEN Cardinality({m \in DOMAIN scan.reports : scan.reports[m].unread
                                                                   /\ <<m, 0>> \notin shown})
                    ELSE 0) = Cardinality(shown) + annotated[l].elided
            /\ l = "error" => \A c \in shown, d \in all \ shown : Score(c) >= Score(d)
            /\ \A i \in DOMAIN annotated[l].lines : LET a == annotated[l].lines[i] IN
                  a.advisory # Missing => Rank(AdvisoryOf(CellRow(scan.reports, a.of), a.advisory).score)
                                             = Score(a.of)

(* The job summary fits the file; it says that nothing was found only when *)
(* everything was looked at and nothing was; and a row is cut only when    *)
(* every less urgent one is gone and the document says rows are missing.   *)
SummaryIsHonest ==
    stepFile.wrote # Missing =>
        LET wrote == stepFile.wrote
            dark  == Found({"Error", "Undetermined", "Outdated", "UpdateAvailable", "Vulnerable"})
        IN  /\ stepFile.size <= Max({scan.existing, Beyond(SummaryMargin, SummaryLimit)})
            /\ wrote.clean => dark = {} /\ \A m \in DOMAIN scan.reports : ~scan.reports[m].unread
            /\ \A i, j \in DOMAIN wrote.tables :
                  /\ i < j /\ wrote.kept[j] > 0
                        => wrote.kept[i] = Min({MaxRows, Len(wrote.tables[i].rows)})
                  /\ wrote.kept[i] < Len(wrote.tables[i].rows)
                        => wrote.omitted > 0 \/ NoteCount(wrote.tables[i]) > 0
            /\ wrote.size > 0 => Found({"Vulnerable"}) =
                  {<<c[1], CellRow(scan.reports, c).name>> :
                      c \in UNION {Range(t.rows) : t \in {x \in Range(wrote.tables) :
                                                              x.level = "error"}}}

(* The file of an annotation is the manifest, seen from the workspace or   *)
(* from the directory; without one, the text names it.                     *)
FilesAreTheManifests ==
    annotated # Missing => \A l \in DOMAIN annotated : \A i \in DOMAIN annotated[l].lines :
        LET a    == annotated[l].lines[i]
            path == LexicalNormalize(Joined(scan.cwd, scan.reports[a.of[1]].path))
            Reaches(dir) == dir # Missing /\ path = LexicalNormalize(
                                Joined(dir, [rooted |-> FALSE, parts |-> a.file]))
        IN  IF a.file = Missing THEN a.named /\ a.line = Missing
            ELSE Reaches(scan.workspace) \/ Reaches(scan.cwd)

(* Two alerts are one only for one package of one file.                    *)
AlertsAreDistinct ==
    \A i, j \in DOMAIN screen.sarif.results :
        LET a == screen.sarif.results[i]
            b == screen.sarif.results[j]
            Whole(r) == LexicalNormalize(Joined(scan.cwd, scan.reports[r.manifest].path))
        IN  Fingerprint(scan, a) = Fingerprint(scan, b)
                => /\ Whole(a) = Whole(b)
                   /\ a.rule = b.rule /\ a.package = b.package /\ a.advisory = b.advisory

(* A report that is all up to date has no row that is not, or of which it  *)
(* does not know, and says of how many manifests it has no rows.  It does  *)
(* not say less than all of those: `up_to_date_percent` (summary.rs:186)   *)
(* gives 100 beside manifests whose list was not read, where its doc has   *)
(* no number for "a run that could not read everything" (summary.rs:180).  *)
HundredPercent ==
    page.percent # Missing /\ page.percent[1] = page.percent[2]
        => /\ Found(Statuses \ {"UpToDate", "Local", "Git"}) = {}
           /\ page.summary.counts.unread = Cardinality({m \in DOMAIN scan.reports : scan.reports[m].unread})

(* Every manifest that declares a package lists the same features for it,  *)
(* and a license only comes from an answer to that manifest's question.    *)
ListingIsUniform ==
    \A m, n \in DOMAIN scan.reports : \A r \in DOMAIN listing[m], q \in DOMAIN listing[n] :
        LET rows == <<scan.reports[m].rows[r], scan.reports[n].rows[q]>> IN
        /\ rows[1].name = rows[2].name /\ IsCheckableRow(rows[1]) /\ IsCheckableRow(rows[2])
           /\ scan.reports[m].ecosystem = "rust" /\ scan.reports[n].ecosystem = "rust"
               => listing[m][r].features = listing[n][q].features
        /\ scan.reports[m].ecosystem # "rust" => ~listing[m][r].features

(* What one surface of a finished check says no other denies, whatever     *)
(* each has to leave out: the totals add up, the formats find the same     *)
(* packages, GitHub's caps and size limit cost the least urgent findings   *)
(* and never silently, a path leads to its manifest.                       *)
EverySurfaceTells ==
    turn = "printed" => IF scan.inventory THEN ListingIsUniform ELSE
        /\ TotalsAddUp
        /\ FormatsAgree
        /\ AnnotationsMissNothing
        /\ SummaryIsHonest
        /\ FilesAreTheManifests
        /\ AlertsAreDistinct
        /\ HundredPercent
=============================================================================
