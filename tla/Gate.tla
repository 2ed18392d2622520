-------------------------------- MODULE Gate --------------------------------
(***************************************************************************)
(* What the exit code of `dependable check` means.                         *)
(*                                                                         *)
(* `run_check` (crates/dependable/src/runner.rs) refuses a gate that could *)
(* never be enforced, checks every manifest in turn - registry answers,    *)
(* vulnerability scan, advisory details - and then lets the `[policy]`     *)
(* severity rule and the `--fail-on` gate decide between exit 0, 1 and 2.  *)
(* `project` is the truth about the dependencies; every service call may   *)
(* fail, and the properties relate the exit code to that truth.            *)
(*                                                                         *)
(* Of `[policy]` only the two severity rules are modelled.  Scores are     *)
(* CVSS scores in tenths, bands are 0 (none) to 4 (critical).              *)
(***************************************************************************)
EXTENDS Naturals, FiniteSets, Sequences

CONSTANTS
    Cases,           \* the runs considered: a project (a sequence of
                     \* manifests) and the flags and configuration
    PartialDetails,  \* whether an advisory list may come back truncated
    None

Gates  == {"none", "outdated", "vulnerable", "any"}
Knobs  == {"ignore", "warn", "fail"}
Scores == 0 .. 100
Bands  == 0 .. 4

Advisory == [id : STRING, score : Scores \cup {None},
             label : Bands \cup {None}, withdrawn : BOOLEAN]

(* A dependency as it really is: whether a registry is behind it, what its *)
(* constraint reads as, whether a lockfile pins it, how `evaluate` would   *)
(* classify it, and the advisories against the version in use.             *)
IsDependency(d) ==
    /\ d.source \in {"registry", "git", "local", "unresolved"}
    /\ d.constraint \in {"readable", "unreadable", "tag"}
    /\ d.locked \in BOOLEAN
    /\ d.age \in {"UpToDate", "PatchAvailable", "UpdateAvailable", "Outdated"}
    /\ d.age \in {"PatchAvailable", "Outdated"} => d.locked
    /\ d.advisories \subseteq Advisory

IsManifest(m) ==
    /\ {m.registry, m.unread} \subseteq BOOLEAN
    /\ \A i \in DOMAIN m.deps : IsDependency(m.deps[i])

IsSettings(s) ==
    /\ s.failOn \in Gates
    /\ {s.certify, s.vuln} \subseteq BOOLEAN
    /\ s.maxCvss \in Scores \cup {None}
    /\ s.severity \in Bands \cup {None}
    /\ s.unrated \in Knobs

IsCase(c) ==
    /\ c = [project |-> c.project, settings |-> c.settings]
    /\ IsSettings(c.settings)
    /\ c.project \in Seq({c.project[m] : m \in DOMAIN c.project})
    /\ \A m \in DOMAIN c.project : IsManifest(c.project[m])

ASSUME GateAssumption ==
    /\ \A c \in Cases : IsCase(c)
    /\ PartialDetails \in BOOLEAN
    /\ None \notin Scores

VARIABLES
    project,   \* the truth: a sequence of manifests
    settings,  \* the resolved flags
    pc,        \* "start", "check", "scan", "enrich", "policy", "gate", "done"
    at,        \* the manifest being checked
    reports,   \* index of a manifest -> its ManifestReport
    warned,    \* the dependencies a policy warning names, as <<manifest, i>>
    verdict    \* why the process exited, "running" until it does

vars == <<project, settings, pc, at, reports, warned, verdict>>

(***************************************************************************)
(* The rows of a report.                                                   *)
(***************************************************************************)
Row(status, origin) ==
    [status |-> status, origin |-> origin, known |-> {}, details |-> {}]

IsCheckable(d) == d.source = "registry"

Unfetchable(d) ==
    CASE d.source = "git"   -> Row("Git", "None")
      [] d.source = "local" -> Row("Local", "None")
      [] OTHER              -> Row("Undetermined", "None")

(* `evaluate` on a version list: an unreadable constraint is an error of   *)
(* this run's own making, a tag of a dialect without front-end is not.     *)
Evaluated(d) ==
    CASE d.constraint = "unreadable" -> Row("Error", "Local")
      [] d.constraint = "tag"        -> Row("Undetermined", "None")
      [] OTHER                       -> Row(d.age, "None")

(* A registry that knows no such package answered; one that declined did   *)
(* not.                                                                    *)
EvaluateItem(d, hasRegistry, answer) ==
    IF ~IsCheckable(d) THEN Unfetchable(d)
    ELSE IF ~hasRegistry THEN Row("Undetermined", "None")
    ELSE CASE answer = "answered" -> Evaluated(d)
           [] answer = "absent"   -> Row("Error", "NotFound")
           [] answer = "declined" -> Row("Error", "Unanswered")

(* Mutant: a failed registry lookup excludes the dependency from the scan. *)
OsvAskedUnlessErrored(d, row) ==
    IsCheckable(d) /\ row.status \notin {"Error", "Undetermined"}

(* OSV is asked about the locked version, or about the newest compatible   *)
(* one when a readable evaluation produced it.                             *)
OsvAsked(d, row) ==
    /\ IsCheckable(d)
    /\ d.locked \/ row.status \notin {"Error", "Undetermined"}

Flipped(d, row) ==
    IF OsvAsked(d, row) /\ d.advisories # {}
    THEN [row EXCEPT !.known = d.advisories, !.status = "Vulnerable",
                     !.origin = "None"]
    ELSE row

(***************************************************************************)
(* The `--fail-on` gate, as a function of the finished reports.            *)
(***************************************************************************)
Answering(reps) == {m \in DOMAIN reps : ~reps[m].declined}

(* Mutant: `--certify-answered` reaches `--fail-on any` too.               *)
CertifiedForAny(reps, failOn, certify) ==
    IF certify /\ failOn # "none" /\ Answering(reps) # {}
    THEN Answering(reps)
    ELSE DOMAIN reps

(* Mutant: certifies the empty set when no registry answered.              *)
CertifiedVacuously(reps, failOn, certify) ==
    IF certify /\ failOn \in {"vulnerable", "outdated"}
    THEN Answering(reps)
    ELSE DOMAIN reps

Certified(reps, failOn, certify) ==
    IF certify /\ failOn \in {"vulnerable", "outdated"} /\ Answering(reps) # {}
    THEN Answering(reps)
    ELSE DOMAIN reps

Unevaluated(report) ==
    \E i \in DOMAIN report.rows : report.rows[i].origin = "Local"

(* Mutant: an unreadable constraint does not stop the gate.                *)
AnswerableIfAsked(reps, failOn, certify) ==
    \/ failOn = "none"
    \/ \A m \in Certified(reps, failOn, certify) :
           ~reps[m].scanFailed /\ (failOn # "any" => ~reps[m].declined)

GateIsAnswerable(reps, failOn, certify) ==
    \/ failOn = "none"
    \/ \A m \in Certified(reps, failOn, certify) :
           /\ ~reps[m].scanFailed
           /\ failOn # "any" => ~reps[m].declined /\ ~Unevaluated(reps[m])

(* Mutant: a version that was never read is clean under `any`.             *)
TriggersIfRead(failOn, status) ==
    CASE failOn = "none"       -> FALSE
      [] failOn = "vulnerable" -> status = "Vulnerable"
      [] failOn = "outdated"   ->
             status \in {"Outdated", "UpdateAvailable", "Vulnerable"}
      [] failOn = "any"        ->
             status \notin {"UpToDate", "Local", "Git", "Undetermined"}

Triggers(failOn, status) ==
    CASE failOn = "none"       -> FALSE
      [] failOn = "vulnerable" -> status = "Vulnerable"
      [] failOn = "outdated"   ->
             status \in {"Outdated", "UpdateAvailable", "Vulnerable"}
      [] failOn = "any"        -> status \notin {"UpToDate", "Local", "Git"}

(* Mutant: only certified manifests are searched for findings.             *)
TriggeredIfCertified(reps, failOn, certify) ==
    \E m \in Certified(reps, failOn, certify) : \E i \in DOMAIN reps[m].rows :
        Triggers(failOn, reps[m].rows[i].status)

Triggered(reps, failOn, certify) ==
    \/ \E m \in DOMAIN reps : \E i \in DOMAIN reps[m].rows :
           Triggers(failOn, reps[m].rows[i].status)
    \/ failOn = "any" /\ \E m \in DOMAIN reps : reps[m].unread

ExitCode(reps, failOn, certify) ==
    IF ~GateIsAnswerable(reps, failOn, certify) THEN "refused"
    ELSE IF Triggered(reps, failOn, certify) THEN "failed" ELSE "passed"

(***************************************************************************)
(* The severity rules of `[policy]`.                                       *)
(***************************************************************************)
BandOf(score) ==
    CASE score >= 90 -> 4 [] score \in 70 .. 89 -> 3 [] score \in 40 .. 69 -> 2
      [] score \in 1 .. 39 -> 1 [] score = 0 -> 0

MinScore(band) == <<0, 1, 40, 70, 90>>[band + 1]

(* The band of an advisory: from its score, else from its publisher's word.*)
Band(a) == IF a.score # None THEN BandOf(a.score) ELSE a.label

RequiresCvss(s) == s.maxCvss # None \/ s.severity # None

ThresholdScore(s) ==
    IF s.maxCvss # None THEN s.maxCvss ELSE MinScore(s.severity)

ThresholdBand(s) ==
    IF s.severity # None THEN s.severity ELSE BandOf(s.maxCvss)

(* Mutant: a retracted advisory still counts.                              *)
LiveOrWithdrawn(row) == row.details

Live(row) == {a \in row.details : ~a.withdrawn}

Violates(s, row) ==
    \/ \E a \in Live(row) : a.score # None /\ a.score >= ThresholdScore(s)
    \/ \E a \in Live(row) : Band(a) # None /\ Band(a) >= ThresholdBand(s)

(* Mutant: an empty enrichment is nothing to gate on.                      *)
UnratedIfEnriched(row) == {a \in Live(row) : Band(a) = None}

Unrated(row) ==
    IF Live(row) = {} THEN row.known \ row.details
                      ELSE {a \in Live(row) : Band(a) = None}

RowIds == UNION {{<<m, i>> : i \in DOMAIN reports[m].rows} : m \in DOMAIN reports}

PolicyRow(x) == reports[x[1]].rows[x[2]]

UnratedRows ==
    {x \in RowIds : ~Violates(settings, PolicyRow(x)) /\ Unrated(PolicyRow(x)) # {}}

PolicyViolated ==
    \/ \E x \in RowIds : Violates(settings, PolicyRow(x))
    \/ settings.unrated = "fail" /\ UnratedRows # {}

(***************************************************************************)
(* The run.                                                                *)
(***************************************************************************)
Init ==
    /\ \E c \in Cases : project = c.project /\ settings = c.settings
    /\ pc = "start"
    /\ at = 1
    /\ reports = <<>>
    /\ warned = {}
    /\ verdict = "running"

Exit(why) == pc' = "done" /\ verdict' = why

Enforceable(s) == s.vuln \/ (s.failOn # "vulnerable" /\ ~RequiresCvss(s))

(* A gate on advisories with scanning switched off: exit 2 before any work.*)
Misconfigured ==
    /\ pc = "start"
    /\ ~Enforceable(settings)
    /\ Exit("misconfigured")
    /\ UNCHANGED <<project, settings, at, reports, warned>>

(* Discovery.  An empty selection exits 0.                                 *)
Begin ==
    /\ pc = "start"
    /\ Enforceable(settings)
    /\ IF project = <<>>
       THEN Exit("passed")
       ELSE pc' = "check" /\ UNCHANGED verdict
    /\ UNCHANGED <<project, settings, at, reports, warned>>

NextManifest == IF at = Len(project) THEN pc' = "policy" /\ UNCHANGED at
                                     ELSE pc' = "check" /\ at' = at + 1

(* The ecosystem is switched off, or has no parser.                        *)
SkipManifest ==
    /\ pc = "check"
    /\ NextManifest
    /\ UNCHANGED <<project, settings, reports, warned, verdict>>

(* A manifest that cannot be read or parsed aborts the run.                *)
CheckFails ==
    /\ pc = "check"
    /\ Exit("aborted")
    /\ UNCHANGED <<project, settings, at, reports, warned>>

Answers(m) ==
    {f \in [DOMAIN m.deps -> {"answered", "absent", "declined"}] :
        \A i \in DOMAIN m.deps :
            (~m.registry \/ ~IsCheckable(m.deps[i])) => f[i] = "answered"}

Filed(report) ==
    [m \in DOMAIN reports \cup {at} |-> IF m = at THEN report ELSE reports[m]]

(* The registries answer, or not, and every item is evaluated.             *)
CheckVersions ==
    /\ pc = "check"
    /\ LET m == project[at] IN
       \E answers \in Answers(m) :
           reports' = Filed([rows |-> [i \in DOMAIN m.deps |->
                                EvaluateItem(m.deps[i], m.registry, answers[i])],
                             declined |-> \E i \in DOMAIN m.deps :
                                              answers[i] = "declined",
                             unread |-> m.unread,
                             scanFailed |-> FALSE,
                             answers |-> answers])
    /\ IF settings.vuln
       THEN pc' = "scan" /\ UNCHANGED at
       ELSE NextManifest
    /\ UNCHANGED <<project, settings, warned, verdict>>

(* The OSV batch fails: no row is flipped, the report says so.             *)
ScanFails ==
    /\ pc = "scan"
    /\ \E i \in DOMAIN project[at].deps :
           OsvAsked(project[at].deps[i], reports[at].rows[i])
    /\ reports' = [reports EXCEPT ![at].scanFailed = TRUE]
    /\ NextManifest
    /\ UNCHANGED <<project, settings, warned, verdict>>

(* The OSV batch answers (or had nothing to ask).                          *)
ScanVulnerabilities ==
    /\ pc = "scan"
    /\ reports' = [reports EXCEPT ![at].rows =
                      [i \in DOMAIN @ |-> Flipped(project[at].deps[i], @[i])]]
    /\ pc' = "enrich"
    /\ UNCHANGED <<project, settings, at, warned, verdict>>

(* What a detail query leaves on a row: the records of every advisory,     *)
(* none when it fails, a prefix when pagination is cut short or, for a     *)
(* package asked about under two spellings, when one of the two fails.     *)
Detailed(row) ==
    IF PartialDetails THEN {[row EXCEPT !.details = D] : D \in SUBSET row.known}
                      ELSE {[row EXCEPT !.details = D] : D \in {{}, row.known}}

EnrichAdvisories ==
    /\ pc = "enrich"
    /\ \E rows \in [DOMAIN reports[at].rows ->
                       UNION {Detailed(reports[at].rows[i]) :
                              i \in DOMAIN reports[at].rows}] :
           /\ \A i \in DOMAIN rows : rows[i] \in Detailed(reports[at].rows[i])
           /\ reports' = [reports EXCEPT ![at].rows = rows]
    /\ NextManifest
    /\ UNCHANGED <<project, settings, warned, verdict>>

(* The severity rules, over the whole run whatever `--certify-answered`    *)
(* says.  A violation exits 1 before the `--fail-on` gate is consulted.    *)
JudgePolicy ==
    /\ pc = "policy"
    /\ CASE ~RequiresCvss(settings) ->
                pc' = "gate" /\ UNCHANGED <<warned, verdict>>
         [] RequiresCvss(settings)
              /\ ~GateIsAnswerable(reports, "vulnerable", FALSE) ->
                Exit("refused") /\ UNCHANGED warned
         [] OTHER ->
                /\ warned' = IF settings.unrated = "warn" THEN UnratedRows ELSE {}
                /\ IF PolicyViolated
                   THEN Exit("failed")
                   ELSE pc' = "gate" /\ UNCHANGED verdict
    /\ UNCHANGED <<project, settings, at, reports>>

JudgeGate ==
    /\ pc = "gate"
    /\ Exit(ExitCode(reports, settings.failOn, settings.certify))
    /\ UNCHANGED <<project, settings, at, reports, warned>>

Exited == pc = "done" /\ UNCHANGED vars

Next ==
    \/ Misconfigured \/ Begin \/ SkipManifest \/ CheckFails \/ CheckVersions
    \/ ScanFails \/ ScanVulnerabilities \/ EnrichAdvisories
    \/ JudgePolicy \/ JudgeGate \/ Exited

Spec == Init /\ [][Next]_vars

-----------------------------------------------------------------------------
IsRow(r) ==
    /\ r.status \in {"UpToDate", "PatchAvailable", "UpdateAvailable", "Outdated",
                     "Vulnerable", "Undetermined", "Error", "Git", "Local"}
    /\ r.origin \in {"None", "NotFound", "Unanswered", "Local"}
    /\ (r.origin # "None") = (r.status = "Error")
    /\ r.details \subseteq r.known
    /\ (r.known # {}) = (r.status = "Vulnerable")

(* The shape of the state, with what ties a row's status to its origin and *)
(* to its advisories: only an error has an origin, only a vulnerable row   *)
(* has advisories.                                                         *)
TypeOK ==
    /\ [project |-> project, settings |-> settings] \in Cases
    /\ pc \in {"start", "check", "scan", "enrich", "policy", "gate", "done"}
    /\ at \in 1 .. Len(project) + 1
    /\ DOMAIN reports \subseteq DOMAIN project
    /\ \A x \in RowIds : IsRow(PolicyRow(x))
    /\ warned \subseteq RowIds
    /\ (verdict = "running") = (pc # "done")
    /\ verdict \in {"running", "passed", "failed", "refused", "misconfigured",
                    "aborted"}

Dep(m, i) == project[m].deps[i]

(* The version in use was established: a lockfile pins it, or a registry   *)
(* answered and the constraint could be read.                              *)
Established(m, i) ==
    /\ IsCheckable(Dep(m, i))
    /\ \/ Dep(m, i).locked
       \/ /\ project[m].registry
          /\ reports[m].answers[i] = "answered"
          /\ Dep(m, i).constraint = "readable"

(* What the README exempts from the two named gates: a package its         *)
(* registry does not know, a version no front-end could read.              *)
Excused(m, i) ==
    \/ ~IsCheckable(Dep(m, i)) \/ ~project[m].registry
    \/ reports[m].answers[i] = "absent"
    \/ reports[m].answers[i] = "answered" /\ Dep(m, i).constraint = "tag"

(* README "Exit codes", `--fail-on vulnerable`: exit 0 means that no       *)
(* dependency of a certified manifest carries an advisory, short of those  *)
(* whose version was never established for a reason the README excuses.    *)
VulnerablePassIsClean ==
    verdict = "passed" /\ settings.failOn = "vulnerable" =>
        \A m \in Certified(reports, "vulnerable", settings.certify) :
            \A i \in DOMAIN project[m].deps :
                Dep(m, i).advisories # {} =>
                    Excused(m, i) /\ ~Established(m, i)

(* `--fail-on outdated`: exit 0 means that no dependency of a certified    *)
(* manifest is behind by more than a patch, short of the excused ones.     *)
OutdatedPassIsFresh ==
    verdict = "passed" /\ settings.failOn = "outdated" =>
        \A m \in Certified(reports, "outdated", settings.certify) :
            \A i \in DOMAIN project[m].deps :
                Dep(m, i).age \in {"UpdateAvailable", "Outdated"} => Excused(m, i)

(* `--fail-on any`: exit 0 means that every dependency of every manifest   *)
(* was checked and is current, and no dependency list went unread.         *)
AnyPassIsComplete ==
    verdict = "passed" /\ settings.failOn = "any" =>
        \A m \in DOMAIN reports :
            /\ ~project[m].unread
            /\ \A i \in DOMAIN project[m].deps :
                   \/ Dep(m, i).source \in {"git", "local"}
                   \/ /\ Established(m, i)
                      /\ reports[m].answers[i] = "answered"
                      /\ Dep(m, i).age = "UpToDate"
                      /\ Dep(m, i).advisories # {} => ~settings.vuln

(* "A finding still fails": an advisory against an established version, in *)
(* a manifest whose scan completed, never passes `--fail-on vulnerable`,   *)
(* whether or not `--certify-answered` left that manifest uncertified.     *)
FindingsStillFail ==
    settings.failOn \in {"vulnerable", "outdated"} =>
        \A m \in DOMAIN reports : \A i \in DOMAIN project[m].deps :
            (/\ Established(m, i)
             /\ Dep(m, i).advisories # {}
             /\ settings.vuln /\ ~reports[m].scanFailed) => verdict # "passed"

(* `--certify-answered` only relaxes: it may turn a refusal into a verdict *)
(* but never changes a verdict, and it has no effect under the other gates.*)
(* "Nothing certified is still a refusal": with or without it, a run in    *)
(* which no manifest had every registry answer passes no named gate.       *)
CertifyOnlyRelaxes ==
    LET whole   == ExitCode(reports, settings.failOn, FALSE)
        relaxed == ExitCode(reports, settings.failOn, TRUE)
    IN  pc = "gate" =>
            /\ whole # "refused" => relaxed = whole
            /\ settings.failOn \in {"none", "any"} => relaxed = whole
            /\ (/\ settings.failOn \in {"vulnerable", "outdated"}
                /\ DOMAIN reports # {}
                /\ \A m \in DOMAIN reports : \E i \in DOMAIN project[m].deps :
                       reports[m].answers[i] = "declined") =>
                   "passed" \notin {whole, relaxed}

OverLimit(a) ==
    ~a.withdrawn /\ (Band(a) = None \/ (a.score # None /\
                                         a.score >= ThresholdScore(settings)))

(* policy.rs, `UnratedPolicy`: "What it must never do is silently pass".   *)
(* A live advisory over the limit, or without any rating, of an            *)
(* established version never goes by without a failure or a warning,       *)
(* whatever became of its detail query - unless the user said `ignore`.    *)
PolicyNeverSilent ==
    (/\ verdict = "passed" /\ DOMAIN reports # {}
     /\ RequiresCvss(settings) /\ settings.unrated # "ignore") =>
        \A m \in DOMAIN reports : \A i \in DOMAIN project[m].deps :
            (/\ Established(m, i)
             /\ \E a \in Dep(m, i).advisories : OverLimit(a)) =>
                <<m, i>> \in warned

(* A severity rule alone fails the run only over an advisory still in      *)
(* force, or over one whose record could not be read under `fail`.         *)
PolicyFailureIsLive ==
    verdict = "failed" /\ settings.failOn = "none" =>
        \E m \in DOMAIN reports : \E i \in DOMAIN project[m].deps :
            \E a \in Dep(m, i).advisories :
                \/ ~a.withdrawn
                \/ settings.unrated = "fail" /\ reports[m].rows[i].details = {}

(* Exit 0 means, under each gate, what the README says it does.            *)
PassIsWhatItSays == VulnerablePassIsClean /\ OutdatedPassIsFresh /\ AnyPassIsComplete

(* `--certify-answered` relaxes, and hides no finding.                     *)
CertifyHidesNothing == CertifyOnlyRelaxes /\ FindingsStillFail

(* A severity rule speaks up over what is live, and over nothing else.     *)
PolicySpeaksUp == PolicyNeverSilent /\ PolicyFailureIsLive
=============================================================================
