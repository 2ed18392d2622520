----------------------------- MODULE GateProofs -----------------------------
(***************************************************************************)
(* Theorems about Gate, for every project, every setting and every         *)
(* outcome of every service call; and about Settings, for every command    *)
(* line, environment and configuration, edited meanwhile or not.           *)
(***************************************************************************)
EXTENDS Gate, Settings, NatSets

Statuses == {"UpToDate", "PatchAvailable", "UpdateAvailable", "Outdated",
             "Vulnerable", "Undetermined", "Error", "Git", "Local"}
Origins  == {"None", "NotFound", "Unanswered", "Local"}

AnyRow == [status : Statuses, origin : Origins,
           known : SUBSET Advisory, details : SUBSET Advisory]

AnyReport(m) ==
    [rows : [DOMAIN project[m].deps -> AnyRow], declined : BOOLEAN,
     unread : BOOLEAN, scanFailed : BOOLEAN, answers : Answers(project[m])]

(***************************************************************************)
(* The parts of the inductive invariant.                                   *)
(***************************************************************************)
(* What a row must say: what the registry's answer makes of the truth,     *)
(* flipped by a scan that was made and did not fail.                       *)
Base(m, i) == EvaluateItem(Dep(m, i), project[m].registry, reports[m].answers[i])

Scanned(m) ==
    /\ settings.vuln
    /\ ~reports[m].scanFailed
    /\ ~(pc = "scan" /\ m = at)

Meant(m, i) ==
    IF Scanned(m) THEN Flipped(Dep(m, i), Base(m, i)) ELSE Base(m, i)

(* A row says it, and its details are among the advisories it knows of:    *)
(* all or none of them, unless lists come back truncated.                  *)
Tells(row, meant) ==
    /\ row.status = meant.status /\ row.origin = meant.origin
    /\ row.known = meant.known
    /\ row.details \subseteq row.known
    /\ PartialDetails \/ row.details \in {{}, row.known}

Typed ==
    /\ [project |-> project, settings |-> settings] \in Cases
    /\ pc \in {"start", "check", "scan", "enrich", "policy", "gate", "done"}
    /\ at \in 1 .. Len(project) + 1
    /\ pc \in {"check", "scan", "enrich"} => at \in DOMAIN project
    /\ DOMAIN reports \subseteq DOMAIN project
    /\ \A m \in DOMAIN reports : reports[m] \in AnyReport(m)
    /\ (verdict = "running") = (pc # "done")
    /\ verdict \in {"running", "passed", "failed", "refused", "misconfigured",
                    "aborted"}

(* The reports say of the truth what was answered.                         *)
Faithful ==
    \A m \in DOMAIN reports :
        /\ reports[m].unread = project[m].unread
        /\ reports[m].declined = \E i \in DOMAIN project[m].deps :
                                     reports[m].answers[i] = "declined"
        /\ \A i \in DOMAIN project[m].deps : Tells(reports[m].rows[i], Meant(m, i))

(* A scan follows the check of its manifest, and where a gate needs scans  *)
(* they are made.                                                          *)
Ordered ==
    /\ pc = "start" => reports = <<>> /\ at = 1
    /\ pc \in {"scan", "enrich"} =>
           at \in DOMAIN reports /\ settings.vuln /\ ~reports[at].scanFailed
    /\ pc \notin {"start", "done"} \/ verdict \in {"passed", "failed"} =>
           Enforceable(settings)

(* What the policy let pass.                                               *)
PolicyHeld ==
    RequiresCvss(settings) =>
        /\ GateIsAnswerable(reports, "vulnerable", FALSE)
        /\ ~PolicyViolated
        /\ settings.unrated = "warn" => UnratedRows \subseteq warned

Decided ==
    /\ pc = "gate" => PolicyHeld
    /\ verdict = "passed" =>
           \/ DOMAIN reports = {}
           \/ /\ PolicyHeld
              /\ ExitCode(reports, settings.failOn, settings.certify) = "passed"
    /\ verdict = "failed" =>
           \/ RequiresCvss(settings) /\ PolicyViolated
           \/ ExitCode(reports, settings.failOn, settings.certify) = "failed"
    /\ warned \subseteq RowIds

IInv == Typed /\ Faithful /\ Ordered /\ Decided

-----------------------------------------------------------------------------
LEMMA CaseType ==
  ASSUME Typed
  PROVE  /\ IsSettings(settings)
         /\ Len(project) \in Nat
         /\ DOMAIN project = 1 .. Len(project)
         /\ project # <<>> => 1 \in DOMAIN project
         /\ \A m \in DOMAIN project : IsManifest(project[m])
<1>1. IsCase([project |-> project, settings |-> settings])
  BY GateAssumption DEF Typed
<1>2. /\ IsSettings(settings)
      /\ project \in Seq({project[m] : m \in DOMAIN project})
      /\ \A m \in DOMAIN project : IsManifest(project[m])
  BY <1>1 DEF IsCase
<1> QED
  BY <1>2

(* A row as the registry's answer makes it, and as the scan leaves it.     *)
LEMMA BaseType ==
  ASSUME NEW d, IsDependency(d), NEW hasRegistry, NEW answer \in {"answered", "absent", "declined"}
  PROVE  /\ EvaluateItem(d, hasRegistry, answer) \in AnyRow
         /\ IsRow(EvaluateItem(d, hasRegistry, answer))
         /\ EvaluateItem(d, hasRegistry, answer).known = {}
         /\ EvaluateItem(d, hasRegistry, answer).details = {}
BY DEF IsDependency, EvaluateItem, IsCheckable, Unfetchable, Evaluated, Row, AnyRow,
       IsRow, Statuses, Origins

LEMMA FlippedType ==
  ASSUME NEW d, IsDependency(d), NEW row \in AnyRow, IsRow(row),
         row.known = {}
  PROVE  /\ Flipped(d, row) \in AnyRow
         /\ IsRow(Flipped(d, row))
         /\ Flipped(d, row).details = row.details
         /\ Flipped(d, row).known \subseteq d.advisories
         /\ OsvAsked(d, row) => Flipped(d, row).known = d.advisories
         /\ OsvAsked(d, row) /\ d.advisories # {} => Flipped(d, row).status = "Vulnerable"
         /\ ~(OsvAsked(d, row) /\ d.advisories # {}) => Flipped(d, row) = row
BY DEF IsDependency, Flipped, AnyRow, IsRow, Statuses, Origins

LEMMA MeantType ==
  ASSUME Typed, NEW m \in DOMAIN reports, NEW i \in DOMAIN project[m].deps
  PROVE  /\ IsDependency(Dep(m, i))
         /\ reports[m].answers[i] \in {"answered", "absent", "declined"}
         /\ Base(m, i) \in AnyRow /\ IsRow(Base(m, i))
         /\ Base(m, i).known = {} /\ Base(m, i).details = {}
         /\ Meant(m, i) \in AnyRow /\ IsRow(Meant(m, i))
<1>1. IsManifest(project[m])
  BY CaseType DEF Typed
<1>2. IsDependency(Dep(m, i))
  BY <1>1 DEF IsManifest, Dep
<1>3. reports[m].answers[i] \in {"answered", "absent", "declined"}
  BY DEF Typed, AnyReport, Answers
<1>4. /\ Base(m, i) \in AnyRow /\ IsRow(Base(m, i))
      /\ Base(m, i).known = {} /\ Base(m, i).details = {}
  BY <1>2, <1>3, BaseType DEF Base
<1> QED
  BY <1>2, <1>3, <1>4, FlippedType DEF Meant

(***************************************************************************)
(* The invariant holds at the start, and every step keeps it.              *)
(***************************************************************************)
LEMMA InitInv == Init => IInv
<1> SUFFICES ASSUME Init PROVE IInv
  OBVIOUS
<1>1. PICK c \in Cases : project = c.project /\ settings = c.settings
  BY DEF Init
<1>2. IsCase(c) /\ c = [project |-> project, settings |-> settings]
  BY <1>1, GateAssumption DEF IsCase
<1>3. Len(project) \in Nat
  BY <1>1, <1>2 DEF IsCase
<1>4. DOMAIN reports = {}
  BY DEF Init
<1>5. Typed
  BY <1>2, <1>3, <1>4 DEF Init, Typed
<1>6. Faithful
  BY <1>4 DEF Faithful
<1>7. Ordered /\ Decided
  BY DEF Init, Ordered, Decided
<1> QED
  BY <1>5, <1>6, <1>7 DEF IInv

(* A step that leaves the reports alone, and no scan half-way.             *)
LEMMA SameReports ==
  ASSUME IInv, UNCHANGED <<project, settings, reports>>,
         \/ UNCHANGED at /\ (pc' = "scan") = (pc = "scan")
         \/ pc # "scan" /\ pc' # "scan"
  PROVE  /\ Faithful'
         /\ DOMAIN reports' \subseteq DOMAIN project'
         /\ \A m \in DOMAIN reports' : reports'[m] \in AnyReport(m)'
         /\ [project |-> project', settings |-> settings'] \in Cases
         /\ UNCHANGED <<RowIds, UnratedRows, PolicyViolated>>
<1>1. \A m \in DOMAIN reports : UNCHANGED Scanned(m) /\ UNCHANGED AnyReport(m)
  BY DEF Scanned, AnyReport
<1>2. \A m \in DOMAIN reports : \A i \in DOMAIN project[m].deps : UNCHANGED Meant(m, i)
  BY <1>1 DEF Meant, Base, Dep
<1>3. Faithful'
  BY <1>2 DEF IInv, Faithful
<1>4. UNCHANGED RowIds
  BY DEF RowIds
<1>5. UNCHANGED <<UnratedRows, PolicyViolated>>
  BY <1>4 DEF UnratedRows, PolicyViolated, PolicyRow
<1> QED
  BY <1>1, <1>3, <1>4, <1>5 DEF IInv, Typed

LEMMA StartStep ==
  ASSUME IInv, Misconfigured \/ Begin
  PROVE  IInv'
<1>1. Typed'
  BY CaseType, SameReports
  DEF IInv, Typed, Ordered, Misconfigured, Begin, Exit
<1>2. Faithful'
  BY SameReports DEF Misconfigured, Begin, Exit
<1>3. Ordered' /\ Decided'
  BY SameReports DEF IInv, Typed, Ordered, Decided, Misconfigured, Begin, Exit
<1> QED
  BY <1>1, <1>2, <1>3 DEF IInv

LEMMA PassedOver ==
  ASSUME IInv, SkipManifest \/ CheckFails
  PROVE  IInv'
<1>1. Typed'
  BY CaseType, SameReports DEF IInv, Typed, SkipManifest, NextManifest, CheckFails, Exit
<1>2. Faithful'
  BY SameReports DEF SkipManifest, NextManifest, CheckFails, Exit
<1>3. Ordered' /\ Decided'
  BY SameReports DEF IInv, Typed, Ordered, Decided, SkipManifest, NextManifest, CheckFails, Exit
<1> QED
  BY <1>1, <1>2, <1>3 DEF IInv

(* The registries' answers: a new report, of rows not yet scanned.         *)
LEMMA FiledReport ==
  ASSUME IInv, CheckVersions
  PROVE  /\ at \in DOMAIN project
         /\ pc = "check" /\ UNCHANGED <<project, settings, warned, verdict>>
         /\ DOMAIN reports' = DOMAIN reports \cup {at}
         /\ \A m \in DOMAIN reports \ {at} : reports'[m] = reports[m]
         /\ reports'[at] \in AnyReport(at)
         /\ reports'[at].unread = project[at].unread
         /\ reports'[at].declined = \E i \in DOMAIN project[at].deps :
                                       reports'[at].answers[i] = "declined"
         /\ ~reports'[at].scanFailed
         /\ \A i \in DOMAIN project[at].deps :
               reports'[at].rows[i] = EvaluateItem(Dep(at, i), project[at].registry,
                                                   reports'[at].answers[i])
<1>1. /\ at \in DOMAIN project
      /\ pc = "check" /\ UNCHANGED <<project, settings, warned, verdict>>
  BY DEF IInv, Typed, CheckVersions
<1>2. IsManifest(project[at])
  BY <1>1, CaseType DEF IInv
<1>3. PICK answers \in Answers(project[at]) :
         reports' = Filed([rows |-> [i \in DOMAIN project[at].deps |->
                              EvaluateItem(project[at].deps[i], project[at].registry, answers[i])],
                           declined |-> \E i \in DOMAIN project[at].deps :
                                            answers[i] = "declined",
                           unread |-> project[at].unread,
                           scanFailed |-> FALSE,
                           answers |-> answers])
  BY DEF CheckVersions
<1> DEFINE rows == [i \in DOMAIN project[at].deps |->
                      EvaluateItem(project[at].deps[i], project[at].registry, answers[i])]
           declined == \E i \in DOMAIN project[at].deps : answers[i] = "declined"
           report == [rows |-> rows, declined |-> declined, unread |-> project[at].unread,
                      scanFailed |-> FALSE, answers |-> answers]
<1>4. rows \in [DOMAIN project[at].deps -> AnyRow]
  <2>1. ASSUME NEW i \in DOMAIN project[at].deps
        PROVE  EvaluateItem(project[at].deps[i], project[at].registry, answers[i]) \in AnyRow
    BY <1>2, BaseType DEF IsManifest, Answers
  <2> QED
    BY <2>1
<1>5. report \in AnyReport(at)
  BY <1>2, <1>4 DEF AnyReport, IsManifest
<1>6. /\ DOMAIN reports' = DOMAIN reports \cup {at}
      /\ reports'[at] = report
      /\ \A m \in DOMAIN reports \ {at} : reports'[m] = reports[m]
  BY <1>3 DEF Filed
<1> QED
  BY <1>1, <1>5, <1>6 DEF Dep

(* What follows a manifest: the next one, or the verdicts.                 *)
LEMMA NextType ==
  ASSUME Typed, NextManifest, pc \in {"check", "scan", "enrich"}
  PROVE  /\ at' \in 1 .. Len(project) + 1
         /\ pc' \in {"check", "policy"}
         /\ pc' = "check" => at' \in DOMAIN project
<1>1. at \in DOMAIN project
  BY DEF Typed
<1> QED
  BY <1>1, CaseType DEF NextManifest

LEMMA CheckStep ==
  ASSUME IInv, CheckVersions
  PROVE  IInv'
<1>0. /\ at \in DOMAIN project
      /\ pc = "check" /\ UNCHANGED <<project, settings, warned, verdict>>
      /\ DOMAIN reports' = DOMAIN reports \cup {at}
      /\ \A m \in DOMAIN reports \ {at} : reports'[m] = reports[m]
      /\ reports'[at] \in AnyReport(at)
  BY FiledReport
<1>1. IF settings.vuln THEN pc' = "scan" /\ UNCHANGED at ELSE NextManifest
  BY DEF CheckVersions
<1>2. Typed'
  <2>1. at' \in 1 .. Len(project) + 1 /\ (pc' \in {"check", "scan", "enrich"} => at' \in DOMAIN project)
    BY <1>0, <1>1, NextType DEF IInv, Typed
  <2>2. \A m \in DOMAIN reports' : reports'[m] \in AnyReport(m)
    BY <1>0 DEF IInv, Typed
  <2>3. \A m \in DOMAIN reports' : AnyReport(m)' = AnyReport(m)
    BY <1>0 DEF AnyReport
  <2> QED
    BY <1>0, <1>1, <2>1, <2>2, <2>3 DEF IInv, Typed, NextManifest
<1>3. Faithful'
  <2>1. ASSUME NEW m \in DOMAIN reports, m # at, NEW i \in DOMAIN project[m].deps
        PROVE  UNCHANGED <<Meant(m, i), reports[m]>>
    <3>1. ~(pc = "scan" /\ m = at) /\ ~(pc' = "scan" /\ m = at')
      BY <1>0, <2>1, <1>1 DEF NextManifest
    <3>2. UNCHANGED <<settings, project, reports[m]>>
      BY <1>0, <2>1
    <3>3. UNCHANGED Scanned(m)
      BY <3>1, <3>2 DEF Scanned
    <3>4. UNCHANGED Base(m, i)
      BY <3>2 DEF Base, Dep
    <3> QED
      BY <3>2, <3>3, <3>4 DEF Meant, Dep
  <2>2. PICK n \in DOMAIN reports' : n = at
    BY <1>0
  <2>3. ~Scanned(n)'
    <3>1. settings'.vuln => pc' = "scan" /\ at' = at
      BY <1>0, <1>1
    <3> QED
      BY <2>2, <3>1 DEF Scanned
  <2>4. ASSUME NEW i \in DOMAIN project[n].deps
        PROVE  Tells(reports'[n].rows[i], Meant(n, i)')
    <3>1. reports'[n].rows[i] = EvaluateItem(Dep(n, i), project[n].registry,
                                             reports'[n].answers[i])
      BY <2>2, FiledReport
    <3>2. reports'[n].rows[i] = Meant(n, i)'
      BY <1>0, <2>3, <3>1 DEF Meant, Base, Dep
    <3>3. IsDependency(Dep(n, i)) /\ reports'[n].answers[i] \in {"answered", "absent", "declined"}
      BY <1>0, <2>2, CaseType DEF IInv, IsManifest, Dep, AnyReport, Answers
    <3>4. reports'[n].rows[i].known = {} /\ reports'[n].rows[i].details = {}
      BY <3>1, <3>3, BaseType
    <3> QED
      BY <3>2, <3>4 DEF Tells
  <2>5. /\ reports'[n].unread = project'[n].unread
        /\ reports'[n].declined = \E i \in DOMAIN project'[n].deps :
                                       reports'[n].answers[i] = "declined"
    BY <1>0, <2>2, FiledReport
  <2>6. ASSUME NEW m \in DOMAIN reports, m # at
        PROVE  /\ reports'[m].unread = project'[m].unread
               /\ reports'[m].declined = \E i \in DOMAIN project'[m].deps :
                                              reports'[m].answers[i] = "declined"
               /\ \A i \in DOMAIN project'[m].deps :
                      Tells(reports'[m].rows[i], Meant(m, i)')
    BY <1>0, <2>1, <2>6, ZenonT(40) DEF IInv, Faithful
  <2> QED
    BY <1>0, <2>2, <2>4, <2>5, <2>6 DEF Faithful
<1>4. Ordered'
  <2>1. ~reports'[at].scanFailed
    BY FiledReport
  <2> QED
    BY <1>0, <1>1, <2>1 DEF IInv, Ordered, Typed, NextManifest
<1>5. Decided'
  <2>1. RowIds \subseteq RowIds'
    BY <1>0 DEF RowIds, IInv, Typed, AnyReport
  <2> QED
    BY <1>0, <1>1, <2>1 DEF IInv, Decided, Typed, NextManifest
<1> QED
  BY <1>2, <1>3, <1>4, <1>5 DEF IInv

(* A step that rewrites the report of the manifest being checked.          *)
LEMMA RewrittenReport ==
  ASSUME IInv, NEW n, n = at, n \in DOMAIN reports,
         pc \in {"scan", "enrich"}, UNCHANGED <<project, settings>>,
         DOMAIN reports' = DOMAIN reports,
         \A m \in DOMAIN reports \ {n} : reports'[m] = reports[m],
         reports'[n] \in AnyReport(n),
         reports'[n].unread = reports[n].unread,
         reports'[n].declined = reports[n].declined,
         reports'[n].answers = reports[n].answers,
         pc' # "scan",
         \A i \in DOMAIN project[n].deps : Tells(reports'[n].rows[i], Meant(n, i)')
  PROVE  /\ Faithful'
         /\ DOMAIN reports' \subseteq DOMAIN project'
         /\ \A m \in DOMAIN reports' : reports'[m] \in AnyReport(m)'
         /\ [project |-> project', settings |-> settings'] \in Cases
         /\ UNCHANGED RowIds
<1>1. ASSUME NEW m \in DOMAIN reports, m # n, NEW i \in DOMAIN project[m].deps
      PROVE  UNCHANGED Meant(m, i)
  <2>1. UNCHANGED Scanned(m)
    BY <1>1 DEF Scanned
  <2>2. UNCHANGED Base(m, i)
    BY <1>1 DEF Base, Dep
  <2> QED
    BY <2>1, <2>2 DEF Meant, Dep
<1>2. Faithful'
  <2>1. ASSUME NEW m \in DOMAIN reports, m # n
        PROVE  /\ reports'[m].unread = project'[m].unread
               /\ reports'[m].declined = \E i \in DOMAIN project'[m].deps :
                                              reports'[m].answers[i] = "declined"
               /\ \A i \in DOMAIN project'[m].deps :
                      Tells(reports'[m].rows[i], Meant(m, i)')
    <3>1. /\ reports[m].unread = project[m].unread
          /\ reports[m].declined = \E i \in DOMAIN project[m].deps :
                                       reports[m].answers[i] = "declined"
          /\ \A i \in DOMAIN project[m].deps : Tells(reports[m].rows[i], Meant(m, i))
      BY DEF IInv, Faithful
    <3>2. reports'[m] = reports[m] /\ project' = project
      BY <2>1
    <3>3. \A i \in DOMAIN project[m].deps : Tells(reports'[m].rows[i], Meant(m, i)')
      BY <1>1, <2>1, <3>1, <3>2
    <3> QED
      BY <3>1, <3>2, <3>3
  <2>2. /\ reports[n].unread = project[n].unread
        /\ reports[n].declined = \E i \in DOMAIN project[n].deps :
                                     reports[n].answers[i] = "declined"
    BY DEF IInv, Faithful
  <2>3. /\ reports'[n].unread = project'[n].unread
        /\ reports'[n].declined = \E i \in DOMAIN project'[n].deps :
                                       reports'[n].answers[i] = "declined"
    BY <2>2
  <2>4. \A i \in DOMAIN project'[n].deps : Tells(reports'[n].rows[i], Meant(n, i)')
    OBVIOUS
  <2>5. ASSUME NEW m \in DOMAIN reports'
        PROVE  /\ reports'[m].unread = project'[m].unread
               /\ reports'[m].declined = \E i \in DOMAIN project'[m].deps :
                                              reports'[m].answers[i] = "declined"
               /\ \A i \in DOMAIN project'[m].deps :
                      Tells(reports'[m].rows[i], Meant(m, i)')
    <3>1. CASE m = n
      BY <2>3, <2>4, <3>1, Zenon
    <3>2. CASE m # n
      <4>1. m \in DOMAIN reports
        OBVIOUS
      <4> QED
        BY <2>1, <3>2, <4>1, Zenon
    <3> QED
      BY <3>1, <3>2, Zenon
  <2> QED
    BY <2>5, Zenon DEF Faithful
<1>3. \A m : UNCHANGED AnyReport(m)
  BY DEF AnyReport
<1>4. \A m \in DOMAIN reports : UNCHANGED (DOMAIN reports[m].rows)
  BY DEF IInv, Typed, AnyReport
<1>5. UNCHANGED RowIds
  BY <1>4 DEF RowIds
<1> QED
  BY <1>2, <1>3, <1>5 DEF IInv, Typed

(* A failed scan leaves the rows alone, and says so.                       *)
LEMMA ScanFailsStep ==
  ASSUME IInv, ScanFails
  PROVE  IInv'
<1>1. PICK n \in DOMAIN reports : n = at
  BY DEF IInv, Ordered, ScanFails
<1>2. /\ reports' = [reports EXCEPT ![n].scanFailed = TRUE]
      /\ reports[n] \in AnyReport(n)
  BY <1>1 DEF ScanFails, IInv, Typed
<1>3. /\ DOMAIN reports' = DOMAIN reports
      /\ \A m \in DOMAIN reports \ {n} : reports'[m] = reports[m]
      /\ reports'[n] \in AnyReport(n)
      /\ reports'[n].rows = reports[n].rows
      /\ reports'[n].unread = reports[n].unread
      /\ reports'[n].declined = reports[n].declined
      /\ reports'[n].answers = reports[n].answers
      /\ reports'[n].scanFailed
  BY <1>1, <1>2 DEF AnyReport
<1>4. /\ NextManifest /\ pc = "scan" /\ pc' # "scan"
      /\ UNCHANGED <<project, settings, warned, verdict>>
  BY DEF ScanFails, NextManifest
<1>5. ASSUME NEW i \in DOMAIN project[n].deps
      PROVE  Tells(reports'[n].rows[i], Meant(n, i)')
  <2>1. ~Scanned(n) /\ ~Scanned(n)'
    BY <1>1, <1>3, <1>4 DEF Scanned
  <2>2. UNCHANGED Meant(n, i)
    BY <1>3, <1>4, <2>1 DEF Meant, Base, Dep
  <2>3. Tells(reports[n].rows[i], Meant(n, i))
    BY <1>1 DEF IInv, Faithful
  <2> QED
    BY <1>3, <2>2, <2>3
<1>6. /\ Faithful'
      /\ DOMAIN reports' \subseteq DOMAIN project'
      /\ \A m \in DOMAIN reports' : reports'[m] \in AnyReport(m)'
      /\ [project |-> project', settings |-> settings'] \in Cases
      /\ UNCHANGED RowIds
  BY <1>1, <1>3, <1>4, <1>5, RewrittenReport
<1>7. Typed'
  BY <1>4, <1>6, NextType DEF IInv, Typed
<1>8. Ordered' /\ Decided'
  BY <1>4, <1>6, NextType DEF IInv, Typed, Ordered, Decided
<1> QED
  BY <1>6, <1>7, <1>8 DEF IInv

(* A scan that answers flips the rows it has advisories for.               *)
LEMMA ScanStep ==
  ASSUME IInv, ScanVulnerabilities
  PROVE  IInv'
<1>1. PICK n \in DOMAIN reports : n = at
  BY DEF IInv, Ordered, ScanVulnerabilities
<1>2. /\ reports' = [reports EXCEPT ![n].rows =
                        [i \in DOMAIN @ |-> Flipped(project[n].deps[i], @[i])]]
      /\ reports[n] \in AnyReport(n)
  BY <1>1 DEF ScanVulnerabilities, IInv, Typed
<1>3. /\ pc = "scan" /\ pc' = "enrich"
      /\ UNCHANGED <<project, settings, at, warned, verdict>>
  BY DEF ScanVulnerabilities
<1> DEFINE flipped == [i \in DOMAIN project[n].deps |->
                          Flipped(Dep(n, i), reports[n].rows[i])]
<1>4. ASSUME NEW i \in DOMAIN project[n].deps
      PROVE  /\ reports[n].rows[i] \in AnyRow
             /\ Meant(n, i) = Base(n, i)
             /\ Tells(reports[n].rows[i], Base(n, i))
             /\ IsRow(reports[n].rows[i])
             /\ reports[n].rows[i].known = {}
             /\ reports[n].rows[i] = Base(n, i)
  <2>1. reports[n].rows[i] \in AnyRow
    BY <1>2 DEF AnyReport
  <2>2. Meant(n, i) = Base(n, i)
    BY <1>1, <1>3 DEF Meant, Scanned
  <2>3. Tells(reports[n].rows[i], Base(n, i))
    BY <1>1, <2>2 DEF IInv, Faithful
  <2>4. /\ IsRow(Base(n, i)) /\ Base(n, i).known = {}
        /\ Base(n, i) \in AnyRow /\ Base(n, i).details = {}
    BY MeantType DEF IInv
  <2>5. reports[n].rows[i] = Base(n, i)
    BY <2>1, <2>3, <2>4, SMTT(30) DEF Tells, AnyRow
  <2> QED
    BY <2>1, <2>2, <2>3, <2>4, <2>5
<1>5. flipped \in [DOMAIN project[n].deps -> AnyRow]
  <2>1. ASSUME NEW i \in DOMAIN project[n].deps
        PROVE  Flipped(Dep(n, i), reports[n].rows[i]) \in AnyRow
    BY <1>4, MeantType, FlippedType DEF IInv
  <2> QED
    BY <2>1
<1>6. /\ DOMAIN reports' = DOMAIN reports
      /\ \A m \in DOMAIN reports \ {n} : reports'[m] = reports[m]
      /\ reports'[n] = [reports[n] EXCEPT !.rows = flipped]
  BY <1>1, <1>2 DEF AnyReport, Dep
<1>7. /\ reports'[n] \in AnyReport(n)
      /\ reports'[n].rows = flipped
      /\ reports'[n].scanFailed = reports[n].scanFailed
      /\ reports'[n].unread = reports[n].unread
      /\ reports'[n].declined = reports[n].declined
      /\ reports'[n].answers = reports[n].answers
  BY <1>2, <1>5, <1>6 DEF AnyReport
<1>8. ASSUME NEW i \in DOMAIN project[n].deps
      PROVE  Tells(reports'[n].rows[i], Meant(n, i)')
  <2>1. reports'[n].rows[i] = Flipped(Dep(n, i), Base(n, i))
    BY <1>4, <1>7
  <2>2. Base(n, i)' = Base(n, i)
    BY <1>3, <1>7 DEF Base, Dep
  <2>4. Meant(n, i)' = Flipped(Dep(n, i), Base(n, i))
    <3>1. settings.vuln /\ ~reports[n].scanFailed
      BY <1>1, <1>3 DEF IInv, Ordered
    <3>2. Scanned(n)'
      BY <1>3, <1>7, <3>1 DEF Scanned
    <3> QED
      BY <1>3, <2>2, <3>2 DEF Meant, Dep
  <2>5. Flipped(Dep(n, i), Base(n, i)).details = {}
    BY MeantType, FlippedType DEF IInv
  <2> QED
    BY <2>1, <2>4, <2>5 DEF Tells
<1>9. /\ Faithful'
      /\ DOMAIN reports' \subseteq DOMAIN project'
      /\ \A m \in DOMAIN reports' : reports'[m] \in AnyReport(m)'
      /\ [project |-> project', settings |-> settings'] \in Cases
      /\ UNCHANGED RowIds
  BY <1>1, <1>3, <1>6, <1>7, <1>8, RewrittenReport
<1>10. Typed'
  BY <1>3, <1>9 DEF IInv, Typed
<1>11. Ordered' /\ Decided'
  BY <1>1, <1>3, <1>6, <1>7, <1>9 DEF IInv, Typed, Ordered, Decided
<1> QED
  BY <1>9, <1>10, <1>11 DEF IInv

(* What becomes of the records behind a row's advisories.                  *)
LEMMA EnrichStep ==
  ASSUME IInv, EnrichAdvisories
  PROVE  IInv'
<1>1. PICK n \in DOMAIN reports : n = at
  BY DEF IInv, Ordered, EnrichAdvisories
<1>2. /\ pc = "enrich" /\ NextManifest /\ pc' \in {"check", "policy"}
      /\ UNCHANGED <<project, settings, warned, verdict>>
      /\ reports[n] \in AnyReport(n)
  BY <1>1, NextType DEF EnrichAdvisories, IInv, Typed
<1>3. PICK rows :
         /\ DOMAIN rows = DOMAIN reports[n].rows
         /\ rows = [i \in DOMAIN rows |-> rows[i]]
         /\ \A i \in DOMAIN rows : rows[i] \in Detailed(reports[n].rows[i])
         /\ reports' = [reports EXCEPT ![n].rows = rows]
  <2>1. PICK rows \in [DOMAIN reports[at].rows ->
                          UNION {Detailed(reports[at].rows[i]) :
                                 i \in DOMAIN reports[at].rows}] :
           /\ \A i \in DOMAIN rows : rows[i] \in Detailed(reports[at].rows[i])
           /\ reports' = [reports EXCEPT ![at].rows = rows]
    BY DEF EnrichAdvisories
  <2>2. DOMAIN rows = DOMAIN reports[at].rows /\ rows = [i \in DOMAIN rows |-> rows[i]]
    BY <2>1
  <2> QED
    BY <1>1, <2>1, <2>2
<1>4. DOMAIN rows = DOMAIN project[n].deps
  BY <1>2, <1>3 DEF AnyReport
<1>5. ASSUME NEW i \in DOMAIN project[n].deps
      PROVE  /\ rows[i] \in AnyRow
             /\ rows[i].status = reports[n].rows[i].status
             /\ rows[i].origin = reports[n].rows[i].origin
             /\ rows[i].known = reports[n].rows[i].known
             /\ rows[i].details \subseteq rows[i].known
             /\ PartialDetails \/ rows[i].details \in {{}, rows[i].known}
  <2>1. reports[n].rows[i] \in AnyRow
    BY <1>2 DEF AnyReport
  <2>2. rows[i] \in Detailed(reports[n].rows[i])
    BY <1>3, <1>4
  <2>3. PICK D \in SUBSET reports[n].rows[i].known :
           /\ rows[i] = [reports[n].rows[i] EXCEPT !.details = D]
           /\ PartialDetails \/ D \in {{}, reports[n].rows[i].known}
    BY <2>2 DEF Detailed
  <2> QED
    BY <2>1, <2>3 DEF AnyRow
<1>6. rows \in [DOMAIN project[n].deps -> AnyRow]
  BY <1>3, <1>4, <1>5
<1>7. /\ DOMAIN reports' = DOMAIN reports
      /\ \A m \in DOMAIN reports \ {n} : reports'[m] = reports[m]
      /\ reports'[n] = [reports[n] EXCEPT !.rows = rows]
  BY <1>3
<1>8. /\ reports'[n] \in AnyReport(n)
      /\ reports'[n].rows = rows
      /\ reports'[n].scanFailed = reports[n].scanFailed
      /\ reports'[n].unread = reports[n].unread
      /\ reports'[n].declined = reports[n].declined
      /\ reports'[n].answers = reports[n].answers
  BY <1>2, <1>6, <1>7 DEF AnyReport
<1>9. ASSUME NEW i \in DOMAIN project[n].deps
      PROVE  Tells(reports'[n].rows[i], Meant(n, i)')
  <2>1. Tells(reports[n].rows[i], Meant(n, i))
    BY <1>1 DEF IInv, Faithful
  <2>2. UNCHANGED Scanned(n)
    BY <1>2, <1>8 DEF Scanned
  <2>3. UNCHANGED Meant(n, i)
    BY <1>2, <1>8, <2>2 DEF Meant, Base, Dep
  <2> QED
    BY <1>5, <1>8, <2>1, <2>3 DEF Tells
<1>10. /\ Faithful'
       /\ DOMAIN reports' \subseteq DOMAIN project'
       /\ \A m \in DOMAIN reports' : reports'[m] \in AnyReport(m)'
       /\ [project |-> project', settings |-> settings'] \in Cases
       /\ UNCHANGED RowIds
  BY <1>1, <1>2, <1>7, <1>8, <1>9, RewrittenReport
<1>11. Typed'
  BY <1>2, <1>10, NextType DEF IInv, Typed
<1>12. Ordered' /\ Decided'
  BY <1>2, <1>10 DEF IInv, Typed, Ordered, Decided
<1> QED
  BY <1>10, <1>11, <1>12 DEF IInv

(* The severity rules, and the gate.                                       *)
LEMMA VerdictStep ==
  ASSUME IInv, JudgePolicy \/ JudgeGate
  PROVE  IInv'
<1>1. /\ UNCHANGED <<project, settings, reports, at>>
      /\ pc \in {"policy", "gate"} /\ pc' \in {"gate", "done"}
  BY DEF JudgePolicy, JudgeGate, Exit
<1>2. /\ Faithful'
      /\ DOMAIN reports' \subseteq DOMAIN project'
      /\ \A m \in DOMAIN reports' : reports'[m] \in AnyReport(m)'
      /\ [project |-> project', settings |-> settings'] \in Cases
      /\ UNCHANGED <<RowIds, UnratedRows, PolicyViolated>>
  BY <1>1, SameReports
<1>3. ExitCode(reports, settings.failOn, settings.certify) \in {"refused", "failed", "passed"}
  BY DEF ExitCode
<1>4. CASE JudgeGate
  <2>1. Typed'
    BY <1>2, <1>3, <1>4 DEF IInv, Typed, JudgeGate, Exit
  <2>2. Ordered' /\ Decided'
    BY <1>2, <1>3, <1>4 DEF IInv, Typed, Ordered, Decided, PolicyHeld, JudgeGate, Exit
  <2> QED
    BY <1>2, <2>1, <2>2 DEF IInv
<1>5. CASE JudgePolicy
  <2>1. Typed'
    BY <1>2, <1>5 DEF IInv, Typed, JudgePolicy, Exit
  <2>2. Ordered'
    BY <1>2, <1>5 DEF IInv, Typed, Ordered, JudgePolicy, Exit
  <2>3. UnratedRows \subseteq RowIds
    BY DEF UnratedRows
  <2>4. Decided'
    BY <1>2, <1>5, <2>3 DEF IInv, Typed, Decided, PolicyHeld, JudgePolicy, Exit
  <2> QED
    BY <1>2, <2>1, <2>2, <2>4 DEF IInv
<1> QED
  BY <1>4, <1>5

LEMMA InvStep == IInv /\ [Next]_vars => IInv'
<1> SUFFICES ASSUME IInv, [Next]_vars PROVE IInv'
  OBVIOUS
<1>1. CASE UNCHANGED vars
  <2>1. Faithful' /\ \A m \in DOMAIN reports' : reports'[m] \in AnyReport(m)'
    BY <1>1, SameReports DEF vars
  <2>2. UNCHANGED <<RowIds, UnratedRows, PolicyViolated>>
    BY <1>1, SameReports DEF vars
  <2> QED
    BY <1>1, <2>1, <2>2 DEF vars, IInv, Typed, Ordered, Decided, PolicyHeld
<1> QED
  BY <1>1, StartStep, PassedOver, CheckStep, ScanFailsStep, ScanStep, EnrichStep,
     VerdictStep DEF Next, Exited

LEMMA Invariant == Spec => []IInv
  BY InitInv, InvStep, PTL DEF Spec

-----------------------------------------------------------------------------
(***************************************************************************)
(* What the invariant says of the exit code.                               *)
(***************************************************************************)
(* A finished row.                                                         *)
LEMMA RowFacts ==
  ASSUME IInv, NEW m \in DOMAIN reports, NEW i \in DOMAIN project[m].deps
  PROVE  /\ m \in DOMAIN project /\ IsManifest(project[m]) /\ IsDependency(Dep(m, i))
         /\ DOMAIN reports[m].rows = DOMAIN project[m].deps
         /\ reports[m].answers[i] \in {"answered", "absent", "declined"}
         /\ (~project[m].registry \/ ~IsCheckable(Dep(m, i))) =>
                reports[m].answers[i] = "answered"
         /\ reports[m].rows[i] \in AnyRow
         /\ Tells(reports[m].rows[i], Meant(m, i))
         /\ Base(m, i) \in AnyRow /\ IsRow(Base(m, i))
         /\ Base(m, i).known = {}
         /\ IsRow(Meant(m, i))
         /\ IsRow(reports[m].rows[i])
<1>1. reports[m] \in AnyReport(m) /\ m \in DOMAIN project
  BY DEF IInv, Typed
<1>2. IsManifest(project[m])
  BY <1>1, CaseType DEF IInv
<1>3. Tells(reports[m].rows[i], Meant(m, i))
  BY DEF IInv, Faithful
<1>4. /\ IsDependency(Dep(m, i))
      /\ reports[m].answers[i] \in {"answered", "absent", "declined"}
      /\ Base(m, i) \in AnyRow /\ IsRow(Base(m, i)) /\ Base(m, i).known = {}
      /\ Meant(m, i) \in AnyRow /\ IsRow(Meant(m, i))
  BY MeantType DEF IInv
<1>5. IsRow(reports[m].rows[i])
  BY <1>3, <1>4 DEF Tells, IsRow
<1>6. /\ reports[m].rows[i] \in AnyRow
      /\ DOMAIN reports[m].rows = DOMAIN project[m].deps
  BY <1>1 DEF AnyReport
<1>7. (~project[m].registry \/ ~IsCheckable(Dep(m, i))) => reports[m].answers[i] = "answered"
  BY <1>1 DEF AnyReport, Answers, Dep
<1> QED
  BY <1>1, <1>2, <1>3, <1>4, <1>5, <1>6, <1>7

(* The state keeps its shape: only an error has an origin, only a          *)
(* vulnerable row has advisories, a warning names a row of a report.       *)
THEOREM GateTypeOK == Spec => []TypeOK
<1>1. IInv => TypeOK
  <2> SUFFICES ASSUME IInv PROVE TypeOK
    OBVIOUS
  <2>1. ASSUME NEW x \in RowIds PROVE IsRow(PolicyRow(x))
    <3>1. PICK m \in DOMAIN reports : \E i \in DOMAIN reports[m].rows : x = <<m, i>>
      BY <2>1 DEF RowIds
    <3>2. DOMAIN reports[m].rows = DOMAIN project[m].deps
      BY <3>1 DEF IInv, Typed, AnyReport
    <3> QED
      BY <3>1, <3>2, RowFacts DEF PolicyRow
  <2> QED
    BY <2>1 DEF IInv, Typed, Decided, TypeOK
<1> QED
  BY <1>1, Invariant, PTL

(* What a row that raised no alarm stands for, in a scan that was made.    *)
LEMMA Unflipped ==
  ASSUME IInv, NEW m \in DOMAIN reports, NEW i \in DOMAIN project[m].deps,
         Scanned(m), reports[m].rows[i].status # "Vulnerable"
  PROVE  /\ Dep(m, i).advisories = {} \/ ~OsvAsked(Dep(m, i), Base(m, i))
         /\ reports[m].rows[i].status = Base(m, i).status
         /\ reports[m].rows[i].origin = Base(m, i).origin
<1>1. Meant(m, i) = Flipped(Dep(m, i), Base(m, i)) /\ Meant(m, i).status # "Vulnerable"
  BY RowFacts DEF Meant, Tells
<1>2. ~(OsvAsked(Dep(m, i), Base(m, i)) /\ Dep(m, i).advisories # {})
  BY <1>1, RowFacts, FlippedType
<1>3. Meant(m, i) = Base(m, i)
  BY <1>1, <1>2 DEF Flipped
<1> QED
  BY <1>2, <1>3, RowFacts DEF Tells

(* What a gate that passed has found out.                                  *)
LEMMA Passed ==
  ASSUME IInv, verdict = "passed", NEW m \in DOMAIN reports
  PROVE  /\ pc = "done" /\ Enforceable(settings)
         /\ GateIsAnswerable(reports, settings.failOn, settings.certify)
         /\ ~Triggered(reports, settings.failOn, settings.certify)
         /\ Scanned(m) <=> settings.vuln /\ ~reports[m].scanFailed
         /\ \A i \in DOMAIN project[m].deps :
                ~Triggers(settings.failOn, reports[m].rows[i].status)
<1>1. pc = "done"
  BY DEF IInv, Typed
<1>2. Enforceable(settings)
  BY DEF IInv, Ordered
<1>3. ExitCode(reports, settings.failOn, settings.certify) = "passed"
  BY DEF IInv, Decided
<1>4. /\ GateIsAnswerable(reports, settings.failOn, settings.certify)
      /\ ~Triggered(reports, settings.failOn, settings.certify)
  BY <1>3 DEF ExitCode
<1> QED
  BY <1>1, <1>2, <1>4, RowFacts DEF Triggered, Scanned

LEMMA CleanPass == IInv => VulnerablePassIsClean
<1> SUFFICES ASSUME IInv, verdict = "passed", settings.failOn = "vulnerable",
                    NEW m \in Certified(reports, "vulnerable", settings.certify),
                    NEW i \in DOMAIN project[m].deps,
                    Dep(m, i).advisories # {}
             PROVE  Excused(m, i) /\ ~Established(m, i)
  BY DEF VulnerablePassIsClean
<1>1. m \in DOMAIN reports
  BY DEF Certified, Answering
<1>2. ~reports[m].scanFailed /\ ~reports[m].declined /\ ~Unevaluated(reports[m])
  BY <1>1, Passed DEF GateIsAnswerable
<1>3. Scanned(m) /\ reports[m].rows[i].status # "Vulnerable"
  BY <1>1, <1>2, Passed DEF Enforceable, Triggers
<1>4. /\ ~OsvAsked(Dep(m, i), Base(m, i))
      /\ reports[m].rows[i].origin = Base(m, i).origin
  BY <1>1, <1>3, Unflipped
<1>5. reports[m].answers[i] # "declined" /\ Base(m, i).origin # "Local"
  BY <1>1, <1>2, <1>4, RowFacts DEF IInv, Faithful, Unevaluated
<1>6. /\ IsDependency(Dep(m, i))
      /\ reports[m].answers[i] \in {"answered", "absent", "declined"}
  BY <1>1, RowFacts
<1> QED
  BY <1>4, <1>5, <1>6 DEF Excused, Established, OsvAsked, Base, EvaluateItem, Evaluated,
                          Row, IsDependency

LEMMA FreshPass == IInv => OutdatedPassIsFresh
<1> SUFFICES ASSUME IInv, verdict = "passed", settings.failOn = "outdated",
                    NEW m \in Certified(reports, "outdated", settings.certify),
                    NEW i \in DOMAIN project[m].deps,
                    Dep(m, i).age \in {"UpdateAvailable", "Outdated"}
             PROVE  Excused(m, i)
  BY DEF OutdatedPassIsFresh
<1>1. m \in DOMAIN reports
  BY DEF Certified, Answering
<1>2. ~reports[m].scanFailed /\ ~reports[m].declined /\ ~Unevaluated(reports[m])
  BY <1>1, Passed DEF GateIsAnswerable
<1>3. reports[m].rows[i].status \notin {"Outdated", "UpdateAvailable", "Vulnerable"}
  BY <1>1, Passed DEF Triggers
<1>4. /\ reports[m].rows[i].status = Base(m, i).status
      /\ reports[m].rows[i].origin = Base(m, i).origin
  <2>1. CASE Scanned(m)
    BY <2>1, <1>1, <1>3, Unflipped
  <2>2. CASE ~Scanned(m)
    BY <2>2, <1>1, RowFacts DEF Meant, Tells
  <2> QED
    BY <2>1, <2>2
<1>5. reports[m].answers[i] # "declined" /\ Base(m, i).origin # "Local"
  BY <1>1, <1>2, <1>4, RowFacts DEF IInv, Faithful, Unevaluated
<1>6. /\ IsDependency(Dep(m, i))
      /\ reports[m].answers[i] \in {"answered", "absent", "declined"}
  BY <1>1, RowFacts
<1> QED
  BY <1>3, <1>4, <1>5, <1>6 DEF Excused, Base, EvaluateItem, Evaluated, Row, IsDependency

LEMMA CompletePass == IInv => AnyPassIsComplete
<1> SUFFICES ASSUME IInv, verdict = "passed", settings.failOn = "any",
                    NEW m \in DOMAIN reports
             PROVE  /\ ~project[m].unread
                    /\ \A i \in DOMAIN project[m].deps :
                           \/ Dep(m, i).source \in {"git", "local"}
                           \/ /\ Established(m, i)
                              /\ reports[m].answers[i] = "answered"
                              /\ Dep(m, i).age = "UpToDate"
                              /\ Dep(m, i).advisories # {} => ~settings.vuln
  BY DEF AnyPassIsComplete
<1>1. ~reports[m].scanFailed
  BY Passed DEF GateIsAnswerable, Certified
<1>2. ~project[m].unread
  BY Passed DEF Triggered, IInv, Faithful
<1>3. ASSUME NEW i \in DOMAIN project[m].deps, Dep(m, i).source \notin {"git", "local"}
      PROVE  /\ Established(m, i)
             /\ reports[m].answers[i] = "answered"
             /\ Dep(m, i).age = "UpToDate"
             /\ Dep(m, i).advisories # {} => ~settings.vuln
  <2>1. reports[m].rows[i].status \in {"UpToDate", "Local", "Git"}
    BY <1>3, Passed DEF Triggers
  <2>2. reports[m].rows[i].status = Base(m, i).status
    <3>1. CASE Scanned(m)
      BY <3>1, <1>3, <2>1, Unflipped
    <3>2. CASE ~Scanned(m)
      BY <3>2, <1>3, RowFacts DEF Meant, Tells
    <3> QED
      BY <3>1, <3>2
  <2>3. /\ IsDependency(Dep(m, i))
        /\ reports[m].answers[i] \in {"answered", "absent", "declined"}
    BY <1>3, RowFacts
  <2>4. /\ IsCheckable(Dep(m, i)) /\ project[m].registry
        /\ reports[m].answers[i] = "answered"
        /\ Dep(m, i).constraint = "readable"
        /\ Dep(m, i).age = "UpToDate"
        /\ Base(m, i).status = "UpToDate"
    <3>1. project[m].registry \in BOOLEAN
      BY <1>3, RowFacts DEF IsManifest
    <3>2. ASSUME ~IsCheckable(Dep(m, i)) PROVE FALSE
      <4>1. Dep(m, i).source = "unresolved"
        BY <1>3, <2>3, <3>2 DEF IsDependency, IsCheckable
      <4>2. Base(m, i) = Row("Undetermined", "None")
        BY <3>2, <4>1 DEF Base, EvaluateItem, Unfetchable
      <4> QED
        BY <2>1, <2>2, <4>2 DEF Row
    <3>3. ASSUME ~project[m].registry PROVE FALSE
      <4>1. Base(m, i) = Row("Undetermined", "None")
        BY <3>2, <3>3 DEF Base, EvaluateItem
      <4> QED
        BY <2>1, <2>2, <4>1 DEF Row
    <3>4. reports[m].answers[i] = "answered"
      <4>1. ASSUME reports[m].answers[i] # "answered"
            PROVE  Base(m, i) \in {Row("Error", "NotFound"), Row("Error", "Unanswered")}
        BY <2>3, <3>2, <3>3, <4>1 DEF Base, EvaluateItem
      <4> QED
        BY <2>1, <2>2, <4>1 DEF Row
    <3>5. Base(m, i) = Evaluated(Dep(m, i))
      BY <3>2, <3>3, <3>4 DEF Base, EvaluateItem
    <3> QED
      BY <2>1, <2>2, <2>3, <3>2, <3>3, <3>4, <3>5 DEF Evaluated, Row, IsDependency
  <2>5. ASSUME settings.vuln PROVE Dep(m, i).advisories = {}
    <3>1. Scanned(m)
      BY <1>1, <2>5, Passed
    <3> QED
      BY <1>3, <2>1, <2>4, <3>1, Unflipped DEF OsvAsked
  <2> QED
    BY <2>4, <2>5 DEF Established
<1> QED
  BY <1>2, <1>3

(* Exit 0 means, under each gate and for every project, what the README    *)
(* says: no advisory under `vulnerable`, nothing behind under `outdated`,  *)
(* everything checked and current under `any`, short of what it excuses.   *)
THEOREM ExitZeroMeans == Spec => []PassIsWhatItSays
<1>1. IInv => PassIsWhatItSays
  BY CleanPass, FreshPass, CompletePass DEF PassIsWhatItSays
<1> QED
  BY <1>1, Invariant, PTL

(* A scan that was made finds every advisory of an established version,    *)
(* and finds nothing that is not there.                                    *)
LEMMA Found ==
  ASSUME IInv, NEW m \in DOMAIN reports, NEW i \in DOMAIN project[m].deps
  PROVE  /\ reports[m].rows[i].known \subseteq Dep(m, i).advisories
         /\ Scanned(m) /\ Established(m, i) =>
                reports[m].rows[i].known = Dep(m, i).advisories
<1>1. /\ Base(m, i) \in AnyRow /\ IsRow(Base(m, i)) /\ Base(m, i).known = {}
      /\ IsDependency(Dep(m, i))
      /\ reports[m].rows[i].known = Meant(m, i).known
  BY RowFacts DEF Tells
<1>2. reports[m].rows[i].known \subseteq Dep(m, i).advisories
  BY <1>1, FlippedType DEF Meant
<1>3. ASSUME Scanned(m), Established(m, i)
      PROVE  reports[m].rows[i].known = Dep(m, i).advisories
  <2>1. Dep(m, i).locked \/ Base(m, i) = Row(Dep(m, i).age, "None")
    BY <1>1, <1>3 DEF Established, IsDependency, Base, EvaluateItem, Evaluated
  <2>2. OsvAsked(Dep(m, i), Base(m, i))
    BY <1>1, <1>3, <2>1 DEF Established, IsDependency, OsvAsked, Row
  <2> QED
    BY <1>1, <1>3, <2>2, FlippedType DEF Meant
<1> QED
  BY <1>2, <1>3

LEMMA OnlyRelaxes == IInv => CertifyOnlyRelaxes
<1> SUFFICES ASSUME IInv
             PROVE  /\ ExitCode(reports, settings.failOn, FALSE) # "refused" =>
                           ExitCode(reports, settings.failOn, TRUE)
                               = ExitCode(reports, settings.failOn, FALSE)
                    /\ settings.failOn \in {"none", "any"} =>
                           ExitCode(reports, settings.failOn, TRUE)
                               = ExitCode(reports, settings.failOn, FALSE)
                    /\ (/\ settings.failOn \in {"vulnerable", "outdated"}
                        /\ DOMAIN reports # {}
                        /\ \A m \in DOMAIN reports : \E i \in DOMAIN project[m].deps :
                               reports[m].answers[i] = "declined") =>
                           /\ ExitCode(reports, settings.failOn, FALSE) # "passed"
                           /\ ExitCode(reports, settings.failOn, TRUE) # "passed"
  BY DEF CertifyOnlyRelaxes
<1>1. Triggered(reports, settings.failOn, TRUE) = Triggered(reports, settings.failOn, FALSE)
  BY DEF Triggered
<1>2. GateIsAnswerable(reports, settings.failOn, FALSE) =>
          GateIsAnswerable(reports, settings.failOn, TRUE)
  BY DEF GateIsAnswerable, Certified, Answering
<1>3. settings.failOn \in {"none", "any"} =>
          Certified(reports, settings.failOn, TRUE) = Certified(reports, settings.failOn, FALSE)
  BY DEF Certified
<1>4. ASSUME settings.failOn \in {"vulnerable", "outdated"}, DOMAIN reports # {},
             \A m \in DOMAIN reports : \E i \in DOMAIN project[m].deps :
                 reports[m].answers[i] = "declined"
      PROVE  /\ ~GateIsAnswerable(reports, settings.failOn, FALSE)
             /\ ~GateIsAnswerable(reports, settings.failOn, TRUE)
  <2>1. \A m \in DOMAIN reports : reports[m].declined
    BY <1>4 DEF IInv, Faithful
  <2>2. /\ Certified(reports, settings.failOn, FALSE) = DOMAIN reports
        /\ Certified(reports, settings.failOn, TRUE) = DOMAIN reports
    BY <2>1 DEF Certified, Answering
  <2> QED
    BY <1>4, <2>1, <2>2 DEF GateIsAnswerable
<1>5. settings.failOn \in {"none", "any"} =>
          GateIsAnswerable(reports, settings.failOn, TRUE)
              = GateIsAnswerable(reports, settings.failOn, FALSE)
  BY <1>3 DEF GateIsAnswerable
<1> QED
  BY <1>1, <1>2, <1>4, <1>5 DEF ExitCode

LEMMA StillFail == IInv => FindingsStillFail
<1> SUFFICES ASSUME IInv, settings.failOn \in {"vulnerable", "outdated"},
                    NEW m \in DOMAIN reports, NEW i \in DOMAIN project[m].deps,
                    Established(m, i), Dep(m, i).advisories # {},
                    settings.vuln, ~reports[m].scanFailed,
                    verdict = "passed"
             PROVE  FALSE
  BY DEF FindingsStillFail
<1>1. Scanned(m)
  BY Passed
<1>2. reports[m].rows[i].status # "Vulnerable"
  BY Passed DEF Triggers
<1>3. reports[m].rows[i].known = Dep(m, i).advisories
  BY <1>1, Found
<1> QED
  BY <1>2, <1>3, RowFacts DEF IsRow

(* `--certify-answered` turns refusals into verdicts and nothing else; a   *)
(* run nobody answered passes no named gate; a finding in an uncertified   *)
(* manifest still fails the run.                                           *)
THEOREM CertifyingHidesNothing == Spec => []CertifyHidesNothing
<1>1. IInv => CertifyHidesNothing
  BY OnlyRelaxes, StillFail DEF CertifyHidesNothing
<1> QED
  BY <1>1, Invariant, PTL

LEMMA NeverSilent == ~PartialDetails /\ IInv => PolicyNeverSilent
<1> SUFFICES ASSUME ~PartialDetails, IInv,
                    verdict = "passed", DOMAIN reports # {},
                    RequiresCvss(settings), settings.unrated # "ignore",
                    NEW m \in DOMAIN reports, NEW i \in DOMAIN project[m].deps,
                    Established(m, i),
                    NEW a \in Dep(m, i).advisories, OverLimit(a)
             PROVE  <<m, i>> \in warned
  BY DEF PolicyNeverSilent
<1> DEFINE row == reports[m].rows[i]
<1>1. /\ GateIsAnswerable(reports, "vulnerable", FALSE)
      /\ ~PolicyViolated
      /\ settings.unrated = "warn" => UnratedRows \subseteq warned
  BY DEF IInv, Decided, PolicyHeld
<1>2. Scanned(m)
  BY <1>1, Passed DEF GateIsAnswerable, Certified, Enforceable
<1>3. row.known = Dep(m, i).advisories
  BY <1>2, Found
<1>4. row.details \in {{}, row.known}
  BY RowFacts DEF Tells
<1>5. <<m, i>> \in RowIds /\ PolicyRow(<<m, i>>) = row
  BY RowFacts DEF RowIds, PolicyRow
<1>6. ~Violates(settings, row)
  BY <1>1, <1>5 DEF PolicyViolated
<1>7. Unrated(row) # {}
  <2>1. CASE row.details = {}
    BY <1>3, <2>1 DEF Unrated, Live
  <2>2. CASE row.details = row.known
    <3>1. a \in Live(row)
      BY <1>3, <2>2 DEF Live, OverLimit
    <3>2. Band(a) = None
      BY <1>6, <3>1 DEF Violates, OverLimit
    <3> QED
      BY <3>1, <3>2 DEF Unrated
  <2> QED
    BY <1>4, <2>1, <2>2
<1>8. <<m, i>> \in UnratedRows
  BY <1>5, <1>6, <1>7 DEF UnratedRows
<1>9. settings.unrated = "warn"
  BY <1>1, <1>8, CaseType DEF PolicyViolated, IInv, IsSettings, Knobs
<1> QED
  BY <1>1, <1>8, <1>9

LEMMA FailureIsLive == ~PartialDetails /\ IInv => PolicyFailureIsLive
<1> SUFFICES ASSUME ~PartialDetails, IInv,
                    verdict = "failed", settings.failOn = "none"
             PROVE  \E m \in DOMAIN reports : \E i \in DOMAIN project[m].deps :
                        \E a \in Dep(m, i).advisories :
                            \/ ~a.withdrawn
                            \/ settings.unrated = "fail" /\ reports[m].rows[i].details = {}
  BY DEF PolicyFailureIsLive
<1>1. ExitCode(reports, settings.failOn, settings.certify) = "passed"
  BY DEF ExitCode, GateIsAnswerable, Triggered, Triggers
<1>2. PolicyViolated
  BY <1>1 DEF IInv, Decided
<1>3. PICK x \in RowIds :
         \/ Violates(settings, PolicyRow(x))
         \/ settings.unrated = "fail" /\ Unrated(PolicyRow(x)) # {}
  BY <1>2 DEF PolicyViolated, UnratedRows
<1>4. PICK m \in DOMAIN reports : \E i \in DOMAIN reports[m].rows : x = <<m, i>>
  BY <1>3 DEF RowIds
<1>5. PICK i \in DOMAIN reports[m].rows : x = <<m, i>>
  BY <1>4
<1>6. i \in DOMAIN project[m].deps
  BY <1>5 DEF IInv, Typed, AnyReport
<1> DEFINE row == reports[m].rows[i]
<1>7. PolicyRow(x) = row
  BY <1>5 DEF PolicyRow
<1>8. /\ row.known \subseteq Dep(m, i).advisories
      /\ row.details \in {{}, row.known}
  BY <1>6, Found, RowFacts DEF Tells
<1>9. CASE Live(row) # {}
  BY <1>6, <1>8, <1>9 DEF Live
<1>10. CASE Live(row) = {}
  <2>1. settings.unrated = "fail" /\ row.known \ row.details # {}
    BY <1>3, <1>7, <1>10 DEF Violates, Unrated
  <2> QED
    BY <1>6, <1>8, <2>1
<1> QED
  BY <1>9, <1>10

(* Where a detail list comes whole or not at all, a live advisory over the *)
(* limit or without a rating never goes by in silence, and a severity rule *)
(* fails a run over nothing else.  Without the hypothesis the first part   *)
(* is false: the gate_truncated run shows a list cut short passing in      *)
(* silence.                                                                *)
THEOREM PolicyIsHeard == ~PartialDetails => (Spec => []PolicySpeaksUp)
<1> SUFFICES ASSUME ~PartialDetails PROVE Spec => []PolicySpeaksUp
  OBVIOUS
<1>1. IInv => PolicySpeaksUp
  BY NeverSilent, FailureIsLive DEF PolicySpeaksUp
<1> QED
  BY <1>1, Invariant, PTL

-----------------------------------------------------------------------------
(***************************************************************************)
(* What every state of Settings keeps: each stage has what the ones before *)
(* it settled, from the file as it was read.                               *)
(***************************************************************************)
Given ==
  /\ \E s \in Setups : call = s.call /\ home = s.home
  /\ file \in OnDisk

Extracted == stage \notin {"read", "stopped"} /\ ~edited => read = LoadConfig(file)

Settled ==
  /\ stage = "read" => resolved = Unset
  /\ resolved = Unset \/ resolved = Settle(call, read)
  /\ stage \in {"policy", "wire", "running"} /\ call.command = "check" =>
       /\ EnvironmentReads(call)
       /\ resolved = Settle(call, read)
       /\ resolved.failOn = "vulnerable" => resolved.vuln

(* The policy of the file as it was read the second time, and of the       *)
(* variables.                                                              *)
Stated == Overridden(LoadPolicy(file), call.env)

Ruled ==
  /\ stage \in {"read", "settle", "policy"} => rules = Unset
  /\ stage = "policy" => call.command = "check"
  /\ stage \in {"wire", "running"} /\ call.command = "check" =>
       IF FlagIsOn(call.env.noPolicy) THEN rules = Unset
       ELSE /\ rules = IF IsActive(Stated) THEN Stated ELSE Unset
            /\ NeedsScan(Stated) => resolved.vuln

Wired ==
  /\ stage = "read" => engine = Unset
  /\ \/ engine = Unset
     \/ engine = [fetchers |-> WiredFetchers(read), npm |-> NpmRoutes(read, home),
                  alternates |-> AltRegistries(home),
                  registryless |-> Registryless(read)]

SettingsInv == Given /\ Extracted /\ Settled /\ Ruled /\ Wired

LEMMA SettingsInvInit == SettingsInit => SettingsInv
BY DEF SettingsInit, SettingsInv, Given, Extracted, Settled, Ruled, Wired, OnDisk

LEMMA ReadConfigStep ==
  ASSUME SettingsInv, ReadConfig
  PROVE  SettingsInv'
<1>1. stage = "read" /\ UNCHANGED <<call, file, edited, home, resolved, rules, engine>>
  BY DEF ReadConfig
<1>2. \/ stage' = "stopped"
      \/ /\ read' = LoadConfig(file)
         /\ stage' = IF call.command = "list" THEN "running" ELSE "settle"
  BY DEF ReadConfig, Stop
<1>3. resolved = Unset /\ rules = Unset /\ engine = Unset
  BY <1>1 DEF SettingsInv, Settled, Ruled, Wired
<1>4. Given'
  BY <1>1 DEF SettingsInv, Given
<1>5. Extracted'
  BY <1>1, <1>2 DEF Extracted
<1>6. Settled'
  BY <1>1, <1>2, <1>3 DEF Settled
<1>7. Ruled'
  BY <1>1, <1>2, <1>3 DEF Ruled
<1>8. Wired'
  BY <1>1, <1>3 DEF Wired
<1> QED
  BY <1>4, <1>5, <1>6, <1>7, <1>8 DEF SettingsInv

LEMMA EditConfigStep ==
  ASSUME SettingsInv, EditConfig
  PROVE  SettingsInv'
<1>1. /\ stage \in {"settle", "policy"} /\ edited' = TRUE /\ file' \in Files
      /\ UNCHANGED <<call, home, stage, read, resolved, rules, engine>>
  BY DEF EditConfig
<1> QED
  BY <1>1 DEF SettingsInv, Given, Extracted, Settled, Ruled, Wired, OnDisk

LEMMA ResolveSettingsStep ==
  ASSUME SettingsInv, ResolveSettings
  PROVE  SettingsInv'
<1>1. stage = "settle" /\ UNCHANGED <<call, file, edited, home, read, rules, engine>>
  BY DEF ResolveSettings
<1>2. \/ stage' = "stopped" /\ UNCHANGED resolved
      \/ /\ EnvironmentReads(call) /\ resolved' = Settle(call, read)
         /\ stage' = IF resolved'.failOn = "vulnerable" /\ ~resolved'.vuln THEN "stopped"
                     ELSE IF call.command = "check" THEN "policy" ELSE "wire"
  BY DEF ResolveSettings, Stop
<1>3. Given' /\ Extracted' /\ Wired'
  BY <1>1, <1>2 DEF SettingsInv, Given, Extracted, Wired
<1>4. EnvironmentReads(call)' <=> EnvironmentReads(call)
  BY <1>1 DEF EnvironmentReads, Heard
<1>5. Settle(call, read)' = Settle(call, read)
  BY <1>1
<1>6. Settled'
  BY <1>1, <1>2, <1>4, <1>5 DEF SettingsInv, Settled
<1>7. Ruled'
  BY <1>1, <1>2 DEF SettingsInv, Ruled
<1> QED
  BY <1>3, <1>6, <1>7 DEF SettingsInv

LEMMA ResolvePolicyStep ==
  ASSUME SettingsInv, ResolvePolicy
  PROVE  SettingsInv'
<1>1. stage = "policy" /\ UNCHANGED <<call, file, edited, home, read, resolved, engine>>
  BY DEF ResolvePolicy
<1>2. \/ /\ FlagIsOn(call.env.noPolicy) /\ stage' = "wire" /\ UNCHANGED rules
      \/ stage' = "stopped" /\ UNCHANGED rules
      \/ /\ ~FlagIsOn(call.env.noPolicy)
         /\ rules' = IF IsActive(Stated) THEN Stated ELSE Unset
         /\ stage' = IF NeedsScan(Stated) /\ ~resolved.vuln THEN "stopped" ELSE "wire"
  BY DEF ResolvePolicy, Stop, Stated
<1>3. Given' /\ Extracted' /\ Wired'
  BY <1>1, <1>2 DEF SettingsInv, Given, Extracted, Wired
<1>4. Settled'
  BY <1>1, <1>2 DEF SettingsInv, Settled, Ruled
<1>5. Stated' = Stated /\ call' = call /\ resolved' = resolved
  BY <1>1 DEF Stated
<1>6. stage' \in {"wire", "stopped"} /\ rules = Unset
  BY <1>1, <1>2 DEF SettingsInv, Ruled
<1>7. stage' = "wire" =>
        IF FlagIsOn(call.env.noPolicy) THEN rules' = Unset
        ELSE /\ rules' = IF IsActive(Stated) THEN Stated ELSE Unset
             /\ NeedsScan(Stated) => resolved.vuln
  BY <1>2, <1>6
<1>8. Ruled'
  BY <1>5, <1>6, <1>7 DEF Ruled
<1> QED
  BY <1>3, <1>4, <1>8 DEF SettingsInv

LEMMA WireStep ==
  ASSUME SettingsInv, Wire
  PROVE  SettingsInv'
<1>1. /\ stage = "wire" /\ stage' = "running"
      /\ UNCHANGED <<call, file, edited, home, read, resolved, rules>>
      /\ engine' = [fetchers |-> WiredFetchers(read), npm |-> NpmRoutes(read, home),
                    alternates |-> AltRegistries(home),
                    registryless |-> Registryless(read)]
  BY DEF Wire
<1>2. Given' /\ Extracted'
  BY <1>1 DEF SettingsInv, Given, Extracted
<1>3. Settled'
  BY <1>1 DEF SettingsInv, Settled
<1>4. Ruled'
  BY <1>1 DEF SettingsInv, Ruled, Stated
<1>5. Wired'
  BY <1>1 DEF Wired
<1> QED
  BY <1>2, <1>3, <1>4, <1>5 DEF SettingsInv

LEMMA SettingsInvariant == SettingsSpec => []SettingsInv
<1>1. SettingsInv /\ UNCHANGED settingsVars => SettingsInv'
  BY DEF settingsVars, SettingsInv, Given, Extracted, Settled, Ruled, Wired, Stated
<1>2. SettingsInv /\ [SettingsNext]_settingsVars => SettingsInv'
  BY <1>1, ReadConfigStep, EditConfigStep, ResolveSettingsStep, ResolvePolicyStep, WireStep
     DEF SettingsNext
<1> QED
  BY <1>2, SettingsInvInit, PTL DEF SettingsSpec

-----------------------------------------------------------------------------
(* A rule that the variables or the file state is in force, the variable   *)
(* before the file.                                                        *)
LEMMA OverriddenKeeps ==
  ASSUME NEW f, NEW e
  PROVE  LET p == Overridden(LoadPolicy(f), e)
             stated == Says(f, NoPolicy)
         IN  /\ p.maxCvss = Or(EnvOverride(e.maxCvss), stated.maxCvss)
             /\ p.severity = Or(EnvOverride(e.severity), stated.severity)
             /\ p.majors = Or(EnvOverride(e.majors), stated.majors)
             /\ p.allowlist = stated.allowlist /\ p.other = stated.other
<1> DEFINE stated == Says(f, NoPolicy)
<1>1. PICK x, y, z : /\ x = Or(EnvOverride(e.maxCvss), stated.maxCvss)
                     /\ y = Or(EnvOverride(e.severity), stated.severity)
                     /\ z = Or(EnvOverride(e.majors), stated.majors)
  OBVIOUS
<1>2. Overridden(LoadPolicy(f), e) =
        [[[stated EXCEPT !.maxCvss = x] EXCEPT !.severity = y] EXCEPT !.majors = z]
  BY <1>1 DEF Overridden, LoadPolicy
<1>3. PICK a, b, c, g, h :
        stated = [maxCvss |-> a, severity |-> b, majors |-> c, allowlist |-> g, other |-> h]
  <2>1. DOMAIN NoPolicy = {"maxCvss", "severity", "majors", "allowlist", "other"}
    BY DEF NoPolicy
  <2>2. stated = [k \in {"maxCvss", "severity", "majors", "allowlist", "other"} |-> stated[k]]
    BY <2>1 DEF Says
  <2> HIDE DEF stated
  <2>3. stated = [maxCvss |-> stated.maxCvss, severity |-> stated.severity,
                  majors |-> stated.majors, allowlist |-> stated.allowlist,
                  other |-> stated.other]
    BY <2>2
  <2> QED
    BY <2>3
<1> HIDE DEF stated
<1>4. [stated EXCEPT !.maxCvss = x] =
        [maxCvss |-> x, severity |-> b, majors |-> c, allowlist |-> g, other |-> h]
  BY <1>3
<1>5. [[maxCvss |-> x, severity |-> b, majors |-> c, allowlist |-> g, other |-> h]
         EXCEPT !.severity = y] =
        [maxCvss |-> x, severity |-> y, majors |-> c, allowlist |-> g, other |-> h]
  OBVIOUS
<1>6. [[maxCvss |-> x, severity |-> y, majors |-> c, allowlist |-> g, other |-> h]
         EXCEPT !.majors = z] =
        [maxCvss |-> x, severity |-> y, majors |-> z, allowlist |-> g, other |-> h]
  OBVIOUS
<1>7. Overridden(LoadPolicy(f), e) =
        [maxCvss |-> x, severity |-> y, majors |-> z, allowlist |-> g, other |-> h]
  BY <1>2, <1>4, <1>5, <1>6, Zenon
<1> QED
  BY <1>1, <1>3, <1>7 DEF stated

LEMMA GateArmed == SettingsInv => GateNeverDisarmed
<1> SUFFICES ASSUME SettingsInv, Checking PROVE GateNeverDisarmed
  BY DEF GateNeverDisarmed
<1>1. stage = "running" /\ call.command = "check"
  BY DEF Checking
<1>2. PICK cfg : cfg = read
  OBVIOUS
<1>3. /\ EnvironmentReads(call) /\ resolved = Settle(call, read)
      /\ resolved.failOn = "vulnerable" => resolved.vuln
  BY <1>1 DEF SettingsInv, Settled
<1>4. /\ resolved.failOn = FailOn(call, read)
      /\ resolved.licenses <=> read.policy.allowlist
  BY <1>1, <1>3 DEF Settle
<1>5. /\ \E spoke \in {call.flags.failOn, call.env.failOn, read.global.failOn} :
               resolved.failOn = spoke
      /\ call.flags.failOn # Unset => resolved.failOn = call.flags.failOn
  BY <1>4 DEF FailOn, Or, EnvOverride
<1>6. Malformed \notin {call.env.failOn, call.env.concurrency}
  BY <1>1, <1>3 DEF EnvironmentReads, Heard, Quiet
<1> DEFINE stated == Says(file, NoPolicy)
<1>7. /\ Stated.maxCvss = Or(EnvOverride(call.env.maxCvss), stated.maxCvss)
      /\ Stated.severity = Or(EnvOverride(call.env.severity), stated.severity)
      /\ Stated.majors = Or(EnvOverride(call.env.majors), stated.majors)
      /\ Stated.allowlist = stated.allowlist /\ Stated.other = stated.other
  BY OverriddenKeeps DEF Stated
<1>8. Stated # Unset
  BY SettingsAssumption DEF Stated, SettingsInv, Given
<1>9. IF FlagIsOn(call.env.noPolicy) THEN rules = Unset
      ELSE /\ rules = IF IsActive(Stated) THEN Stated ELSE Unset
           /\ NeedsScan(Stated) => resolved.vuln
  BY <1>1 DEF SettingsInv, Ruled
<1>10. ASSUME ~FlagIsOn(call.env.noPolicy)
       PROVE  /\ \A k \in {"maxCvss", "severity", "majors"} :
                   (stated[k] # Unset \/ call.env[k] \notin {Unset, Blank}) =>
                       rules # Unset /\ rules[k] \in {stated[k], call.env[k]} \ {Unset}
              /\ (stated.allowlist \/ stated.other) => rules # Unset
  <2> HIDE DEF stated
  <2>1. \A k \in {"maxCvss", "severity", "majors"} :
          Stated[k] = Or(EnvOverride(call.env[k]), stated[k])
    BY <1>7
  <2>2. \A k \in {"maxCvss", "severity", "majors"} :
          (stated[k] # Unset \/ call.env[k] \notin {Unset, Blank}) =>
             Stated[k] # Unset /\ Stated[k] \in {stated[k], call.env[k]} \ {Unset}
    BY <2>1 DEF Or, EnvOverride
  <2>3. \A k \in {"maxCvss", "severity", "majors"} :
          Stated[k] # Unset => IsActive(Stated)
    BY DEF IsActive
  <2>4. (stated.allowlist \/ stated.other) => IsActive(Stated)
    BY <1>7 DEF IsActive
  <2> QED
    BY <1>8, <1>9, <1>10, <2>2, <2>3, <2>4
<1>11. rules # Unset /\ NeedsScan(rules) => resolved.vuln
  BY <1>9
<1>12. rules # Unset /\ ~edited /\ rules.allowlist => resolved.licenses
  <2> SUFFICES ASSUME rules # Unset, ~edited, rules.allowlist PROVE resolved.licenses
    OBVIOUS
  <2>1. rules = Stated
    BY <1>9
  <2>2. read = LoadConfig(file)
    BY <1>1 DEF SettingsInv, Extracted
  <2>3. read.policy = stated
    BY <2>2 DEF LoadConfig
  <2> HIDE DEF stated
  <2>4. stated.allowlist
    BY <1>7, <2>1, Zenon
  <2> QED
    BY <1>4, <2>3, <2>4
<1> HIDE DEF stated
<1> QED
  BY <1>3, <1>5, <1>6, <1>10, <1>11, <1>12, Zenon DEF GateNeverDisarmed, stated

(* Settings hear of a variable only what it says.                          *)
LEMMA BlankSettles ==
  ASSUME NEW c, c = [command |-> c.command, flags |-> c.flags, env |-> c.env],
         OffWord \notin {c.env.concurrency, c.env.failOn},
         \A v \in DOMAIN Quiet : c.env[v] \in {Unset, Blank, OffWord},
         NEW cfg
  PROVE  Settle(c, cfg) = Settle([c EXCEPT !.env = Quiet], cfg)
<1> DEFINE q == [c EXCEPT !.env = Quiet]
<1>1. q.command = c.command /\ q.flags = c.flags /\ q.env = Quiet
  BY SMTT(10)
<1>2. DOMAIN Quiet = {"noVuln", "noCache", "ghsa", "noPolicy", "concurrency", "failOn",
                      "maxCvss", "severity", "majors"}
      /\ \A v \in DOMAIN Quiet : Quiet[v] = Unset
  BY DEF Quiet
<1> HIDE DEF q
<1>3. \A v \in DOMAIN Quiet : /\ Heard(c)[v] \in {Unset, Blank, OffWord}
                              /\ Heard(q)[v] = Unset
  BY <1>1, <1>2 DEF Heard
<1>4. EnvOverride(Heard(c).concurrency) = Unset /\ EnvOverride(Heard(q).concurrency) = Unset
  <2>1. Heard(c).concurrency \in {Unset, c.env.concurrency}
    BY <1>2 DEF Heard
  <2> QED
    BY <1>2, <1>3, <2>1 DEF EnvOverride
<1>5. EnvOverride(c.env.failOn) = Unset /\ EnvOverride(q.env.failOn) = Unset
  BY <1>1, <1>2 DEF EnvOverride
<1>6. \A v \in {"noVuln", "noCache", "ghsa"} : ~FlagIsOn(Heard(c)[v]) /\ ~FlagIsOn(Heard(q)[v])
  BY <1>2, <1>3 DEF FlagIsOn
<1>7. FailOn(c, cfg) = FailOn(q, cfg)
  BY <1>1, <1>5, Zenon DEF FailOn
<1> DEFINE Is(x) ==
      [concurrency |-> AtLeastOne(Or(c.flags.concurrency, Or(Unset, cfg.global.concurrency))),
       lockfile |-> cfg.global.lockfile /\ ~c.flags.noLock,
       vuln     |-> cfg.vuln /\ ~c.flags.noVuln /\ ~FlagIsOn(Heard(x).noVuln),
       licenses |-> c.command = "check" /\ cfg.policy.allowlist,
       cache    |-> ~c.flags.noCache /\ ~FlagIsOn(Heard(x).noCache),
       ghsa     |-> c.flags.ghsa \/ cfg.global.ghsa \/ FlagIsOn(Heard(x).ghsa),
       failOn   |-> IF c.command = "check" THEN FailOn(x, cfg) ELSE "none",
       unstable |-> Or(c.flags.unstable, cfg.global.unstable)]
<1>8. Settle(c, cfg) = Is(c)
  BY <1>4, Zenon DEF Settle
<1>9. Settle(q, cfg) = Is(q)
  BY <1>1, <1>4, Zenon DEF Settle
<1>10. /\ (cfg.vuln /\ ~c.flags.noVuln /\ ~FlagIsOn(Heard(c).noVuln))
            = (cfg.vuln /\ ~c.flags.noVuln /\ ~FlagIsOn(Heard(q).noVuln))
       /\ (~c.flags.noCache /\ ~FlagIsOn(Heard(c).noCache))
            = (~c.flags.noCache /\ ~FlagIsOn(Heard(q).noCache))
       /\ (c.flags.ghsa \/ cfg.global.ghsa \/ FlagIsOn(Heard(c).ghsa))
            = (c.flags.ghsa \/ cfg.global.ghsa \/ FlagIsOn(Heard(q).ghsa))
  <2>1. /\ ~FlagIsOn(Heard(c).noVuln) /\ ~FlagIsOn(Heard(q).noVuln)
        /\ ~FlagIsOn(Heard(c).noCache) /\ ~FlagIsOn(Heard(q).noCache)
        /\ ~FlagIsOn(Heard(c).ghsa) /\ ~FlagIsOn(Heard(q).ghsa)
    BY <1>6
  <2> QED
    BY <2>1
<1>11. Is(c) = Is(q)
  BY <1>7, <1>10, Zenon
<1> QED
  BY <1>8, <1>9, <1>11, SMT DEF q

LEMMA BlankIsHeardAsUnset == SettingsInv => BlankIsUnset
<1> SUFFICES ASSUME SettingsInv, resolved # Unset,
                    \A v \in DOMAIN Quiet : call.env[v] \in {Unset, Blank, OffWord}
             PROVE  resolved = Settle([call EXCEPT !.env = Quiet], read)
  BY DEF BlankIsUnset
<1>1. resolved = Settle(call, read)
  BY DEF SettingsInv, Settled
<1>2. /\ call = [command |-> call.command, flags |-> call.flags, env |-> call.env]
      /\ OffWord \notin {call.env.concurrency, call.env.failOn}
  BY SettingsAssumption DEF SettingsInv, Given, IsSetup
<1> QED
  BY <1>1, <1>2, BlankSettles

LEMMA SwitchesHeld == SettingsInv => SwitchesAgree
<1> SUFFICES ASSUME SettingsInv, engine # Unset, NEW eco \in Ecosystems \ {"rust"}
             PROVE  EcosystemEnabled(read, eco) = (eco \in engine.fetchers \cup engine.registryless)
  BY DEF SwitchesAgree
<1>1. engine.fetchers = WiredFetchers(read) /\ engine.registryless = Registryless(read)
  BY DEF SettingsInv, Wired
<1>2. CASE eco = "swift"
  BY <1>1, <1>2 DEF WiredFetchers, Registryless, EcosystemEnabled
<1>3. CASE eco # "swift"
  BY <1>1, <1>3 DEF WiredFetchers, Registryless, EcosystemEnabled
<1> QED
  BY <1>2, <1>3

-----------------------------------------------------------------------------
(* A file of `.npmrc` lines, read one after another.                       *)
LEMMA ParsedLineByLine ==
  ASSUME NEW lines, Len(lines) \in Nat
  PROVE  \E after : /\ after[0] = EmptyNpmrc
                    /\ \A n \in 1 .. Len(lines) : after[n] = NpmrcLine(after[n - 1], lines[n])
                    /\ ParseNpmrc(lines) = after[Len(lines)]
<1> DEFINE N == Len(lines)
           Step(f, n) == IF n = 0 THEN EmptyNpmrc ELSE NpmrcLine(f[n - 1], lines[n])
           Is(f, m) == f = [n \in 0 .. m |-> Step(f, n)]
           S == {m \in Nat : \E f : Is(f, m)}
<1>1. 0 \in S
  <2> DEFINE f == [n \in 0 .. 0 |-> EmptyNpmrc]
  <2>1. [n \in 0 .. 0 |-> Step(f, n)] = f
    <3> HIDE DEF f
    <3>1. \A n \in 0 .. 0 : Step(f, n) = EmptyNpmrc
      OBVIOUS
    <3> QED
      BY <3>1 DEF f
  <2> QED
    BY <2>1
<1>2. ASSUME NEW m \in Nat, m \in S PROVE m + 1 \in S
  <2>1. PICK f : Is(f, m)
    BY <1>2
  <2> DEFINE g == [n \in 0 .. m + 1 |-> IF n = m + 1 THEN NpmrcLine(f[m], lines[m + 1]) ELSE f[n]]
  <2>2. \A n \in 0 .. m : g[n] = f[n] /\ n # m + 1
    OBVIOUS
  <2>3. g[m + 1] = NpmrcLine(f[m], lines[m + 1])
    OBVIOUS
  <2>4. \A n \in 0 .. m : f[n] = Step(f, n)
    BY <2>1
  <2>5. DOMAIN g = 0 .. m + 1 /\ g = [n \in 0 .. m + 1 |-> g[n]]
    OBVIOUS
  <2> HIDE DEF g
  <2>6. ASSUME NEW n \in 0 .. m + 1 PROVE g[n] = Step(g, n)
    <3>1. CASE n = 0
      <4>1. n \in 0 .. m
        BY <3>1
      <4> QED
        BY <2>2, <2>4, <3>1, <4>1
    <3>2. CASE n # 0
      <4>1. n - 1 \in 0 .. m
        BY <3>2
      <4>2. g[n - 1] = f[n - 1]
        BY <2>2, <4>1
      <4>3. CASE n = m + 1
        <5>1. n - 1 = m
          BY <4>3
        <5> QED
          BY <2>3, <3>2, <4>2, <4>3, <5>1
      <4>4. CASE n # m + 1
        <5>1. n \in 0 .. m
          BY <4>4
        <5> QED
          BY <2>2, <2>4, <3>2, <4>2, <5>1
      <4> QED
        BY <4>3, <4>4
    <3> QED
      BY <3>1, <3>2
  <2> HIDE DEF Step
  <2>7. Is(g, m + 1)
    BY <2>5, <2>6
  <2> QED
    BY <2>7
<1> HIDE DEF S
<1>3. N \in S
  BY <1>1, <1>2, SetInduction
<1> DEFINE after == CHOOSE f : Is(f, N)
<1>4. Is(after, N)
  BY <1>3 DEF S
<1>5. ParseNpmrc(lines) = after[N]
  BY DEF ParseNpmrc
<1> HIDE DEF after
<1>6. \A n \in 0 .. N : after[n] = Step(after, n)
  <2> HIDE DEF Step
  <2> QED
    BY <1>4
<1>7. after[0] = EmptyNpmrc
  BY <1>6
<1>8. \A n \in 1 .. N : after[n] = NpmrcLine(after[n - 1], lines[n])
  BY <1>6
<1> QED
  BY <1>5, <1>7, <1>8

(* The last of the first n lines to give a host its token.                 *)
Gives(lines, n, i) ==
  /\ i \in 1 .. n /\ lines[i].key = "token" /\ lines[i].token # Unset
  /\ \A j \in i + 1 .. n :
        lines[j].key = "token" => \/ lines[j].at.host # lines[i].at.host
                                  \/ lines[j].token = Unset

(* What the first n lines of a file come to.                               *)
Comes(npmrc, lines, n) ==
  /\ npmrc = [registry |-> npmrc.registry, scopes |-> npmrc.scopes, tokens |-> npmrc.tokens]
  /\ \A x : x \in npmrc.tokens <=>
        \E i : Gives(lines, n, i) /\ x = <<lines[i].at.host, lines[i].token>>
  /\ \A i \in 1 .. n :
        lines[i].key = "scope" => \E x \in npmrc.scopes : x[1] = lines[i].scope

LEMMA LineComes ==
  ASSUME NEW lines, NEW n \in Nat, NEW npmrc, Comes(npmrc, lines, n),
         lines[n + 1].key \in {"registry", "scope", "token"}
  PROVE  Comes(NpmrcLine(npmrc, lines[n + 1]), lines, n + 1)
<1> DEFINE line == lines[n + 1]
           next == NpmrcLine(npmrc, line)
<1>1. PICK r, s, t : npmrc = [registry |-> r, scopes |-> s, tokens |-> t]
  BY DEF Comes
<1>2. npmrc.scopes = s /\ npmrc.tokens = t
  BY <1>1
<1>3. /\ \A v : [npmrc EXCEPT !.registry = v] = [registry |-> v, scopes |-> s, tokens |-> t]
      /\ \A v : [npmrc EXCEPT !.scopes = v] = [registry |-> r, scopes |-> v, tokens |-> t]
      /\ \A v : [npmrc EXCEPT !.tokens = v] = [registry |-> r, scopes |-> s, tokens |-> v]
  BY <1>1
<1>4. \A i : i \in 1 .. n + 1 <=> i \in 1 .. n \/ i = n + 1
  OBVIOUS
<1>5. \A i \in 1 .. n : i # n + 1 /\ \A j : j \in i + 1 .. n + 1 <=> j \in i + 1 .. n \/ j = n + 1
  OBVIOUS
<1>6. \A x : x \in t <=> \E i : Gives(lines, n, i) /\ x = <<lines[i].at.host, lines[i].token>>
  BY <1>2 DEF Comes
<1>7. \A i \in 1 .. n : lines[i].key = "scope" => \E x \in s : x[1] = lines[i].scope
  BY <1>2 DEF Comes
<1> HIDE DEF line
<1>8. CASE ~(line.key = "token" /\ line.token # Unset)
  <2>1. ASSUME NEW i PROVE Gives(lines, n + 1, i) <=> Gives(lines, n, i)
    <3>1. Gives(lines, n + 1, i) => Gives(lines, n, i)
      BY <1>4, <1>5, <1>8 DEF Gives, line
    <3>2. Gives(lines, n, i) => Gives(lines, n + 1, i)
      BY <1>4, <1>5, <1>8 DEF Gives, line
    <3> QED
      BY <3>1, <3>2
  <2>2. CASE line.key = "registry"
    <3>1. next = [registry |-> line.at, scopes |-> s, tokens |-> t]
      BY <1>3, <2>2 DEF NpmrcLine
    <3> HIDE DEF next
    <3>2. \A i \in 1 .. n + 1 : lines[i].key = "scope" => \E x \in s : x[1] = lines[i].scope
      BY <1>4, <1>7, <2>2 DEF line
    <3>3. Comes(next, lines, n + 1)
      BY <1>6, <2>1, <3>1, <3>2 DEF Comes
    <3> QED
      BY <3>3 DEF next, line
  <2>3. CASE line.key = "scope"
    <3> DEFINE now == {x \in s : x[1] # line.scope} \cup {<<line.scope, line.at>>}
    <3>1. next = [registry |-> r, scopes |-> now, tokens |-> t]
      <4>1. next = [npmrc EXCEPT !.scopes = now]
        BY <1>2, <2>3 DEF NpmrcLine
      <4> HIDE DEF now, next
      <4> QED
        BY <1>3, <4>1
    <3>2. \A x \in s : \E y \in now : y[1] = x[1]
      <4> SUFFICES ASSUME NEW x \in s, x[1] = line.scope PROVE \E y \in now : y[1] = x[1]
        OBVIOUS
      <4>1. <<line.scope, line.at>> \in now /\ <<line.scope, line.at>>[1] = line.scope
        OBVIOUS
      <4> QED
        BY <4>1
    <3>3. \E y \in now : y[1] = line.scope
      <4>1. <<line.scope, line.at>> \in now /\ <<line.scope, line.at>>[1] = line.scope
        OBVIOUS
      <4> QED
        BY <4>1
    <3> HIDE DEF now, next
    <3>4. \A i \in 1 .. n + 1 : lines[i].key = "scope" => \E x \in now : x[1] = lines[i].scope
      <4> SUFFICES ASSUME NEW i \in 1 .. n + 1, lines[i].key = "scope"
                   PROVE  \E x \in now : x[1] = lines[i].scope
        OBVIOUS
      <4>1. CASE i \in 1 .. n
        <5>1. PICK x \in s : x[1] = lines[i].scope
          BY <1>7, <4>1
        <5> QED
          BY <3>2, <5>1
      <4>2. CASE i = n + 1
        BY <3>3, <4>2 DEF line
      <4> QED
        BY <1>4, <4>1, <4>2
    <3>5. Comes(next, lines, n + 1)
      BY <1>6, <2>1, <3>1, <3>4 DEF Comes
    <3> QED
      BY <3>5 DEF next, line
  <2>4. CASE line.key = "token"
    <3>1. next = npmrc
      BY <1>8, <2>4 DEF NpmrcLine
    <3> HIDE DEF next
    <3>2. \A i \in 1 .. n + 1 : lines[i].key = "scope" => \E x \in s : x[1] = lines[i].scope
      BY <1>4, <1>7, <2>4 DEF line
    <3>3. Comes(next, lines, n + 1)
      BY <1>1, <1>2, <1>6, <2>1, <3>1, <3>2 DEF Comes
    <3> QED
      BY <3>3 DEF next, line
  <2> QED
    BY <2>2, <2>3, <2>4 DEF line
<1>9. CASE line.key = "token" /\ line.token # Unset
  <2> DEFINE now == {x \in t : x[1] # line.at.host} \cup {<<line.at.host, line.token>>}
  <2>1. next = [registry |-> r, scopes |-> s, tokens |-> now]
    <3>1. next = [npmrc EXCEPT !.tokens = now]
      BY <1>2, <1>9 DEF NpmrcLine, NerfDart
    <3> HIDE DEF now, next
    <3> QED
      BY <1>3, <3>1
  <2>2. \A i \in 1 .. n + 1 : lines[i].key = "scope" => \E x \in s : x[1] = lines[i].scope
    BY <1>4, <1>7, <1>9 DEF line
  <2>3. Gives(lines, n + 1, n + 1)
    <3>1. n + 1 \in 1 .. n + 1 /\ \A j : j \notin (n + 1) + 1 .. n + 1
      OBVIOUS
    <3> QED
      BY <1>9, <3>1 DEF Gives, line
  <2>4. ASSUME NEW i \in 1 .. n
        PROVE  Gives(lines, n + 1, i) <=> Gives(lines, n, i) /\ lines[i].at.host # line.at.host
    <3>1. Gives(lines, n + 1, i) => Gives(lines, n, i) /\ lines[i].at.host # line.at.host
      BY <1>4, <1>5, <1>9 DEF Gives, line
    <3>2. Gives(lines, n, i) /\ lines[i].at.host # line.at.host => Gives(lines, n + 1, i)
      BY <1>4, <1>5, <1>9 DEF Gives, line
    <3> QED
      BY <3>1, <3>2
  <2>5. ASSUME NEW x
        PROVE  x \in now <=> \E i : Gives(lines, n + 1, i) /\ x = <<lines[i].at.host, lines[i].token>>
    <3>1. ASSUME x \in now
          PROVE  \E i : Gives(lines, n + 1, i) /\ x = <<lines[i].at.host, lines[i].token>>
      <4>1. CASE x = <<line.at.host, line.token>>
        BY <2>3, <4>1 DEF line
      <4>2. CASE x \in t /\ x[1] # line.at.host
        <5>1. PICK i : Gives(lines, n, i) /\ x = <<lines[i].at.host, lines[i].token>>
          BY <1>6, <4>2
        <5>2. i \in 1 .. n /\ lines[i].at.host # line.at.host
          BY <4>2, <5>1 DEF Gives
        <5> QED
          BY <2>4, <5>1, <5>2
      <4> QED
        BY <3>1, <4>1, <4>2
    <3>2. ASSUME NEW i, Gives(lines, n + 1, i), x = <<lines[i].at.host, lines[i].token>>
          PROVE  x \in now
      <4>1. CASE i = n + 1
        BY <3>2, <4>1 DEF line
      <4>2. CASE i # n + 1
        <5>1. i \in 1 .. n
          BY <1>4, <3>2, <4>2 DEF Gives
        <5>2. Gives(lines, n, i) /\ lines[i].at.host # line.at.host
          BY <2>4, <3>2, <5>1
        <5>3. x \in t /\ x[1] = lines[i].at.host
          BY <1>6, <3>2, <5>2
        <5> QED
          BY <5>2, <5>3
      <4> QED
        BY <4>1, <4>2
    <3> QED
      BY <3>1, <3>2
  <2> HIDE DEF now, next
  <2>6. Comes(next, lines, n + 1)
    BY <2>1, <2>2, <2>5 DEF Comes
  <2> QED
    BY <2>6 DEF next, line
<1> QED
  BY <1>8, <1>9

LEMMA FileComes ==
  ASSUME NEW lines, Len(lines) \in Nat,
         \A i \in 1 .. Len(lines) : lines[i].key \in {"registry", "scope", "token"}
  PROVE  Comes(ParseNpmrc(lines), lines, Len(lines))
<1>1. PICK after : /\ after[0] = EmptyNpmrc
                   /\ \A n \in 1 .. Len(lines) : after[n] = NpmrcLine(after[n - 1], lines[n])
                   /\ ParseNpmrc(lines) = after[Len(lines)]
  BY ParsedLineByLine
<1> DEFINE S == {n \in Nat : n <= Len(lines) => Comes(after[n], lines, n)}
<1>2. 0 \in S
  <2>1. Comes(EmptyNpmrc, lines, 0)
    <3>1. \A i : ~Gives(lines, 0, i)
      BY DEF Gives
    <3> QED
      BY <3>1 DEF Comes, EmptyNpmrc
  <2> QED
    BY <1>1, <2>1
<1>3. ASSUME NEW n \in Nat, n \in S PROVE n + 1 \in S
  <2> SUFFICES ASSUME n + 1 <= Len(lines) PROVE Comes(after[n + 1], lines, n + 1)
    OBVIOUS
  <2>1. n <= Len(lines) /\ n + 1 \in 1 .. Len(lines) /\ (n + 1) - 1 = n
    OBVIOUS
  <2>2. after[n + 1] = NpmrcLine(after[n], lines[n + 1])
    BY <1>1, <2>1
  <2>3. Comes(after[n], lines, n)
    BY <1>3, <2>1
  <2>4. lines[n + 1].key \in {"registry", "scope", "token"}
    BY <2>1
  <2> QED
    BY <2>2, <2>3, <2>4, LineComes
<1> HIDE DEF S
<1>4. Len(lines) \in S
  BY <1>2, <1>3, SetInduction
<1> QED
  BY <1>1, <1>4 DEF S

(* The tokens of a file are those its last lines give, and every scope it  *)
(* names has a registry.                                                   *)
LEMMA NpmrcSays ==
  ASSUME NEW raw, IsNpmrc(raw), NEW env
  PROVE  LET lines == Expanded(raw, env)
             npmrc == ParseNpmrc(lines)
         IN  /\ \A host, token :
                   <<host, token>> \in npmrc.tokens <=> Declares(lines, token, host)
             /\ \A x \in npmrc.tokens : \E host, token : x = <<host, token>> /\ token \in Tokens(lines)
             /\ \A i \in DOMAIN lines :
                   lines[i].key = "scope" => \E x \in npmrc.scopes : x[1] = lines[i].scope
<1> DEFINE lines == Expanded(raw, env)
           npmrc == ParseNpmrc(lines)
<1>1. raw \in Seq({raw[i] : i \in DOMAIN raw})
  BY DEF IsNpmrc
<1>2. DOMAIN raw = 1 .. Len(raw) /\ Len(raw) \in Nat
  BY <1>1
<1>3. DOMAIN lines = 1 .. Len(lines) /\ Len(lines) \in Nat
  <2> DEFINE out == [i \in 1 .. Len(raw) |-> ExpandEnv(raw[i], env)]
  <2>1. out \in Seq({ExpandEnv(raw[i], env) : i \in 1 .. Len(raw)})
    BY <1>2
  <2>2. lines = out
    BY <1>2 DEF Expanded
  <2> HIDE DEF out
  <2> QED
    BY <2>1, <2>2
<1>4. ASSUME NEW i \in 1 .. Len(lines) PROVE lines[i].key \in {"registry", "scope", "token"}
  <2>1. i \in DOMAIN raw /\ lines[i] = ExpandEnv(raw[i], env)
    BY <1>3 DEF Expanded
  <2>2. PICK k, s, a, t, v :
          raw[i] = [key |-> k, scope |-> s, at |-> a, token |-> t, var |-> v]
          /\ k \in {"registry", "scope", "token"}
    BY <2>1 DEF IsNpmrc
  <2>3. \A w : [raw[i] EXCEPT !.token = w].key = k
    BY <2>2
  <2> QED
    BY <2>1, <2>2, <2>3 DEF ExpandEnv
<1> HIDE DEF lines
<1>5. Comes(npmrc, lines, Len(lines))
  BY <1>3, <1>4, FileComes
<1>6. \A host, token : Declares(lines, token, host) <=>
        \E i : Gives(lines, Len(lines), i) /\ lines[i].at.host = host /\ lines[i].token = token
  BY <1>3 DEF Declares, Gives
<1> HIDE DEF npmrc
<1>7. ASSUME NEW host, NEW token
      PROVE  <<host, token>> \in npmrc.tokens <=> Declares(lines, token, host)
  BY <1>5, <1>6 DEF Comes
<1>8. ASSUME NEW x \in npmrc.tokens
      PROVE  \E host, token : x = <<host, token>> /\ token \in Tokens(lines)
  BY <1>3, <1>5 DEF Comes, Gives, Tokens
<1>9. \A i \in DOMAIN lines : lines[i].key = "scope" => \E x \in npmrc.scopes : x[1] = lines[i].scope
  BY <1>3, <1>5 DEF Comes
<1> QED
  BY <1>7, <1>8, <1>9 DEF npmrc, lines

(* What a lookup answers is one of the values held for the key.            *)
LEMMA LookedUp ==
  ASSUME NEW pairs, NEW key, Lookup(pairs, key) # Unset
  PROVE  \E x \in pairs : x[1] = key /\ x[2] = Lookup(pairs, key)
<1> DEFINE held == {x[2] : x \in {y \in pairs : y[1] = key}}
<1>1. held # {} /\ Lookup(pairs, key) = CHOOSE v \in held : TRUE
  BY DEF Lookup
<1>2. Lookup(pairs, key) \in held
  <2> HIDE DEF held
  <2> QED
    BY <1>1
<1> QED
  BY <1>2

(* A token of two files is one that the project gives, or the user where   *)
(* the project gives none.                                                 *)
LEMMA TokensAreGiven ==
  ASSUME NEW user, NEW local, IsNpmrc(user), IsNpmrc(local), NEW env, NEW url,
         NEW npmrc, npmrc = Merge(ParseNpmrc(Expanded(user, env)), ParseNpmrc(Expanded(local, env))),
         NEW token, token = TokenFor(npmrc, url), token # Unset
  PROVE  \/ Declares(Expanded(local, env), token, url.host)
         \/ /\ Declares(Expanded(user, env), token, url.host)
            /\ ~\E t \in Tokens(Expanded(local, env)) :
                  Declares(Expanded(local, env), t, url.host)
<1> DEFINE U == ParseNpmrc(Expanded(user, env)).tokens
           P == ParseNpmrc(Expanded(local, env)).tokens
<1>1. npmrc.tokens = P \cup {x \in U : \A y \in P : y[1] # x[1]}
  BY DEF Merge, Beneath
<1>2. PICK x \in npmrc.tokens : x[1] = url.host /\ x[2] = token
  BY LookedUp DEF TokenFor, NerfDart
<1>3. /\ \A host, t : <<host, t>> \in P <=> Declares(Expanded(local, env), t, host)
      /\ \A y \in P : \E host, t : y = <<host, t>> /\ t \in Tokens(Expanded(local, env))
  BY NpmrcSays
<1>4. /\ \A host, t : <<host, t>> \in U <=> Declares(Expanded(user, env), t, host)
      /\ \A y \in U : \E host, t : y = <<host, t>> /\ t \in Tokens(Expanded(user, env))
  BY NpmrcSays
<1> HIDE DEF U, P
<1>5. CASE x \in P
  <2>1. x = <<url.host, token>>
    BY <1>2, <1>3, <1>5
  <2> QED
    BY <1>3, <1>5, <2>1
<1>6. CASE x \in U /\ \A y \in P : y[1] # x[1]
  <2>1. x = <<url.host, token>>
    BY <1>2, <1>4, <1>6
  <2>2. Declares(Expanded(user, env), token, url.host)
    BY <1>4, <1>6, <2>1
  <2>3. ASSUME NEW t, Declares(Expanded(local, env), t, url.host) PROVE FALSE
    <3>1. <<url.host, t>> \in P /\ <<url.host, t>>[1] = url.host
      BY <1>3, <2>3
    <3> QED
      BY <1>2, <1>6, <3>1
  <2> QED
    BY <2>2, <2>3
<1> QED
  BY <1>1, <1>2, <1>5, <1>6

LEMMA CredentialsHeld == SettingsInv => CredentialsStayHome
<1> DEFINE user    == Expanded(home.user, home.vars)
           local == Expanded(home.project, home.vars)
           npmrc   == NpmrcConfig(home)
           U       == ParseNpmrc(user)
           P       == ParseNpmrc(local)
<1> SUFFICES ASSUME SettingsInv, engine # Unset PROVE CredentialsStayHome
  BY DEF CredentialsStayHome
<1>1. /\ IsNpmrc(home.user) /\ IsNpmrc(home.project)
      /\ \A c \in home.credentials : c = <<c[1], c[2]>>
  BY SettingsAssumption DEF SettingsInv, Given, IsSetup
<1>2. engine.npm = NpmRoutes(read, home) /\ engine.alternates = AltRegistries(home)
  BY DEF SettingsInv, Wired
<1>3. npmrc = Merge(U, P)
  BY DEF NpmrcConfig
<1> DEFINE default == Or(npmrc.registry, [host |-> read.registries.npm, slash |-> FALSE])
           scopes  == {<<s[1], [url |-> s[2], token |-> TokenFor(npmrc, s[2])]>> : s \in npmrc.scopes}
<1>4. /\ engine.npm.default = [url |-> default, token |-> TokenFor(npmrc, default)]
      /\ engine.npm.scopes = scopes
  BY <1>2 DEF NpmRoutes
<1>5. ASSUME NEW scope
      PROVE  LET asked == Resolve(engine.npm, [scope |-> scope])
             IN  /\ asked.token = TokenFor(npmrc, asked.url)
                 /\ (\E s \in npmrc.scopes : s[1] = scope) =>
                       \E x \in engine.npm.scopes : x[1] = scope /\ x[2] = asked
  <2> DEFINE own == {x \in engine.npm.scopes : x[1] = scope}
             asked == Resolve(engine.npm, [scope |-> scope])
             x == CHOOSE x \in own : TRUE
  <2>1. asked = IF own = {} THEN engine.npm.default ELSE x[2]
    BY DEF Resolve
  <2>2. CASE own = {}
    <3>1. asked.token = TokenFor(npmrc, asked.url)
      <4>1. asked = [url |-> default, token |-> TokenFor(npmrc, default)]
        BY <1>4, <2>1, <2>2
      <4> HIDE DEF asked, default, npmrc, own
      <4> QED
        BY <4>1
    <3>2. ~\E s \in npmrc.scopes : s[1] = scope
      <4> SUFFICES ASSUME NEW s \in npmrc.scopes, s[1] = scope PROVE FALSE
        OBVIOUS
      <4> DEFINE y == <<s[1], [url |-> s[2], token |-> TokenFor(npmrc, s[2])]>>
      <4>1. y \in engine.npm.scopes /\ y[1] = scope
        BY <1>4
      <4> HIDE DEF y
      <4> QED
        BY <2>2, <4>1
    <3> QED
      BY <3>1, <3>2
  <2>3. CASE own # {}
    <3>1. x \in own
      <4> HIDE DEF own
      <4> QED
        BY <2>3
    <3>2. x \in scopes /\ x[1] = scope /\ x \in engine.npm.scopes
      BY <1>4, <3>1
    <3>3. PICK s \in npmrc.scopes : x = <<s[1], [url |-> s[2], token |-> TokenFor(npmrc, s[2])]>>
      BY <3>2
    <3>4. asked = x[2]
      BY <2>1, <2>3
    <3>5. x[2] = [url |-> s[2], token |-> TokenFor(npmrc, s[2])]
      <4> HIDE DEF x, npmrc
      <4> QED
        BY <3>3
    <3>6. asked.token = TokenFor(npmrc, asked.url)
      <4> HIDE DEF asked, npmrc, x
      <4> QED
        BY <3>4, <3>5
    <3>7. \E y \in engine.npm.scopes : y[1] = scope /\ y[2] = asked
      <4> HIDE DEF asked, x
      <4> QED
        BY <3>2, <3>4
    <3> QED
      BY <3>6, <3>7
  <2> QED
    BY <2>2, <2>3
<1>6. ASSUME NEW scope
      PROVE  LET asked == Resolve(engine.npm, [scope |-> scope])
             IN  asked.token # Unset =>
                     \/ Declares(local, asked.token, asked.url.host)
                     \/ /\ Declares(user, asked.token, asked.url.host)
                        /\ ~\E t \in Tokens(local) : Declares(local, t, asked.url.host)
  BY <1>1, <1>3, <1>5, TokensAreGiven
<1>7. ASSUME NEW scope, NEW lines \in {user, local}, NEW i \in DOMAIN lines,
             lines[i].key = "scope", lines[i].scope = scope
      PROVE  \E s \in npmrc.scopes : s[1] = scope
  <2>1. npmrc.scopes = P.scopes \cup {x \in U.scopes : \A y \in P.scopes : y[1] # x[1]}
    <3> HIDE DEF npmrc, U, P
    <3> QED
      BY <1>3 DEF Merge, Beneath
  <2>2. (\E x \in P.scopes : x[1] = scope) \/ (\E x \in U.scopes : x[1] = scope)
    <3>1. CASE lines = local
      <4>1. \A j \in DOMAIN local : local[j].key = "scope" =>
               \E x \in P.scopes : x[1] = local[j].scope
        BY <1>1, NpmrcSays
      <4> HIDE DEF user, local, P, U
      <4> QED
        BY <1>7, <3>1, <4>1
    <3>2. CASE lines = user
      <4>1. \A j \in DOMAIN user : user[j].key = "scope" =>
               \E x \in U.scopes : x[1] = user[j].scope
        BY <1>1, NpmrcSays
      <4> HIDE DEF user, local, P, U
      <4> QED
        BY <1>7, <3>2, <4>1
    <3> HIDE DEF user, local, U, P
    <3> QED
      BY <1>7, <3>1, <3>2
  <2> HIDE DEF npmrc, U, P
  <2> QED
    BY <2>1, <2>2
<1>8. ASSUME NEW r \in engine.alternates, r.token # Unset
      PROVE  \/ <<r.name, r.token>> \in home.credentials
             \/ \E x \in home.registries : x.name = r.name /\ x.token = r.token
  <2> DEFINE named == {<<x.name, x.token>> : x \in home.registries}
  <2>1. r \in ParseCargoConfig(home)
    BY <1>2, <1>8 DEF AltRegistries
  <2>2. r.token = Or(Lookup(home.credentials, r.name), Lookup(named, r.name))
    <3>1. PICK n, index : r = [name |-> n, index |-> index,
                  token |-> Or(Lookup(home.credentials, n), Lookup(named, n))]
      BY <2>1 DEF ParseCargoConfig
    <3> HIDE DEF named
    <3>2. r.name = n /\ r.token = Or(Lookup(home.credentials, n), Lookup(named, n))
      BY <3>1
    <3> QED
      BY <3>2
  <2> HIDE DEF named
  <2>3. CASE Lookup(home.credentials, r.name) # Unset
    <3>1. PICK c \in home.credentials : c[1] = r.name /\ c[2] = Lookup(home.credentials, r.name)
      BY <2>3, LookedUp
    <3>2. r.token = c[2]
      BY <2>2, <2>3, <3>1 DEF Or
    <3> QED
      BY <1>1, <3>1, <3>2
  <2>4. CASE Lookup(home.credentials, r.name) = Unset
    <3>1. r.token = Lookup(named, r.name)
      BY <2>2, <2>4 DEF Or
    <3>2. PICK y \in named : y[1] = r.name /\ y[2] = r.token
      BY <1>8, <3>1, LookedUp
    <3> QED
      BY <3>2 DEF named
  <2> QED
    BY <2>3, <2>4
<1>9. ASSUME NEW scope \in Scopes
      PROVE  LET asked == Resolve(engine.npm, [scope |-> scope])
                 host  == asked.url.host
             IN  /\ asked.token # Unset =>
                        \/ Declares(local, asked.token, host)
                        \/ /\ Declares(user, asked.token, host)
                           /\ ~\E t \in Tokens(local) : Declares(local, t, host)
                 /\ (\E lines \in {user, local} : \E i \in DOMAIN lines :
                         lines[i].key = "scope" /\ lines[i].scope = scope) =>
                        \E x \in engine.npm.scopes : x[1] = scope /\ x[2] = asked
  <2> DEFINE asked == Resolve(engine.npm, [scope |-> scope])
  <2>1. asked.token # Unset =>
                     \/ Declares(local, asked.token, asked.url.host)
                     \/ /\ Declares(user, asked.token, asked.url.host)
                        /\ ~\E t \in Tokens(local) : Declares(local, t, asked.url.host)
    BY <1>6
  <2>2. (\E s \in npmrc.scopes : s[1] = scope) =>
           \E x \in engine.npm.scopes : x[1] = scope /\ x[2] = asked
    BY <1>5
  <2>3. (\E lines \in {user, local} : \E i \in DOMAIN lines :
           lines[i].key = "scope" /\ lines[i].scope = scope) => \E s \in npmrc.scopes : s[1] = scope
    BY <1>7
  <2> HIDE DEF asked, user, local, npmrc
  <2> QED
    BY <2>1, <2>2, <2>3 DEF asked
<1> QED
  BY <1>8, <1>9 DEF CredentialsStayHome

(* No order of reading, editing, resolving and wiring, whatever the flags, *)
(* the variables and the files say, lets a configured gate go unless the   *)
(* kill switch or a flag says so (`resolve_policy`, `env_override`), takes *)
(* a blank variable for a set one (`flag_is_on`), sends a registry the     *)
(* token of another (`token_for`, `NpmrcConfig::merge`), or leaves an      *)
(* ecosystem that is on without a fetcher (`Engine::new`).                 *)
THEOREM SettingsHonoured == SettingsSpec => []SettingsAreHonoured
<1>1. SettingsInv => SettingsAreHonoured
  BY GateArmed, BlankIsHeardAsUnset, CredentialsHeld, SwitchesHeld DEF SettingsAreHonoured
<1> QED
  BY <1>1, SettingsInvariant, PTL
=============================================================================
