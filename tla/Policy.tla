------------------------------- MODULE Policy -------------------------------
(***************************************************************************)
(* The rules of `[policy]` that are not about advisories: denied packages, *)
(* version floors, releases behind, and the license allowlist              *)
(* (crates/dependable-report/src/policy.rs and spdx.rs), over the licenses *)
(* `attach_licenses` collected - one request per name, any of which may    *)
(* fail.                                                                   *)
(*                                                                         *)
(* A version is <<major, minor>>.  A license text is the sequence of its   *)
(* words, parentheses, slashes and stray characters.                       *)
(***************************************************************************)
EXTENDS Naturals, FiniteSets, Sequences, SequencesExt

CONSTANTS
    Inquiries,  \* the reports judged: a policy, the dependencies, the truth
    Nil,        \* no version, no license, no rule
    Garbage     \* a version text the dialect cannot read

VARIABLES
    inquiry,   \* the report under judgement
    phase,     \* "attach", "evaluate", "judged"
    licenses,  \* dependency -> the license text on its row, Nil for none
    findings   \* what the rules found

policyVars == <<inquiry, phase, licenses, findings>>

Finding(level, rule, i) == [level |-> level, rule |-> rule, of |-> i]

(***************************************************************************)
(* SPDX expressions: a recursive descent, `and` before `or`.  A value is   *)
(* the set of what an expression may be: {} when it is none.               *)
(***************************************************************************)
Keywords == {"or", "and", "with", "(", ")"}

IsAtom(token) == token \notin Keywords \cup {"end"}

(* Slashes are the npm spelling of `or`; a stray character is prose.       *)
Tokenize(text) ==
    IF "," \in Range(text) THEN <<>>
    ELSE [i \in DOMAIN text |-> IF text[i] = "/" THEN "or" ELSE text[i]]

TokenAt(ts, pos) == IF pos \in DOMAIN ts THEN ts[pos] ELSE "end"

Parsed(value, pos) == [value |-> value, pos |-> pos]

(* An exception is allowed by name, or with the license it excepts from.   *)
Atom(ts, pos, allowed) ==
    LET name == ts[pos]
        Allows(entry) == entry \in allowed
    IN
    IF TokenAt(ts, pos + 1) # "with"
    THEN Parsed({Allows(<<name>>)}, pos + 1)
    ELSE IF IsAtom(TokenAt(ts, pos + 2))
         THEN Parsed({Allows(<<name>>) \/ Allows(<<name, "with", ts[pos + 2]>>)}, pos + 3)
         ELSE Parsed({}, pos + 2)

RECURSIVE Expression(_, _, _), Term(_, _, _)
RECURSIVE OrElse(_, _, _), AndAlso(_, _, _)

Factor(ts, pos, allowed) ==
    CASE TokenAt(ts, pos) = "(" ->
             LET inner == Expression(ts, pos + 1, allowed) IN
             IF inner.value # {} /\ TokenAt(ts, inner.pos) = ")"
             THEN Parsed(inner.value, inner.pos + 1)
             ELSE Parsed({}, inner.pos)
      [] IsAtom(TokenAt(ts, pos)) -> Atom(ts, pos, allowed)
      [] OTHER -> Parsed({}, pos)

(* Both sides are parsed whatever the first one says.                      *)
Both(left, right, op(_, _)) ==
    Parsed({op(a, b) : a \in left.value, b \in right.value}, right.pos)

AndAlso(left, ts, allowed) ==
    IF left.value # {} /\ TokenAt(ts, left.pos) = "and"
    THEN AndAlso(Both(left, Factor(ts, left.pos + 1, allowed),
                      LAMBDA a, b : a /\ b), ts, allowed)
    ELSE left

Term(ts, pos, allowed) == AndAlso(Factor(ts, pos, allowed), ts, allowed)

OrElse(left, ts, allowed) ==
    IF left.value # {} /\ TokenAt(ts, left.pos) = "or"
    THEN OrElse(Both(left, Term(ts, left.pos + 1, allowed),
                     LAMBDA a, b : a \/ b), ts, allowed)
    ELSE left

Expression(ts, pos, allowed) == OrElse(Term(ts, pos, allowed), ts, allowed)

(* Mutant: an expression is read up to where it stops making sense.        *)
SpdxOfPrefix(text, allowed) ==
    LET whole == Expression(Tokenize(text), 1, allowed)
    IN  IF whole.value = {} THEN "Unparsed"
        ELSE IF TRUE \in whole.value THEN "Allowed" ELSE "Denied"

Spdx(text, allowed) ==
    LET ts == Tokenize(text)
        whole == Expression(ts, 1, allowed)
    IN  IF whole.value = {} \/ whole.pos # Len(ts) + 1 THEN "Unparsed"
        ELSE IF TRUE \in whole.value THEN "Allowed" ELSE "Denied"

(***************************************************************************)
(* Versions.                                                               *)
(***************************************************************************)
CurrentVersion(d) == IF d.locked # Nil THEN d.locked ELSE d.compatible

ParseVersion(raw) == IF raw = Garbage THEN Nil ELSE raw

Below(v, w) == v[1] < w[1] \/ (v[1] = w[1] /\ v[2] < w[2])

Monus(a, b) == IF a > b THEN a - b ELSE 0

(* Mutant: the releases skipped before 1.0 do not count.                   *)
DistanceInMajors(current, latest, inMajor) ==
    IF current[1] = 0 /\ latest[1] = 0 THEN Monus(latest[2], current[2])
    ELSE Monus(latest[1], current[1])

MajorDistance(current, latest, inMajor) ==
    CASE current[1] = 0 /\ latest[1] = 0 -> Monus(latest[2], current[2])
      [] current[1] = 0 /\ latest[1] > 0 ->
             latest[1] + IF inMajor # Nil /\ inMajor[1] = 0
                         THEN Monus(inMajor[2], current[2]) ELSE 0
      [] OTHER -> Monus(latest[1], current[1])

Newest(releases) ==
    IF releases = {} THEN Nil
    ELSE CHOOSE v \in releases : \A w \in releases : ~Below(v, w)

(* What a check reports beside the newest release: the newest one on the   *)
(* major of the version in use.                                            *)
NewestInMajor(d) ==
    Newest({v \in d.releases : CurrentVersion(d) \notin {Nil, Garbage}
                                 /\ v[1] = CurrentVersion(d)[1]})

(***************************************************************************)
(* The rules, one dependency at a time.  A name is a word and its case.    *)
(***************************************************************************)
PackageRef(name, ecosystem) == [name |-> name, ecosystem |-> ecosystem]

Matches(entry, ecosystem, name) ==
    /\ entry.ecosystem \in {Nil, ecosystem}
    /\ entry.name.word = name.word

DeniedFindings(p, ecosystem, d, i) ==
    IF \E entry \in p.denied : Matches(entry, ecosystem, d.name)
    THEN {Finding("Violation", "denied_packages", i)} ELSE {}

(* A floor nobody can read is said; a version nobody can read is passed    *)
(* over.                                                                   *)
FloorFindings(p, ecosystem, d, i) ==
    LET current == ParseVersion(CurrentVersion(d)) IN
    UNION {LET floor == ParseVersion(entry.floor) IN
           IF floor = Nil THEN {Finding("Warning", "minimum_versions", i)}
           ELSE IF current # Nil /\ Below(current, floor)
                THEN {Finding("Violation", "minimum_versions", i)} ELSE {} :
           entry \in {x \in p.floors : Matches(x.package, ecosystem, d.name)}}

BehindFindings(p, d, i) ==
    LET current == ParseVersion(CurrentVersion(d))
        latest  == Newest(d.releases)
    IN  IF /\ p.behind # Nil /\ current # Nil /\ latest # Nil
           /\ MajorDistance(current, latest, NewestInMajor(d)) > p.behind
        THEN {Finding("Violation", "max_major_behind", i)} ELSE {}

LicenseVerdict(p, license) ==
    IF license = Nil THEN "Missing" ELSE Spdx(license, p.allowed)

(* A license that was read and is not on the list fails; one that could    *)
(* not be read is for the knob.                                            *)
LicenseLevel(p, verdict) ==
    CASE verdict = "Allowed" -> Nil
      [] verdict = "Denied"  -> "Violation"
      [] OTHER -> CASE p.unknown = "ignore" -> Nil
                    [] p.unknown = "warn"   -> "Warning"
                    [] p.unknown = "fail"   -> "Violation"

LicenseFindings(p, license, i) ==
    LET level == LicenseLevel(p, LicenseVerdict(p, license)) IN
    IF p.allowed = {} \/ level = Nil THEN {}
    ELSE {Finding(level, "allowed_licenses", i)}

Evaluate(q, held) ==
    UNION {DeniedFindings(q.policy, q.ecosystem, q.deps[i], i)
             \cup FloorFindings(q.policy, q.ecosystem, q.deps[i], i)
             \cup BehindFindings(q.policy, q.deps[i], i)
             \cup LicenseFindings(q.policy, held[i], i) : i \in DOMAIN q.deps}

HasViolations == \E f \in findings : f.level = "Violation"

(***************************************************************************)
(* Collecting licenses.                                                    *)
(***************************************************************************)
CheckableNames(deps) == {deps[i].name : i \in {j \in DOMAIN deps : deps[j].checkable}}

(* A registry without a metadata endpoint answers that it has nothing.     *)
PublishesMetadata(ecosystem) == ecosystem \notin {"go", "csharp", "dart"}

(* The names asked, of which some fail.                                    *)
Answered(deps) == SUBSET CheckableNames(deps)

Attached(q, answered) ==
    [i \in DOMAIN q.deps |->
        IF q.deps[i].name \in answered /\ PublishesMetadata(q.ecosystem)
        THEN q.deps[i].license ELSE Nil]

PolicyInit ==
    /\ inquiry \in Inquiries
    /\ phase = "attach"
    /\ licenses = [i \in DOMAIN inquiry.deps |-> Nil]
    /\ findings = {}

AttachLicenses ==
    /\ phase = "attach"
    /\ IF inquiry.policy.allowed = {}
       THEN UNCHANGED licenses
       ELSE \E answered \in Answered(inquiry.deps) :
                licenses' = Attached(inquiry, answered)
    /\ phase' = "evaluate"
    /\ UNCHANGED <<inquiry, findings>>

EvaluatePolicy ==
    /\ phase = "evaluate"
    /\ findings' = Evaluate(inquiry, licenses)
    /\ phase' = "judged"
    /\ UNCHANGED <<inquiry, licenses>>

PolicyNext == AttachLicenses \/ EvaluatePolicy

-----------------------------------------------------------------------------
(* What a license expression means, by its grammar: a choice (3) of        *)
(* conjunctions (2) of factors (1); {} when the tokens are none.           *)
RECURSIVE Means(_, _, _)
Means(level, ts, allowed) ==
    LET Split(op, join(_, _)) ==
            UNION {{join(a, b) : a \in Means(level - 1, SubSeq(ts, 1, k - 1), allowed),
                                 b \in Means(level, SubSeq(ts, k + 1, Len(ts)), allowed)} :
                   k \in {i \in DOMAIN ts : ts[i] = op}}
    IN  CASE level = 3 -> Means(2, ts, allowed) \cup Split("or", LAMBDA a, b : a \/ b)
          [] level = 2 -> Means(1, ts, allowed) \cup Split("and", LAMBDA a, b : a /\ b)
          [] level = 1 ->
               IF Len(ts) > 2 /\ Head(ts) = "(" /\ Last(ts) = ")"
               THEN Means(3, Tail(Front(ts)), allowed)
               ELSE IF Len(ts) = 1 /\ IsAtom(ts[1])
               THEN {(ts \in allowed)}
               ELSE IF Len(ts) = 3 /\ IsAtom(ts[1]) /\ ts[2] = "with" /\ IsAtom(ts[3])
               THEN {(ts \in allowed \/ <<ts[1]>> \in allowed)}
               ELSE {}

(* The level at which a license has to come up, whatever was asked: one    *)
(* that was fetched and is not allowed fails; one that was not fetched,    *)
(* that nobody declares or that is no expression goes by the knob.         *)
LicenseOwed(d, fetched) ==
    LET p     == inquiry.policy
        text  == IF fetched THEN d.license ELSE Nil
        means == IF text = Nil \/ "," \in Range(text) THEN {}
                 ELSE Means(3, Tokenize(text), p.allowed)
    IN  IF p.allowed = {} \/ means = {TRUE} THEN {}
        ELSE IF means = {FALSE} THEN {"Violation"}
        ELSE CASE p.unknown = "ignore" -> {} [] p.unknown = "warn" -> {"Warning"}
               [] p.unknown = "fail" -> {"Violation"}

(* The releases behind, counted one by one: the 0.x lines above the one in *)
(* use, if it is on one, and then every major up to the newest.            *)
Behind(current, releases) ==
    LET zero == {v[2] : v \in {w \in releases : w[1] = 0}}
        newest == Newest(releases)
        skipped == IF current[1] = 0
                   THEN {m \in current[2] + 1 .. 100 : \E n \in zero : m <= n} ELSE {}
    IN  Cardinality(skipped) + Cardinality(current[1] + 1 .. newest[1])

Level(rule, i) == {f.level : f \in {g \in findings : g.rule = rule /\ g.of = i}}

(* Every rule a dependency breaks comes up against it and against no       *)
(* other, at the level the policy gives it, whichever license requests     *)
(* failed; and what fails the run is a violation.                          *)
RulesTellAll ==
    phase = "judged" =>
        \A i \in DOMAIN inquiry.deps :
            LET d == inquiry.deps[i]
                p == inquiry.policy
                current == CurrentVersion(d)
                Names(entry) == /\ entry.name.word = d.name.word
                                /\ entry.ecosystem \in {Nil, inquiry.ecosystem}
                floors == {x.floor : x \in {y \in p.floors : Names(y.package)}}
            IN  /\ Level("denied_packages", i) =
                       IF \E x \in p.denied : Names(x) THEN {"Violation"} ELSE {}
                /\ ("Warning" \in Level("minimum_versions", i)) = (Garbage \in floors)
                /\ ("Violation" \in Level("minimum_versions", i)) =
                       (/\ current \notin {Nil, Garbage}
                        /\ \E v \in floors \ {Garbage} : Below(current, v))
                /\ (Level("max_major_behind", i) # {}) =
                       (/\ p.behind # Nil /\ current \notin {Nil, Garbage}
                        /\ d.releases # {}
                        /\ Behind(current, d.releases) > p.behind)
                /\ \E fetched \in BOOLEAN :
                       /\ Level("allowed_licenses", i) = LicenseOwed(d, fetched)
                       /\ licenses[i] = IF fetched THEN d.license ELSE Nil

(* policy.rs: "the distance never shrinks as upstream moves on".           *)
DistanceNeverShrinks ==
    phase = "judged" =>
        \A i \in DOMAIN inquiry.deps :
            LET d == inquiry.deps[i]
                Far(releases) ==
                    MajorDistance(CurrentVersion(d), Newest(releases),
                                  NewestInMajor([d EXCEPT !.releases = releases]))
            IN  (CurrentVersion(d) \notin {Nil, Garbage} /\ d.releases # {}) =>
                    \A v \in d.releases : d.releases # {v} =>
                        Far(d.releases \ {v}) <= Far(d.releases)

PolicyTellsAll == RulesTellAll /\ DistanceNeverShrinks
=============================================================================
