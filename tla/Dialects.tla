------------------------------ MODULE Dialects ------------------------------
(***************************************************************************)
(* How dependable reads what other ecosystems write: a constraint of       *)
(* PEP 440, NuGet, Maven, Hex, npm or Dart becomes the comparators of the  *)
(* `semver` crate (dependable-core/src/semver), a published version        *)
(* becomes a semver version, and what `evaluate` finds among those is      *)
(* reported under the name it was published by (dependable-fetch/src/      *)
(* check.rs).                                                              *)
(*                                                                         *)
(* A version is its release numbers and its words; only the splitting of   *)
(* text into them is left out.                                             *)
(***************************************************************************)
EXTENDS Constraint, FiniteSets, SequencesExt, Lists

CONSTANTS
  Width,      \* the largest number a version segment can hold (u64::MAX)
  Questions,  \* the constraints and release lists to read
  TextOf(_)   \* the place of a version's text among all texts in their order

ASSUME DialectsAssumption == Width \in Nat /\ Width > MaxPart

VARIABLE question

(***************************************************************************)
(* semver: `rel` is a triple, `pre` and `build` are sequences of           *)
(* identifiers <<0, number>> and <<1, rank of the word>>.  The crate's     *)
(* `Ord` looks at the build metadata last.                                 *)
(***************************************************************************)
Word == [alpha |-> 1, android |-> 2, beta |-> 3, dev |-> 4, jre |-> 5,
         post |-> 6, rc |-> 7, snapshot |-> 8]
Id(x) == IF x \in DOMAIN Word THEN <<1, Word[x]>> ELSE <<1, 0>>
Ids(words) == [i \in DOMAIN words |-> Id(words[i])]

Lower(a, b) == a[1] < b[1] \/ (a[1] = b[1] /\ a[2] < b[2])
IdsOlder(s, t) ==
  \/ IsStrictPrefix(s, t)
  \/ \E i \in DOMAIN s \cap DOMAIN t :
       Lower(s[i], t[i]) /\ \A j \in 1 .. i - 1 : s[j] = t[j]
PreOlder(s, t) == s # t /\ (t = <<>> \/ (s # <<>> /\ IdsOlder(s, t)))

SemverOlder(v, w) ==
  \/ Older(v.rel, w.rel)
  \/ v.rel = w.rel /\ PreOlder(v.pre, w.pre)
  \/ v.rel = w.rel /\ v.pre = w.pre /\ IdsOlder(v.build, w.build)
NewestOf(S) == CHOOSE v \in S : \A w \in S : v = w \/ SemverOlder(w, v)

(* A comparator: an operator, one to three numbers, and a pre-release.     *)
Comp(op, parts, pre) == [op |-> op, parts |-> parts, pre |-> pre]

(* VersionReq::matches, one comparator: partial ones ignore a pre-release, *)
(* save that one on their own line is not equal to it.                     *)
CompMatches(c, v) ==
  LET full == Len(c.parts) = 3 /\ v.rel = c.parts
      onLine == AgreeUpTo(3, c.parts, v.rel)
  IN  IF full
      THEN CASE c.op = "="  -> v.pre = c.pre
             [] c.op = ">"  -> PreOlder(c.pre, v.pre)
             [] c.op = "<"  -> PreOlder(v.pre, c.pre)
             [] c.op = "<=" -> ~PreOlder(c.pre, v.pre)
             [] c.op \in {">=", "^", "~"} -> ~PreOlder(v.pre, c.pre)
      ELSE /\ Matches(c.op, c.parts, v.rel)
           /\ c.op \in {"=", ">=", "<="} /\ onLine => v.pre = <<>>

(* A pre-release needs a comparator that names one of the same triple.     *)
ReqMatches(req, v) ==
  /\ \A i \in DOMAIN req : CompMatches(req[i], v)
  /\ v.pre # <<>> => \E i \in DOMAIN req : req[i].parts = v.rel /\ req[i].pre # <<>>

(***************************************************************************)
(* Translating a constraint.  A written clause has an operator, release    *)
(* numbers, the words after them, and whether it ends in a wildcard; an    *)
(* interval has two ends, either of which may be missing.  A translation   *)
(* is a sequence of comparators, or None where there is no reading.        *)
(***************************************************************************)
AnyVersion == <<>>
Full(op, c) == <<Comp(op, Floor(c.parts), Ids(c.words))>>

(* The next release of the last segment, where there is room for one.      *)
Bumped(parts, n) == Floor([parts EXCEPT ![Len(parts)] = n])
Saturated(n) == IF n = Width THEN n ELSE n + 1
BumpLast(parts) == Bumped(parts, Saturated(Last(parts)))
Between(low, high) == <<Comp(">=", low, <<>>), Comp("<", high, <<>>)>>

(* Mutant: the upper bound keeps the segment `~=` lets float.              *)
CompatibleReleaseTight(parts) ==
  IF Len(parts) < 2 THEN None ELSE Between(Floor(parts), BumpLast(parts))

(* compatible_release: the leading segments that are all digits; a word    *)
(* stuck to a segment takes the segment with it.                           *)
CompatibleRelease(parts) ==
  IF Len(parts) < 2 THEN None
  ELSE Between(Floor(parts), BumpLast(Front(parts)))

PrefixRange(parts) ==
  IF Len(parts) > 3 THEN None ELSE Between(Floor(parts), BumpLast(parts))

(* pep440_constraint_to_semver.  `!=` has no reading and is dropped.       *)
PythonClause(c) ==
  CASE c.op = "!=" -> None
    [] c.op \in {"", "=="} /\ c.wild -> IF c.parts = <<>> THEN AnyVersion ELSE PrefixRange(c.parts)
    [] c.op = "~=" -> CompatibleRelease(IF c.words = <<>> THEN c.parts ELSE Front(c.parts))
    [] c.op \in {"^", "~"} /\ Len(c.parts) < 4 /\ c.words = <<>> -> <<Comp(c.op, c.parts, <<>>)>>
    [] c.op \in {"", "==", "^", "~", ">=", "<=", ">", "<"} /\ ~c.wild
         /\ (c.op \in {"^", "~"} => Len(c.parts) = 4 \/ c.words # <<>>) ->
         Full(CASE c.op = "" -> "^" [] c.op = "==" -> "=" [] OTHER -> c.op, c)

PythonConstraint(clauses) ==
  LET read == SelectSeq([i \in DOMAIN clauses |-> PythonClause(clauses[i])], LAMBDA t : t # None)
  IN  IF read = <<>> THEN None ELSE FlattenSeq(read)

(* Mutant: an end reads as inclusive whatever bracket closes it.           *)
IntervalRangeClosed(c) ==
  (IF c.low = None THEN <<>> ELSE Full(IF c.lowIn THEN ">=" ELSE ">", c.low))
    \o (IF c.high = None THEN <<>> ELSE Full("<=", c.high))

(* `[1.0,2.0)`: NuGet's and Maven's interval_range.                        *)
IntervalRange(c) ==
  (IF c.low = None THEN <<>> ELSE Full(IF c.lowIn THEN ">=" ELSE ">", c.low))
    \o (IF c.high = None THEN <<>> ELSE Full(IF c.highIn THEN "<=" ELSE "<", c.high))

NugetConstraint(c) ==
  CASE c.op = "[,]" -> IntervalRange(c)
    [] c.op # "[,]" /\ c.wild -> IF c.parts = <<>> THEN AnyVersion
                                 ELSE Between(Floor(c.parts), BumpLast(c.parts))
    [] c.op \in {"", "[]"} /\ ~c.wild -> Full("=", c)

(* Maven keeps the last interval of a union; an end past the width has no  *)
(* successor and the wildcard no reading.                                  *)
MavenConstraint(clauses) ==
  LET c == Last(clauses) IN
  CASE c.op = "[,]" -> IntervalRange(c)
    [] c.op = "latest" -> AnyVersion
    [] c.op = "+" -> IF c.parts = <<>> THEN AnyVersion
                     ELSE IF Last(c.parts) = Width THEN None
                     ELSE Between(Floor(c.parts), Bumped(c.parts, Last(c.parts) + 1))
    [] c.op \in {"", "[]"} -> Full("=", c)

(* hex `~>`: the last segment written floats.                              *)
HexTilde(c) ==
  LET upper == IF Len(c.parts) >= 3 THEN <<c.parts[1], Saturated(c.parts[2]), 0>>
               ELSE <<Saturated(c.parts[1]), 0, 0>>
  IN  <<Comp(">=", Floor(c.parts), Ids(c.words)), Comp("<", upper, <<>>)>>
HexClause(c) ==
  CASE c.op = "~>" -> HexTilde(c)
    [] c.op = "!=" -> None
    [] c.op \in {"", "=="} -> Full("=", c)
    [] c.op \in {">=", "<=", ">", "<"} -> Full(c.op, c)

(* One branch of a union of conjunctions: the first with the highest lower *)
(* bound of those that can be read.                                        *)
BoundOf(req, ops) ==
  LET floors == {Floor(req[i].parts) : i \in {j \in DOMAIN req : req[j].op \in ops}}
  IN  IF floors = {} THEN <<0, 0, 0>> ELSE Newest(floors)

(* Mutant: the branch with the lowest bound.                               *)
PickBranchLowest(branches, ops) ==
  LET readable == {i \in DOMAIN branches : branches[i] # None}
      bound(i) == BoundOf(branches[i], ops)
  IN  IF readable = {} THEN None
      ELSE branches[CHOOSE i \in readable : \A j \in readable : AtMost(bound(i), bound(j))]

PickBranch(branches, ops) ==
  LET readable == {i \in DOMAIN branches : branches[i] # None}
      bound(i) == BoundOf(branches[i], ops)
      highest == {i \in readable : \A j \in readable : AtMost(bound(j), bound(i))}
  IN  IF readable = {} THEN None
      ELSE branches[CHOOSE i \in highest : \A j \in highest : i <= j]

Conjoined(branch, Clause(_)) ==
  LET read == [i \in DOMAIN branch |-> Clause(branch[i])]
  IN  IF \E i \in DOMAIN read : read[i] = None THEN None ELSE FlattenSeq(read)

HexConstraint(branches) ==
  PickBranch([i \in DOMAIN branches |-> Conjoined(branches[i], HexClause)], {">=", ">", "="})

(* normalize_range_constraint, shared by npm, Composer, Dart and Cargo.    *)
HyphenRange(low, high) ==
  <<Comp(">=", Floor(low), <<>>)>>
    \o (CASE Len(high) = 3 -> <<Comp("<=", high, <<>>)>>
          [] Len(high) < 3 -> <<Comp("<", BumpLast(high), <<>>)>>)
RangeClause(c) ==
  CASE c.op = " - " -> IF Last(c.high.parts) = Width THEN None
                       ELSE HyphenRange(c.low.parts, c.high.parts)
    [] c.op = "garbled" -> None
    [] c.op = "" /\ c.wild -> IF c.parts = <<>> THEN AnyVersion ELSE <<Comp("=", c.parts, <<>>)>>
    [] c.op = "" /\ ~c.wild -> <<Comp("^", c.parts, Ids(c.words))>>
    [] c.op \in Op \ {""} -> <<Comp(c.op, c.parts, Ids(c.words))>>
NormalizeRangeConstraint(branches) ==
  PickBranch([i \in DOMAIN branches |-> Conjoined(branches[i], RangeClause)],
             {">", ">=", "=", "^", "~"})

IsBareFull(branches) ==
  /\ Len(branches) = 1 /\ Len(branches[1]) = 1
  /\ LET c == branches[1][1] IN c.op = "" /\ ~c.wild /\ Len(c.parts) = 3

(* to_semver_constraint.  Every `written` is a sequence of branches.       *)
ToSemverConstraint(e, written) ==
  CASE e = "Python" -> PythonConstraint(written[1])
    [] e = "CSharp" -> NugetConstraint(written[1][1])
    [] e = "Elixir" -> HexConstraint(written)
    [] e = "Jvm"    -> MavenConstraint(written[1])
    [] e \in {"Npm", "Dart"} /\ IsBareFull(written) -> Full("=", written[1][1])
    [] e \in {"Rust", "Php", "Go"} \/ (e \in {"Npm", "Dart"} /\ ~IsBareFull(written)) ->
         NormalizeRangeConstraint(written)

(***************************************************************************)
(* exact_pin: the version a constraint names when it names only one - a    *)
(* version written out in full under at most an `=`, which the dialect's   *)
(* own translation agrees is exact.                                        *)
(***************************************************************************)
IsLiteral(c) == c.op \in {"", "=", "==", "[]"} /\ ~c.wild /\ Len(c.parts) = 3

(* Mutant: however exact it looks, it is taken as exact.                   *)
ExactPinByLook(e, written) ==
  IF Len(written) = 1 /\ Len(written[1]) = 1 /\ IsLiteral(written[1][1])
  THEN written[1][1] ELSE None

ExactPin(e, written) ==
  LET req == ToSemverConstraint(e, written) IN
  IF /\ Len(written) = 1 /\ Len(written[1]) = 1 /\ IsLiteral(written[1][1])
     /\ req # None /\ Len(req) = 1 /\ req[1].op = "=" /\ Len(req[1].parts) = 3
  THEN written[1][1] ELSE None

(***************************************************************************)
(* A published version: [epoch, parts, words].                             *)
(***************************************************************************)
Known == {"alpha", "beta", "rc", "snapshot"}    \* KNOWN_QUALIFIERS
Unstable == Known \cup {"dev"}                  \* and the markers of the rest

Beyond(parts) == IF Len(parts) > 3 THEN SubSeq(parts, 4, Len(parts)) ELSE <<>>
Suffix(n) == Picked(n.words, {i \in DOMAIN n.words : n.words[i] \notin {"final", "post"}})
Post(n) == Picked(n.words, {i \in DOMAIN n.words : n.words[i] = "post"})

(* pep440_to_semver, nuget_to_semver, maven_to_semver: the fourth segment  *)
(* is dropped, or is a pre-release to Maven; a post-release is metadata.   *)
ToSemver(e, n) ==
  LET fourth == [i \in DOMAIN Beyond(n.parts) |-> <<0, Beyond(n.parts)[i]>>]
  IN  [rel |-> Floor(n.parts),
       pre |-> (IF e = "Jvm" THEN fourth ELSE <<>>) \o Ids(Suffix(n)),
       build |-> Ids(Post(n))]

IsPrerelease(e, n) ==
  IF e \in {"Jvm", "Python"} THEN \E i \in DOMAIN n.words : n.words[i] \in Unstable
  ELSE Suffix(n) # <<>>

(* UnstableFilter::filter: a list of nothing but pre-releases is kept.     *)
UnstableFilter(filter, list, current, e) ==
  LET stable == Picked(list, {i \in DOMAIN list : ~IsPrerelease(e, list[i])}) IN
  IF \/ filter = "IncludeAlways"
     \/ filter = "IncludeIfCurrent" /\ current # None /\ IsPrerelease(e, current)
     \/ stable = <<>>
  THEN list ELSE stable

(* maven::flavour: a suffix of words none of which Maven ranks.            *)
Flavour(n) ==
  IF n.words # <<>> /\ \A i \in DOMAIN n.words : n.words[i] \notin Known \cup {"final"}
  THEN n.words ELSE None

(* partitioning_flavours: the flavours some release comes in several of.   *)
PartitioningFlavours(releases) ==
  LET key(n) == IF Flavour(n) # None THEN ToSemver("Jvm", [n EXCEPT !.words = <<>>])
                ELSE ToSemver("Jvm", n)
      under(k) == {Flavour(n) : n \in {m \in releases : key(m) = k}}
  IN  UNION {under(key(n)) \ {None} : n \in {m \in releases : Cardinality(under(key(m))) > 1}}

(* Mutant: only the wanted flavour stays.                                  *)
SameFlavourExactly(list, current, e) ==
  LET wanted == IF current = None THEN None ELSE Flavour(current) IN
  IF e # "Jvm" \/ wanted = None THEN list
  ELSE Picked(list, {i \in DOMAIN list : Flavour(list[i]) = wanted})

SameFlavourOnly(list, current, e) ==
  LET wanted == IF current = None THEN None ELSE Flavour(current)
      partitioning == PartitioningFlavours(Range(list))
  IN  IF e # "Jvm" \/ wanted = None \/ wanted \notin partitioning THEN list
      ELSE Picked(list, {i \in DOMAIN list : Flavour(list[i]) \in {None, wanted}
                                              \/ Flavour(list[i]) \notin partitioning})

(***************************************************************************)
(* evaluate.                                                               *)
(***************************************************************************)
LockedPreReleaseRule(e) ==
  CASE e = "Python" -> "Pep440"
    [] e \in {"CSharp", "Jvm"} -> "ByOrdering"
    [] e \notin {"Python", "CSharp", "Jvm"} -> "OptIn"

(* Mutant: a pre-release of an excluded bound counts as below it.          *)
AdmitsLockedByOrdering(req, v, rule) ==
  IF v.pre = <<>> \/ rule = "OptIn" THEN ReqMatches(req, v)
  ELSE \A i \in DOMAIN req : CompMatches(req[i], v)

(* A lock names what is installed, so it needs no opting in: under PEP 440 *)
(* only `<V` still keeps the pre-releases of V out.                        *)
AdmitsLocked(req, v, rule) ==
  IF v.pre = <<>> \/ rule = "OptIn" THEN ReqMatches(req, v)
  ELSE /\ \A i \in DOMAIN req : CompMatches(req[i], v)
       /\ ~(rule = "Pep440" /\ \E i \in DOMAIN req :
              req[i].op = "<" /\ req[i].pre = <<>> /\ Floor(req[i].parts) = v.rel)

NewestInMajor(S, current) ==
  LET same == {v \in S : current # None /\ v.rel[1] = current.rel[1]}
  IN  IF same = {} THEN None ELSE NewestOf(same)

PatchFrom(from, to) ==
  /\ SemverOlder(from, to)
  /\ from.rel[1] = to.rel[1] /\ from.rel[2] = to.rel[2]
  /\ ~(from.rel[1] = 0 /\ from.rel[2] = 0)

Evaluation(status, compatible, available, inMajor) ==
  [status |-> status, compatible |-> compatible, available |-> available, inMajor |-> inMajor]

(* check_version_for: what has no reading is Undetermined, not current.    *)
Evaluate(req, S, locked, rule) ==
  LET newest == NewestOf(S)
      admitted == {v \in S : ReqMatches(req, v)}
      compatible == IF admitted = {} THEN None ELSE NewestOf(admitted)
      current == IF locked # None THEN locked ELSE compatible
      status == IF locked # None /\ ~AdmitsLocked(req, locked, rule) THEN "Outdated"
                ELSE IF current = None THEN "UpdateAvailable"
                ELSE IF ~SemverOlder(current, newest) THEN "UpToDate"
                ELSE IF compatible # None /\ PatchFrom(current, compatible) THEN "PatchAvailable"
                ELSE "UpdateAvailable"
  IN  Evaluation(status, compatible, newest, NewestInMajor(S, current))
CheckVersionFor(req, S, locked, rule) ==
  CASE req = None -> Evaluation("Undetermined", None, IF S = {} THEN None ELSE NewestOf(S),
                                NewestInMajor(S, locked))
    [] req # None /\ S = {} -> Evaluation("Error", None, None, None)
    [] req # None /\ S # {} -> Evaluate(req, S, locked, rule)

(* native_for: of the published versions that read alike, the one that     *)
(* ranks highest in what the reading dropped, then by its text.            *)
DiscardedPrecision(e, n) ==
  CASE e = "Python" -> <<n.epoch>> \o Beyond(n.parts)
    [] e = "CSharp" -> Beyond(n.parts)
    [] e \notin {"Python", "CSharp"} -> <<>>
SeqOlder(s, t) ==
  \/ IsStrictPrefix(s, t)
  \/ \E i \in DOMAIN s \cap DOMAIN t : s[i] < t[i] /\ \A j \in 1 .. i - 1 : s[j] = t[j]
RanksBelow(e, n, m) ==
  LET key(x) == DiscardedPrecision(e, x) IN
  SeqOlder(key(n), key(m)) \/ (key(n) = key(m) /\ TextOf(n) < TextOf(m))

(* Mutant: the last one listed, as a map keyed by the reading would give.  *)
NativeForLast(e, v, list) ==
  LET same == {i \in DOMAIN list : ToSemver(e, list[i]) = v}
  IN  IF v = None \/ same = {} THEN v
      ELSE list[CHOOSE i \in same : \A j \in same : j <= i]

NativeFor(e, v, list) ==
  LET same == {n \in Range(list) : ToSemver(e, n) = v}
  IN  IF v = None \/ same = {} THEN v
      ELSE CHOOSE m \in same : \A n \in same : n = m \/ RanksBelow(e, n, m)

(* evaluate_versions.  What is in use is the lock, or what the constraint  *)
(* spells; a version that is no semver as read is not there.               *)
Current(q) == IF q.locked # None THEN q.locked
              ELSE [epoch |-> 0, parts |-> Last(Last(q.written)).parts,
                    words |-> Last(Last(q.written)).words]
Readable(e, n) == e \in {"Python", "CSharp", "Jvm"} \/ Len(n.parts) = 3
(* Mutant: what is no semver stays among the versions to compare.          *)
ToSemverVersionsUnread(e, list) == list

ToSemverVersions(e, list) == Picked(list, {i \in DOMAIN list : Readable(e, list[i])})

Offered(q) == UnstableFilter(q.filter, q.listed, Current(q), q.e)
Kept(q) == SameFlavourOnly(Offered(q), Current(q), q.e)
Translated(q) == ToSemverVersions(q.e, Kept(q))
Readings(e, list) == {ToSemver(e, n) : n \in Range(list)}
Checked(q) ==
  LET locked == IF q.locked = None \/ ~Readable(q.e, q.locked) THEN None
                ELSE ToSemver(q.e, q.locked)
  IN  CheckVersionFor(ToSemverConstraint(q.e, q.written), Readings(q.e, Translated(q)),
                      locked, LockedPreReleaseRule(q.e))
InNativeVersions(e, eval, list) ==
  LET native(v) == NativeFor(e, v, list)
  IN  Evaluation(eval.status, native(eval.compatible), native(eval.available), native(eval.inMajor))
EvaluateVersions(q) == InNativeVersions(q.e, Checked(q), Translated(q))

(* The lists a registry can publish: only PEP 440 has epochs, and no two   *)
(* versions have one text.                                                 *)
Native == [epoch : Nat, parts : Seq(Nat), words : Seq(STRING)]
IsList(q) == q.topic = "list"
ListsAssumption ==
  /\ None \notin Native
  /\ \A q \in Questions : IsList(q) =>
       /\ {"e", "listed", "written", "locked", "filter"} \subseteq DOMAIN q
       /\ q.listed \in Seq(Native) /\ Current(q) \in Native
       /\ \A n \in Range(q.listed) : q.e # "Python" => n.epoch = 0
       /\ \A n \in Range(q.listed) : TextOf(n) \in Nat
       /\ \A n, m \in Range(q.listed) : TextOf(n) = TextOf(m) => n = m
ASSUME ListsAssumption

(***************************************************************************)
(* What each dialect means, on releases of up to three segments.           *)
(***************************************************************************)
Within(c, t) ==
  /\ c.low # None =>
       LET low == Floor(c.low.parts) IN Older(low, t) \/ (c.lowIn /\ t = low)
  /\ c.high # None =>
       LET high == Floor(c.high.parts) IN Older(t, high) \/ (c.highIn /\ t = high)

FloatsBelow(c, t) ==
  /\ AtMost(Floor(c.parts), t)
  /\ AgreeUpTo(IF Len(c.parts) = 1 THEN 1 ELSE Len(c.parts) - 1, c.parts, t)

ClauseMeans(e, c, t) ==
  CASE c.op = "[,]" -> Within(c, t)
    [] c.op \in {"~=", "~>"} -> FloatsBelow(c, t)
    [] c.op = " - " -> /\ AtMost(Floor(c.low.parts), t)
                       /\ Matches("<=", c.high.parts, t)
    [] c.op \in {"latest", "!="} -> TRUE
    [] c.op = "garbled" -> FALSE
    [] c.op # "[,]" /\ (c.wild \/ c.op = "+") -> AgreeUpTo(3, c.parts, t)
    [] c.op \in {"==", "[]"} /\ ~c.wild -> t = Floor(c.parts)
    [] c.op \in Op \ {""} -> IF e \in {"Python", "Elixir"} /\ c.op \in {">", ">=", "<", "<="}
                             THEN Matches(c.op, Floor(c.parts), t)
                             ELSE Matches(c.op, c.parts, t)
    [] c.op = "" /\ ~c.wild ->
         IF e \in {"Rust", "Python", "Php"} THEN Matches("^", Floor(c.parts), t)
         ELSE t = Floor(c.parts)

(* Maven's union of intervals is the one that commas join.                 *)
Means(q, t) ==
  \E b \in DOMAIN q.written :
    IF q.e = "Jvm" THEN \E i \in DOMAIN q.written[b] : ClauseMeans(q.e, q.written[b][i], t)
    ELSE \A i \in DOMAIN q.written[b] : ClauseMeans(q.e, q.written[b][i], t)
IsUnion(q) == Len(q.written) > 1 \/ (q.e = "Jvm" /\ Len(q.written[1]) > 1)

Final(t) == [rel |-> t, pre |-> <<>>, build |-> <<>>]
Early(t) == [rel |-> t, pre |-> Ids(<<"alpha">>), build |-> <<>>]

(* pin.rs, "the version a constraint names when it names only one": over   *)
(* every release and pre-release, the translation admits the pin alone.    *)
PinIsTheOnlyRelease(q) ==
  LET pin == ExactPin(q.e, q.written)
      req == ToSemverConstraint(q.e, q.written)
  IN  pin # None =>
        \A v \in {Final(t) : t \in Version} \cup {Early(t) : t \in Version} :
          ReqMatches(req, v) <=> v.rel = pin.parts /\ v.pre = Ids(pin.words)

(* Branches that admit something each, and nothing together.               *)
Apart(q) ==
  LET of(b) == {t \in Version : Means([q EXCEPT !.written = <<q.written[b]>>], t)}
  IN  /\ q.e # "Jvm" /\ Len(q.written) = 2
      /\ of(1) # {} /\ of(2) # {} /\ of(1) \cap of(2) = {}
      /\ \A b \in {1, 2} : \A i \in DOMAIN q.written[b] : q.written[b][i].op # "!="

(* What a dialect's range admits is what `evaluate` compares against: the  *)
(* translation admits no release the author excluded, and all the author   *)
(* admitted unless a union had to be narrowed to a branch - of branches    *)
(* that lie apart, the one with the newest release.  An installed          *)
(* pre-release between two admitted releases is in range, and under PEP    *)
(* 440 only if the release it precedes is.  And a pin is one release.      *)
ReadsAsWritten ==
  /\ question # None /\ question.topic = "pin" => PinIsTheOnlyRelease(question)
  /\ question # None /\ question.topic = "range" => PinIsTheOnlyRelease(question) /\
    LET req == ToSemverConstraint(question.e, question.written)
        rule == LockedPreReleaseRule(question.e)
        in == {t \in Version : ReqMatches(req, Final(t))}
        early == {t \in Version : AdmitsLocked(req, Early(t), rule)}
    IN  /\ req = None => IsUnion(question) \/ \A t \in Version : ClauseMeans(question.e, question.written[1][1], t)
                          \/ question.written[1][1].op = "garbled"
        /\ req # None =>
             /\ \A t \in in : Means(question, t)
             /\ ~IsUnion(question) => \A t \in Version : Means(question, t) => t \in in
             /\ Apart(question) => Newest({t \in Version : Means(question, t)}) \in in
             /\ rule # "OptIn" => \A t \in in : (\E s \in in : Older(s, t)) => t \in early
             /\ rule = "Pep440" => early \subseteq in

(* A version by its number alone.                                          *)
Padded(n) == <<n.epoch>> \o [i \in 1 .. 4 |-> IF i \in DOMAIN n.parts THEN n.parts[i] ELSE 0]

(* What is reported was published, and reads as a version: of the releases *)
(* that read alike the newest, whatever order the registry listed them in; *)
(* never a pre-release the filter set aside; never another flavour of a    *)
(* release offered in several - and a list never filters down to nothing.  *)
ReportedWasPublished ==
  question # None /\ IsList(question) =>
    LET eval == EvaluateVersions(question)
        said == {eval.compatible, eval.available, eval.inMajor} \ {None}
        listed == Range(question.listed)
        flavours == PartitioningFlavours(Range(Offered(question)))
        wanted == Flavour(Current(question))
    IN  /\ question.listed # <<>> => Kept(question) # <<>>
        /\ EvaluateVersions([question EXCEPT !.listed = Reverse(@)]) = eval
        /\ \A n \in said :
             /\ n \in listed /\ Readable(question.e, n)
             /\ question.e \in {"Python", "CSharp"} =>
                  \A m \in Range(Kept(question)) :
                    ToSemver(question.e, m) = ToSemver(question.e, n) =>
                      ~SeqOlder(Padded(n), Padded(m))
             /\ question.filter = "Exclude" /\ IsPrerelease(question.e, n) =>
                  \A m \in listed : IsPrerelease(question.e, m)
             /\ question.e = "Jvm" /\ wanted \in flavours =>
                  Flavour(n) \in {None, wanted} \/ Flavour(n) \notin flavours

(* A question is asked once.                                               *)
DialectsInit == question \in Questions \cup {None}
DialectsSpec == DialectsInit /\ [][UNCHANGED question]_question
=============================================================================
