----------------------------- MODULE MCUpgrade -----------------------------
(* Small instances of Upgrade and, beside them, of Dialects and of Fix.    *)
EXTENDS Upgrade, Dialects, Fix, TLC

(* One release on each line a caret below 1.0.0 keys its bound off, two of *)
(* a patch line.  What a constraint admits is compared over every Version, *)
(* whether listed or not.                                                  *)
SomeReleases == {<<0, 0, 1>>, <<0, 1, 0>>, <<1, 0, 0>>, <<1, 0, 1>>}

SomeParts ==
  {<<>>, <<0>>, <<1>>, <<0, 1>>, <<1, 0>>, <<0, 0, 1>>, <<1, 0, 0>>}

FloorOps == {"", "^", "~", "=", ">="}

(* Operators that name a ceiling.                                          *)
CeilingOps == {"<", "<="}

-----------------------------------------------------------------------------
(* Constraints as each dialect writes them.                                *)
Cl(op, parts) == [op |-> op, parts |-> parts, words |-> <<>>, wild |-> FALSE]
Alpha(c) == [c EXCEPT !.words = <<"alpha">>]
Wild(op, parts) == [Cl(op, parts) EXCEPT !.wild = TRUE]
Span2(op, low, high, lowIn, highIn) ==
  [op |-> op, low |-> low, high |-> high, lowIn |-> lowIn, highIn |-> highIn,
   wild |-> FALSE, parts |-> <<>>, words |-> <<>>]

Numbers == {<<0>>, <<1>>, <<0, 1>>, <<1, 0>>, <<1, 1>>, <<0, 0, 1>>, <<0, 1, 0>>,
            <<1, 0, 0>>, <<1, 0, 1>>, <<1, 1, 2>>}
Triples == {n \in Numbers : Len(n) = 3}
Ends == {None, Cl("", <<1>>), Cl("", <<1, 1>>), Cl("", <<0, 1, 1>>), Alpha(Cl("", <<1, 1, 0>>))}
Intervals == {Span2("[,]", a, b, x, y) : a, b \in Ends, x, y \in BOOLEAN}
PlainIntervals == {c \in Intervals : /\ c.low = None \/ c.low.words = <<>>
                                     /\ c.high = None \/ c.high.words = <<>>}

PythonClauses ==
  {Cl(op, n) : op \in {"", "==", "^", "~", ">=", "<=", ">", "<"}, n \in Numbers}
    \cup {Cl("~=", n) : n \in {m \in Numbers : Len(m) > 1}}
    \cup {Wild(op, n) : op \in {"", "=="}, n \in Numbers \cup {<<>>}}
    \cup {Cl("!=", <<1>>)}
HexClauses == {Cl(op, n) : op \in {"~>", "", "==", ">=", "<", ">", "<="}, n \in Numbers}
NpmClauses == {Cl(op, n) : op \in Op \ {""}, n \in Numbers} \cup {Cl("", n) : n \in Triples}
                \cup {Wild("", n) : n \in Numbers \ Triples}
                \cup {Span2(" - ", Cl("", m), Cl("", n), TRUE, TRUE) : m, n \in Numbers}
Garbled == Cl("garbled", <<>>)

(* A few of each to make pairs of: `a and b`, `a or b`.                    *)
Few(op, big) == {Cl(op, n) : n \in {<<1>>, <<0, 1>>, <<1, 0, 1>>}} \cup {Cl(big, <<1, 1>>), Cl(big, <<2>>)}

Ask(e, branches) == [topic |-> "range", e |-> e, written |-> branches]
Ranges ==
  {Ask("Python", <<<<c>>>>) : c \in PythonClauses}
    \cup {Ask("Python", <<<<a, b>>>>) : a \in Few("~=", "<") \ {Cl("~=", <<1>>)},
                                       b \in Few(">=", "<") \cup {Cl("!=", <<1>>)}}
    \cup {Ask("CSharp", <<<<c>>>>) : c \in PlainIntervals \cup {Cl("", n) : n \in Numbers}
              \cup {Cl("[]", n) : n \in Numbers} \cup {Wild("", n) : n \in Numbers \cup {<<>>}}}
    \cup {Ask("Jvm", <<<<c>>>>) : c \in PlainIntervals \cup {Cl("", n) : n \in Numbers}
              \cup {Cl("+", n) : n \in Numbers \cup {<<>>}} \cup {Cl("latest", <<>>)}}
    \cup {Ask("Jvm", <<<<a, b>>>>) : a, b \in PlainIntervals}
    \cup {Ask("Elixir", <<<<c>>>>) : c \in HexClauses}
    \cup {Ask("Elixir", <<<<a, b>>, <<c>>>>) : a \in Few("~>", "<"), b \in Few(">=", "<") \cup {Cl("!=", <<1>>)},
                                             c \in Few("~>", "<=")}
    \cup {Ask(e, <<<<c>>>>) : e \in {"Npm", "Dart"}, c \in NpmClauses}
    \cup {Ask("Npm", <<<<a>>, <<b, c>>>>) : a \in Few("^", "<") \cup {Garbled},
                                         b \in Few(">=", ">"), c \in Few("~", "<")}
    \cup {Ask("Rust", <<<<c>>>>) : c \in {Cl(op, n) : op \in Op, n \in Triples}}

(* Pins as they are written, with a pre-release or not.                    *)
Pins ==
  {[Ask(e, <<<<c>>>>) EXCEPT !.topic = "pin"] : e \in {"Python", "CSharp", "Jvm", "Npm", "Rust", "Elixir", "Dart"},
     c \in {Cl("", n) : n \in Triples} \cup {Alpha(Cl("", <<1, 0, 0>>))}}
EarlyPins ==
  {[q EXCEPT !.written[1][1].op = IF q.e = "Rust" THEN "=" ELSE IF q.e = "CSharp" THEN "[]" ELSE "=="] :
     q \in {p \in Pins : p.e \in {"Rust", "CSharp", "Python", "Elixir"}}}

Nat3(parts) == [epoch |-> 0, parts |-> parts, words |-> <<>>]
Named(parts, w) == [epoch |-> 0, parts |-> parts, words |-> <<w>>]
ListQ(e, list, clause, lock, filter) ==
  [topic |-> "list", e |-> e, listed |-> list, written |-> <<<<clause>>>>,
   locked |-> lock, filter |-> filter]

PyReleases == <<Nat3(<<1, 0, 1>>), Nat3(<<1, 0, 1, 1>>), [Nat3(<<1, 0, 1>>) EXCEPT !.epoch = 1],
                Nat3(<<1, 0>>), Nat3(<<1>>), Named(<<1, 0>>, "post"), Named(<<1, 1>>, "rc")>>
JvmReleases == <<Nat3(<<2, 0>>), Named(<<2, 0>>, "jre"), Named(<<2, 0>>, "android"), Named(<<2, 1>>, "jre"),
                 Named(<<1, 0>>, "final"), Nat3(<<2, 1, 0, 1>>), Named(<<3>>, "alpha")>>
OtherReleases == <<Nat3(<<1, 0, 1>>), Nat3(<<1, 0, 1, 2>>), Nat3(<<1, 0, 1, 1>>), Named(<<1, 1, 0>>, "alpha")>>
Orders(seq) ==
  LET picked(I) == [k \in 1 .. Cardinality(I) |->
                      seq[CHOOSE i \in I : Cardinality({j \in I : j <= i}) = k]]
  IN  {picked(I) : I \in SUBSET (DOMAIN seq)}
Lists ==
  {ListQ("Python", l, Cl(">=", <<1>>), lock, "Exclude") :
     l \in Orders(PyReleases), lock \in {None, Nat3(<<1, 0>>)}}
    \cup {ListQ("Jvm", l, Cl("", <<2, 0>>), lock, filter) : l \in Orders(JvmReleases),
             lock \in {None, Named(<<2, 0>>, "jre"), Named(<<3>>, "alpha")},
             filter \in {"Exclude", "IncludeIfCurrent"}}
    \cup {ListQ(e, l, Cl("", <<1, 0, 1>>), None, "IncludeAlways") : e \in {"CSharp", "Npm"},
             l \in Orders(OtherReleases)}

(* The releases above as their texts sort: "1" before "1!1.0.1".           *)
Alphabetical ==
  <<Nat3(<<1>>), [Nat3(<<1, 0, 1>>) EXCEPT !.epoch = 1], Nat3(<<1, 0>>), Nat3(<<1, 0, 1>>),
    Nat3(<<1, 0, 1, 1>>), Nat3(<<1, 0, 1, 2>>), Named(<<1, 0>>, "final"), Named(<<1, 0>>, "post"),
    Named(<<1, 1, 0>>, "alpha"), Named(<<1, 1>>, "rc"), Nat3(<<2, 0>>), Named(<<2, 0>>, "android"),
    Named(<<2, 0>>, "jre"), Named(<<2, 1>>, "jre"), Nat3(<<2, 1, 0, 1>>), Named(<<3>>, "alpha")>>
AlphabeticalPlace(n) == CHOOSE i \in DOMAIN Alphabetical : Alphabetical[i] = n

SomeQuestions == Ranges \cup Pins \cup EarlyPins \cup Lists

-----------------------------------------------------------------------------
CONSTANTS serde, tokio, one, two, serdeNew, tokioNew

Says(dep, text) == [dep |-> dep, says |-> text]

(* Two manifests, one of them already current in one of its two lines.     *)
TwoManifests == << << Says(serde, one), Says(tokio, two) >>,
                   << Says(tokio, two) >> >>
DistinctTexts == serde :> {one, serdeNew} @@ tokio :> {two, tokioNew}

FixedTo == serde :> serdeNew @@ tokio :> tokioNew

-----------------------------------------------------------------------------
(* The life of a dependency, or a question that takes no step.             *)
Still ==
  /\ ecosystem = "Rust" /\ override = FALSE /\ constraint = Tag /\ listed = {<<1, 0, 0>>}
  /\ locked = None /\ last = None /\ written = Tag /\ raised = None

(* The fix of a tree of manifests, or nothing to fix.                      *)
NoFix ==
  /\ pc = "off" /\ file = Layout /\ saves = 0 /\ dryRun = FALSE /\ at = 1 /\ rows = {}
  /\ plans = [m \in Manifest |-> Nothing]
  /\ tally = [left |-> 0, unchecked |-> 0, unread |-> 0, total |-> 0]
  /\ printed = {} /\ renamed = {} /\ behind = 0 /\ late = FALSE /\ said = Nothing

MCInit == \/ Init /\ question = None /\ NoFix
          \/ Still /\ question \in Questions /\ NoFix
          \/ Still /\ question = None /\ FixInit
MCNext == \/ pc = "off" /\ question = None /\ Next /\ UNCHANGED <<question, fixVars>>
          \/ question # None /\ UNCHANGED <<vars, question, fixVars>>
          \/ pc # "off" /\ FixNext /\ UNCHANGED <<vars, question>>
MCSpec == MCInit /\ [][MCNext]_<<vars, question, fixVars>>
=============================================================================
