------------------------------ MODULE MCPapers ------------------------------
(* Small manifests of every kind for module Parsers, and small documents   *)
(* for module JsonScan.                                                     *)
EXTENDS Parsers, JsonScan

P(v) == Written("plain", v)
R(n) == Written("ref", n)
C(n) == Written("composed", n)
Escaped(t) == [t EXCEPT !.whole = FALSE]
In(section, key, text) ==
    [section |-> section, key |-> key, branches |-> <<[has |-> {}, text |-> text]>>]
Having(e, has) == [e EXCEPT !.branches = <<[@[1] EXCEPT !.has = has]>>]
Paper(form, table, entries) ==
    [form |-> form, legible |-> TRUE, table |-> table, own |-> <<Blank, Blank>>,
     parent |-> <<Blank, Blank>>, title |-> Blank, workspace |-> FALSE, entries |-> entries]
Line(n, t) == [name |-> n, text |-> t]

GA == <<P("g"), P("a")>>
PomTables ==
    {<<Line("a", x), Line("b", y), Line("c", P("3"))>> :
        x \in {P("1"), R("b"), C("b")}, y \in {P("2"), Escaped(P("2")), R("a"), R("c")}}
    \cup {<<Line("b", P("2")), Line("a", P("1")), Line("b", Blank)>>,
          <<Line("b", P("2")), Line("project.version", P("8")), Line("b", P("4"))>>,
          <<Line("a", R("d")), Line("d", R("b")), Line("b", R("c")), Line("c", P("3"))>>}
PomPapers ==
    {[Paper("pom", table, <<In("dependencies", GA, v), In(s, <<P("g"), k>>, w)>>)
      EXCEPT !.own = <<P("g"), o>>, !.title = P("a"), !.parent = <<Blank, p>>] :
        table \in PomTables, v \in {P("5"), R("a"), C("b"), R("project.version")},
        s \in {"dependencies", "managed", "plugin", "profile"}, k \in {P("b")},
        w \in {R("a"), R("b"), P("6")}, o \in {Blank, P("7"), R("b")}, p \in {P("9")}}
    \cup
    {[Paper("pom", t, <<Having(In("dependencies", k, v), h), In("dependencies", l, Blank)>>)
      EXCEPT !.legible = g] :
        t \in {<<Line("b", P("2"))>>, <<>>},
        k \in {GA, <<R("b"), P("a")>>, <<Blank, P("a")>>, <<Blank, Blank>>},
        v \in {R("b"), P("5")}, h \in {{}, {"test"}, {"optional"}, {"system"}},
        l \in {GA, <<Blank, Blank>>}, g \in BOOLEAN}

CatalogPapers ==
    {Paper("catalog", table, <<In("libraries", <<P("x")>>, v), In(s, <<k>>, w), u>>) :
        table \in {<<Line("a", x), Line("b", P("2"))>> :
                       x \in {P("1"), Written("strict", "1"), Blank}},
        v \in {R("a"), P("5"), Written("bang", "5"), Blank}, s \in {"libraries", "plugins"},
        w \in {R("a"), R("b"), R("c")}, k \in {P("y"), Blank},
        u \in {In("plugins", <<P("z")>>, R("b")), In("libraries", <<P("z")>>, R("a"))}}

Alias(scheme, v) == [Written(scheme, v) EXCEPT !.to = "other"]
NpmTexts == {P("1"), Escaped(P("1")), Alias("npm", "1"), Alias("npm", ""), Alias("jsr", "1"),
             Written("local", "w"), Written("git", "u")}
NpmPapers ==
    {Paper("npm", <<>>, <<In(s, <<P("x")>>, v), w, In("devDependencies", <<P("y")>>, P("2"))>>) :
        s \in {"dependencies", "peerDependencies", "optionalDependencies", "catalog", "scripts"},
        v \in NpmTexts,
        w \in {In("devDependencies", <<P("x")>>, u) : u \in NpmTexts} \cup
              {In(o, <<k>>, u) : o \in {"overrides", "resolutions", "pnpm.overrides"},
                  k \in {P("x"), P("z"), Written("wild", "*")},
                  u \in {R("x"), R("y"), R("q"), P("3"), Written("removed", "-")}} \cup
              {In("nested", <<k, c>>, u) : k \in {P("x"), Written("wild", "*")},
                  c \in {P("z"), Written("self", ".")}, u \in {R("x"), P("3")}}}

Flat == {"cargo", "python", "requirements", "pubspec", "csproj", "composer", "deno", "go",
         "mix", "pnpm"}
FlatTexts == {P("1"), Written("compound", "2"), Written("bare", ""), Alias("npm", "1"),
              Alias("jsr", ""), Escaped(P("1")), Blank, Written("local", "p")}
SomeSection(f) == CHOOSE s \in DOMAIN Sections[f] : TRUE
Split(section, branches) == [section |-> section, key |-> <<P("x")>>, branches |-> branches]
Branch(has, text) == [has |-> has, text |-> text]
FlatPapers ==
    UNION {{[Paper(f, <<>>, <<In(s, <<k>>, t), In(SomeSection(f), <<P("y")>>, P("4"))>>)
             EXCEPT !.legible = g] :
               s \in DOMAIN Sections[f] \cup {"other"},
               k \in {P("x"), P("python"), Written("option", "-e")},
               t \in FlatTexts \cup (IF f = "csproj" THEN {R("x")} ELSE {}),
               g \in BOOLEAN} : f \in Flat}
    \cup {Paper("python", <<>>, <<Split(SomeSection("python"), <<Branch(h, t), Branch(i, u)>>)>>) :
              h, i \in {{}, {"path"}, {"git"}, {"url"}}, t, u \in {P("1"), Blank}}
    \cup {Paper("cargo", <<>>, <<Split(s, <<Branch(h, t)>>)>>) :
              s \in DOMAIN CargoSections, h \in SUBSET {"workspace", "path", "git"},
              t \in {P("1"), Blank}}
    \cup {Paper("go", <<>>, <<Having(In("require", <<P("x")>>, P("1")), {"indirect"})>>),
          Paper("swift", <<>>, <<>>)}

MCPapers == PomPapers \cup CatalogPapers \cup NpmPapers \cup FlatPapers

-----------------------------------------------------------------------------
(* JSON documents by its grammar - arrays and objects of two values, with  *)
(* the strings they hold under their paths -, whole and cut anywhere; and  *)
(* token sequences of any kind.                                            *)
Leaf(token) == Document(<<token>>, <<[path |-> <<>>, value |-> token]>>, 0)
Literal  == Document(<<"true">>, <<>>, 0)
Nobody   == Document(<<"{", "}">>, <<>>, 1)
NoValues == Document(<<"[", "]">>, <<>>, 1)

Beneath(key, doc) == [j \in DOMAIN doc.holds |-> [doc.holds[j] EXCEPT !.path = <<key>> \o @]]
Deeper(a, b) == 1 + (IF a.depth > b.depth THEN a.depth ELSE b.depth)
ArrayOf(a, b) ==
    Document(<<"[">> \o a.text \o <<",">> \o b.text \o <<"]">>,
             Beneath("0", a) \o Beneath("1", b), Deeper(a, b))
ObjectOf(a, b) ==
    Document(<<"{", "name", ":">> \o a.text \o <<",", "word", ":">> \o b.text \o <<"}">>,
             Beneath("name", a) \o Beneath("word", b), Deeper(a, b))
Nested(docs) == {ArrayOf(a, b) : a, b \in docs} \cup {ObjectOf(a, b) : a, b \in docs}

Shallow == {Leaf("word"), Literal, Nobody, NoValues}
Level2 == Nested({Leaf("word"), Nobody})
SomeJson == Shallow \cup Nested(Shallow) \cup {ArrayOf(a, Leaf("word")) : a \in Level2}
            \cup {ObjectOf(Leaf("name"), a) : a \in Level2}
AnyTokens == {"{", "}", "[", "]", ",", ":", "word", "true", "junk", "open"}
MCManuscripts ==
   UNION {{Cut(d, n) : n \in 0 .. Len(d.text)} : d \in SomeJson}
   \cup {Loose(x) : x \in UNION {[1 .. k -> AnyTokens] : k \in 1 .. 3}}
   \cup {Loose(<<o>> \o x) : o \in {"{", "["}, x \in [1 .. 3 -> AnyTokens \ {"true"}]}
=============================================================================
