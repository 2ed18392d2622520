------------------------------ MODULE Parsers ------------------------------
(* The manifest parsers of dependable-core: what each of fourteen manifest *)
(* kinds reports as a dependency, and the place in the document a rewrite  *)
(* of its version may touch.                                               *)
(*                                                                         *)
(* A document is a table of named values (a POM's <properties>, a          *)
(* catalog's [versions]), what the project says of itself, and entries,    *)
(* each in a section.  A text is written in some way (as): a version as it *)
(* stands, a reference to a name, a value composed with one, an alias, a   *)
(* path...  A text that is not `whole` is escaped or in pieces: it has a   *)
(* value, and no span that holds it.                                       *)
EXTENDS Naturals, FiniteSets, Sequences, FiniteSetsExt, SequencesExt, TLC

CONSTANTS
    Papers,      \* the documents that may be read
    MaxHops,     \* property references followed (MAX_PROPERTY_HOPS, 8)
    NewVersion   \* what a rewrite writes

VARIABLES
    paper,       \* the document
    desk,        \* "closed", "refused", "read", "written", "reread"
    found,       \* the items the last reading reported
    prior,       \* the items of the reading before the rewrite
    stroke       \* the item whose version was rewritten

parserVars == <<paper, desk, found, prior, stroke>>

Written(as, of) == [as |-> as, of |-> of, to |-> "", whole |-> TRUE]
Blank     == Written("blank", "")
Unstated  == ""
Unlocated == <<"nowhere", 0, 0>>
NoStroke  == [entry |-> 0, name |-> <<>>, constraint |-> "", source |-> "", kind |-> "",
              place |-> Unlocated, wide |-> FALSE]

IsLiteralText(t) == t.as \in {"plain", "strict", "bang", "compound"}

(* The kind each section of a manifest gives its dependencies; entries of  *)
(* any other section are not dependencies.                                 *)
NpmSections ==
    ("dependencies" :> "Normal") @@ ("devDependencies" :> "Dev")
    @@ ("peerDependencies" :> "Peer") @@ ("optionalDependencies" :> "Optional")
    @@ [s \in {"catalog", "catalogs"} |-> "Workspace"]
    @@ [s \in {"overrides", "resolutions", "pnpm.overrides", "nested"} |-> "Override"]

CargoSections ==
    [s \in {"dependencies", "target.dependencies"} |-> "Normal"]
    @@ [s \in {"dev-dependencies", "target.dev-dependencies"} |-> "Dev"]
    @@ [s \in {"build-dependencies", "target.build-dependencies"} |-> "Build"]
    @@ ("workspace.dependencies" :> "Workspace")

PythonTables == {"poetry.dependencies", "poetry.group", "poetry.dev-dependencies",
                 "pypi-dependencies"}
PythonSections ==
    [s \in {"poetry.dependencies", "project.dependencies", "pypi-dependencies"} |-> "Normal"]
    @@ [s \in {"poetry.group", "poetry.dev-dependencies", "dependency-groups",
               "uv.dev-dependencies", "pdm.dev-dependencies"} |-> "Dev"]
    @@ ("optional-dependencies" :> "Optional") @@ ("build-system" :> "Build")

Sections ==
    [pom |-> ("dependencies" :> "Normal"), catalog |-> ("libraries" :> "Normal"),
     npm |-> NpmSections, cargo |-> CargoSections, python |-> PythonSections,
     requirements |-> ("lines" :> "Normal"),
     pubspec  |-> ("dependencies" :> "Normal") @@ ("dev_dependencies" :> "Dev"),
     csproj   |-> ("PackageReference" :> "Normal") @@ ("PackageVersion" :> "Workspace"),
     composer |-> ("require" :> "Normal") @@ ("require-dev" :> "Dev"),
     deno     |-> [s \in {"imports", "scopes"} |-> "Normal"],
     go       |-> ("require" :> "Normal"), mix |-> ("deps" :> "Normal"),
     pnpm     |-> [s \in {"catalog", "catalogs"} |-> "Workspace"],
     swift    |-> <<>>]

(* An item at a place, with the width of the text there, or nowhere.       *)
ItemAt(i, name, source, kind, text, place) ==
    [entry |-> i, name |-> name, constraint |-> text.of, source |-> source, kind |-> kind,
     place |-> place, wide |-> text.whole /\ text.of # ""]

ItemNowhere(i, name, source, kind, constraint) ==
    [entry |-> i, name |-> name, constraint |-> constraint, source |-> source, kind |-> kind,
     place |-> Unlocated, wide |-> FALSE]

-----------------------------------------------------------------------------
(* pom.xml *)

BuiltIns == <<"project.groupId", "project.version">>

(* A project's own field, or its <parent>'s.                               *)
OwnField(doc, b) == IF doc.own[b] # Blank THEN doc.own[b] ELSE doc.parent[b]

BuiltIn(doc, n) == {b \in 1 .. 2 : BuiltIns[b] = n /\ OwnField(doc, b) # Blank}

(* The row of the table a name stands for: the last one that says a value. *)
RowNamed(doc, n) ==
    Max({0} \cup {r \in DOMAIN doc.table : doc.table[r].name = n /\ doc.table[r].text # Blank})

PropertyOf(doc, n) ==
    IF BuiltIn(doc, n) # {} THEN OwnField(doc, CHOOSE b \in BuiltIn(doc, n) : TRUE)
    ELSE IF RowNamed(doc, n) = 0 THEN Blank ELSE doc.table[RowNamed(doc, n)].text

(* The property a chain of references ends at, if it ends within MaxHops.  *)
Terminal(doc, start) ==
    LET hop(n, k) == IF PropertyOf(doc, n).as = "ref" THEN PropertyOf(doc, n).of ELSE n
        end == FoldLeft(hop, start, [k \in 1 .. MaxHops |-> k])
    IN IF PropertyOf(doc, end).as = "plain" THEN end ELSE Unstated

(* Half a coordinate: what it resolves to, or what it literally states.    *)
Half(doc, t) ==
    IF t.as = "ref" /\ Terminal(doc, t.of) # Unstated
    THEN PropertyOf(doc, Terminal(doc, t.of)) ELSE t

(* Every text of a document, with where it is.                             *)
Writings(doc) ==
    {<<"row", r, 0, doc.table[r].text>> : r \in DOMAIN doc.table}
    \cup {<<"own", b, 0, doc.own[b]>> : b \in 1 .. 2}
    \cup {<<"parent", b, 0, doc.parent[b]>> : b \in 1 .. 2}
    \cup UNION {{<<"key", i, h, doc.entries[i].key[h]>> : h \in DOMAIN doc.entries[i].key}
                \cup {<<"entry", i, b, doc.entries[i].branches[b].text>> :
                         b \in DOMAIN doc.entries[i].branches} : i \in DOMAIN doc.entries}

(* How many texts of the whole document read a property.  A row that is    *)
(* wholly one reference is a link of a chain and not a reader.             *)
PropertyReaders(doc, n) ==
    {w \in Writings(doc) : /\ w[4].as \in {"ref", "composed"}
                           /\ ~(w[1] = "row" /\ w[4].as = "ref")
                           /\ Terminal(doc, w[4].of) = n}

(* One that looks only where the dependencies are.                         *)
PropertyReadersListed(doc, n) ==
    {w \in Writings(doc) : /\ w[1] = "entry" /\ doc.entries[w[2]].section = "dependencies"
                           /\ w[4].as \in {"ref", "composed"}
                           /\ Terminal(doc, w[4].of) = n}

CountListedRefs(doc, n)   == Cardinality(PropertyReadersListed(doc, n))
CountPropertyRefs(doc, n) == Cardinality(PropertyReaders(doc, n))

Unspanned(i, name, source, kind, constraint) ==
    ItemNowhere(i, name, IF source = "Registry" THEN "Inherited" ELSE source, kind, constraint)

(* What a <dependency> says: its version is its own, a property that       *)
(* somebody else may read, or not in this file.                            *)
PomItems(doc, i) ==
    LET e       == doc.entries[i]
        name    == [h \in 1 .. 2 |-> Half(doc, e.key[h])]
        has     == e.branches[1].has
        version == e.branches[1].text
        n       == IF version.as = "ref" THEN Terminal(doc, version.of) ELSE Unstated
        source  == IF "system" \in has THEN "Local"
                   ELSE IF \E h \in 1 .. 2 : name[h].as # "plain" THEN "Unidentified"
                   ELSE "Registry"
        kind    == IF "test" \in has THEN "Dev"
                   ELSE IF "optional" \in has THEN "Optional" ELSE "Normal"
        text    == IF n = Unstated THEN version ELSE PropertyOf(doc, n)
        sole    == \/ n = Unstated
                   \/ CountPropertyRefs(doc, n) = 1 /\ BuiltIn(doc, n) = {}
        place   == IF n = Unstated THEN <<"entry", i, 1>> ELSE <<"row", RowNamed(doc, n), 0>>
    IN IF e.key = <<Blank, Blank>> THEN {}
       ELSE IF text.as # "plain" THEN {Unspanned(i, name, source, kind, "")}
       ELSE IF sole /\ text.whole THEN {ItemAt(i, name, source, kind, text, place)}
       ELSE {Unspanned(i, name, source, kind, text.of)}

(* What a POM states and does not list is announced, with its count.       *)
Notices(doc) ==
    IF doc.form # "pom" THEN <<>>
    ELSE [s \in {"profile", "managed", "plugin"} |->
            Cardinality({i \in DOMAIN doc.entries : doc.entries[i].section = s})]

Unnameable(items) == {x.name : x \in {x \in items : x.source = "Unidentified"}}

-----------------------------------------------------------------------------
(* libs.versions.toml *)

(* Who refers to an alias: [plugins] as well as [libraries].               *)
CountVersionRefs(doc, alias) ==
    Cardinality({i \in DOMAIN doc.entries :
                    doc.entries[i].branches[1].text = Written("ref", alias)})

Strictness(t) == IF t.as \in {"strict", "bang"} THEN "Override" ELSE "Normal"

CatalogItems(doc, i) ==
    LET e == doc.entries[i]
        t == e.branches[1].text
        r == RowNamed(doc, t.of)
        target == doc.table[r].text
    IN IF e.key[1] = Blank THEN {}
       ELSE IF IsLiteralText(t)
            THEN {ItemAt(i, e.key, "Registry", Strictness(t), t, <<"entry", i, 1>>)}
       ELSE IF t.as # "ref" \/ r = 0 THEN {}
       ELSE IF CountVersionRefs(doc, t.of) = 1
            THEN {ItemAt(i, e.key, "Registry", Strictness(target), target, <<"row", r, 0>>)}
       ELSE {ItemNowhere(i, e.key, "Inherited", Strictness(target), target.of)}

-----------------------------------------------------------------------------
(* package.json *)

DirectSections == {"dependencies", "devDependencies", "peerDependencies", "optionalDependencies"}

(* The entry a `$name` refers to: the last direct dependency of that name. *)
ReferredTo(doc, n) ==
    Max({0} \cup {j \in DOMAIN doc.entries : /\ doc.entries[j].section \in DirectSections
                                            /\ doc.entries[j].key[1].of = n})

(* The key that names an entry's package: in a nested override "." is the  *)
(* parent's own pin.                                                       *)
NamingKey(e) ==
    IF e.section = "nested" /\ e.key[2].as # "self" THEN e.key[2] ELSE e.key[1]

SkipSource == [local |-> "Local", git |-> "Git", removed |-> "Unresolved"]

(* A value read under a key, from the place its version is at.             *)
Resolve(i, key, kind, t, place, wide) ==
    IF t.as \in DOMAIN SkipSource THEN ItemNowhere(i, <<key>>, SkipSource[t.as], kind, "")
    ELSE [ItemAt(i, IF t.as \in {"npm", "jsr"} THEN <<Written("plain", t.to)>> ELSE <<key>>,
                 IF t.as = "jsr" THEN "Jsr" ELSE "Registry", kind, t, place)
          EXCEPT !.wide = @ /\ wide]

NpmItems(doc, i) ==
    LET e    == doc.entries[i]
        kind == NpmSections[e.section]
        key  == Written("plain", NamingKey(e).of)
        t    == e.branches[1].text
        j    == ReferredTo(doc, t.of)
    IN IF kind = "Override" /\ NamingKey(e).as \in {"wild", "self"} THEN {}
       ELSE IF kind # "Override" \/ t.as # "ref"
            THEN {Resolve(i, key, kind, t, <<"entry", i, 1>>, TRUE)}
       ELSE IF j = 0 THEN {ItemNowhere(i, <<key>>, "Unresolved", kind, "")}
       ELSE {Resolve(i, key, kind, doc.entries[j].branches[1].text, <<"entry", i, 1>>, FALSE)}

-----------------------------------------------------------------------------
(* The manifests whose entries each say their own version.  What each     *)
(* reader makes an item of, given the entry's key, section and text:       *)

(* A string under a key, or the `version` of a table.                      *)
CargoReads(k, s, t) == t.as \in {"plain", "compound"}

(* A table's like Cargo's, the interpreter aside; in an array, a PEP 508   *)
(* requirement that is no URL and no installer option.                     *)
PythonReads(k, s, t) ==
    IF s \in PythonTables THEN t.as \in {"plain", "compound"} /\ k.of # "python"
    ELSE t.as \in {"plain", "compound", "bare"} /\ k.as # "option"

(* Neither an option, a path, a URL, nor a line whose comment opts out.    *)
RequirementsReads(k, s, t) == t.as \in {"plain", "compound", "bare"} /\ k.as # "option"

(* One clause on the entry's line: no range of two, no map beneath it.     *)
PubspecReads(k, s, t) == t.as = "plain"

(* A Version attribute that names no $(Property).                          *)
CsprojReads(k, s, t) == t.as \in {"plain", "compound"}

(* vendor/name, as opposed to the platform: php, ext-json.                 *)
ComposerReads(k, s, t) == t # Blank /\ k.as = "plain"

DenoReads(k, s, t) == t.as \in {"npm", "jsr"}
GoReads(k, s, t)   == t # Blank
MixReads(k, s, t)  == t.as \in {"plain", "compound"}
PnpmReads(k, s, t) == t # Blank

ReadsEntry(form, k, s, t) ==
    CASE form = "cargo"        -> CargoReads(k, s, t)
      [] form = "python"       -> PythonReads(k, s, t)
      [] form = "requirements" -> RequirementsReads(k, s, t)
      [] form = "pubspec"      -> PubspecReads(k, s, t)
      [] form = "csproj"       -> CsprojReads(k, s, t)
      [] form = "composer"     -> ComposerReads(k, s, t)
      [] form = "deno"         -> DenoReads(k, s, t)
      [] form = "go"           -> GoReads(k, s, t)
      [] form = "mix"          -> MixReads(k, s, t)
      [] form = "pnpm"         -> PnpmReads(k, s, t)

(* What makes an entry no version of a registry's, the first that applies. *)
Elsewhere(branch) ==
    IF "workspace" \in branch.has THEN "Inherited"
    ELSE IF branch.has \cap {"path", "url"} # {} THEN "Local"
    ELSE IF "git" \in branch.has THEN "Git" ELSE "Registry"

(* The branch that stands for the dependency: of a marker split, the first *)
(* that says anything.                                                     *)
Speaking(form, e) ==
    SelectInSeq(e.branches, LAMBDA b : \/ Elsewhere(b) # "Registry"
                                       \/ ReadsEntry(form, e.key[1], e.section, b.text))

OwnItems(doc, i) ==
    LET e    == doc.entries[i]
        b    == Speaking(doc.form, e)
        t    == e.branches[b].text
        kind == IF "indirect" \in e.branches[b].has THEN "Indirect"
                ELSE Sections[doc.form][e.section]
        name == IF t.as \in {"npm", "jsr"} THEN <<Written("plain", t.to)>> ELSE e.key
        split == Cardinality({c \in DOMAIN e.branches : e.branches[c].text # Blank}) > 1
    IN IF b = 0 THEN {}
       ELSE IF Elsewhere(e.branches[b]) # "Registry"
            THEN {ItemNowhere(i, e.key, Elsewhere(e.branches[b]), kind, "")}
       ELSE {[ItemAt(i, name, IF t.as = "jsr" THEN "Jsr" ELSE "Registry", kind, t,
                     <<"entry", i, b>>) EXCEPT !.wide = @ /\ ~split]}

(* The items of a document, a Package.swift's always none.                 *)
Parse(doc) ==
    UNION {CASE doc.form = "pom"     -> PomItems(doc, i)
             [] doc.form = "catalog" -> CatalogItems(doc, i)
             [] doc.form = "npm"     -> NpmItems(doc, i)
             [] OTHER                -> OwnItems(doc, i)
           : i \in {i \in DOMAIN doc.entries :
                     doc.entries[i].section \in DOMAIN Sections[doc.form]}}

(* TOML and XML that do not parse are refused; every other reader takes    *)
(* what it can make out.                                                   *)
Refuses(doc) ==
    /\ ~doc.legible
    /\ doc.form \in {"pom", "catalog", "cargo", "python", "csproj"}

-----------------------------------------------------------------------------
(* Whose manifest it is.                                                   *)
IfPlain(t) == IF t.as = "plain" THEN t ELSE Blank
NamedRole(name) == IF name = Blank THEN "Unnamed" ELSE "Package"
Identity(name, version, role) == [name |-> name, version |-> version, role |-> role]

ParseProject(doc) ==
    LET unnamed == Identity(Blank, Blank, "Unnamed")
        holder  == Identity(Blank, Blank, "Workspace")
        own     == OwnField(doc, 2)
        named(version) == Identity(IfPlain(doc.title), version, NamedRole(IfPlain(doc.title)))
    IN CASE doc.form \in {"pnpm", "catalog"}                   -> holder
         [] doc.form \in {"swift", "csproj", "requirements"}   -> unnamed
         [] ~doc.legible /\ doc.form \in {"pom", "cargo", "python"} -> unnamed
         [] doc.form = "cargo" /\ doc.legible ->       \* a version may be inherited
                IF doc.title = Blank /\ doc.workspace THEN holder ELSE named(doc.own[2])
         [] doc.form = "pom" /\ doc.legible -> named(IfPlain(own))
         [] doc.form = "go"    -> named(Blank)
         [] OTHER              -> named(IfPlain(doc.own[2]))

-----------------------------------------------------------------------------
ParserInit ==
    /\ paper \in Papers
    /\ desk = "closed" /\ found = {} /\ prior = {} /\ stroke = NoStroke

ReadPaper ==
    /\ desk = "closed"
    /\ IF Refuses(paper) THEN desk' = "refused" /\ UNCHANGED found
       ELSE desk' = "read" /\ found' = Parse(paper)
    /\ UNCHANGED <<paper, prior, stroke>>

(* A rewriter splices a version over a span it was given.                  *)
Splice(doc, place, v) ==
    CASE place[1] = "row"   -> [doc EXCEPT !.table[place[2]].text.of = v]
      [] place[1] = "entry" -> [doc EXCEPT !.entries[place[2]].branches[place[3]].text.of = v]

Rewrite(x) ==
    /\ desk = "read" /\ x.wide
    /\ paper' = Splice(paper, x.place, NewVersion)
    /\ desk' = "written" /\ prior' = found /\ stroke' = x
    /\ UNCHANGED found

ReadAgain ==
    /\ desk = "written"
    /\ found' = Parse(paper)
    /\ desk' = "reread"
    /\ UNCHANGED <<paper, prior, stroke>>

ParserNext == ReadPaper \/ (\E x \in found : Rewrite(x)) \/ ReadAgain

-----------------------------------------------------------------------------
(* What an entry's version rests on, by the build tool's own rules: its    *)
(* texts, and whatever those name, to any depth.                           *)
NamedBy(doc, t) ==
    IF t.as \notin {"ref", "composed"} THEN {}
    ELSE IF doc.form = "npm" THEN {<<"entry", ReferredTo(doc, t.of), 1>>} \ {<<"entry", 0, 1>>}
    ELSE IF doc.form = "pom" /\ BuiltIn(doc, t.of) # {}
         THEN LET b == CHOOSE b \in BuiltIn(doc, t.of) : TRUE
              IN {<<IF doc.own[b] # Blank THEN "own" ELSE "parent", b, 0>>}
    ELSE {<<"row", RowNamed(doc, t.of), 0>>} \ {<<"row", 0, 0>>}

Rests(doc, places) ==
    LET more(ps, k) == ps \cup UNION {NamedBy(doc, w[4]) :
                           w \in {w \in Writings(doc) : <<w[1], w[2], w[3]>> \in ps}}
    IN FoldLeft(more, places, [k \in 1 .. Len(doc.table) + 3 |-> k])

EntryPlaces(doc, i) ==
    {<<"entry", i, b>> : b \in DOMAIN doc.entries[i].branches}
    \cup {<<"key", i, h>> : h \in DOMAIN doc.entries[i].key}

Follows(doc, i) == doc.form = "npm" /\ doc.entries[i].branches[1].text.as = "ref"

(* The version a text comes to, when it comes to one.                      *)
ComesTo(doc, t) ==
    LET follow(ts, k) == ts \cup {w[4] : w \in {w \in Writings(doc) : <<w[1], w[2], w[3]>> \in
                             UNION {NamedBy(doc, u) : u \in {u \in ts : u.as = "ref"}}}}
    IN {u.of : u \in {u \in FoldLeft(follow, {t}, [k \in 1 .. Len(doc.table) + 3 |-> k]) :
                         u.as # "ref"}}

(* A chain of more references than the reader follows: whoever starts it   *)
(* is not counted as a reader of what it ends at.                          *)
Overlong(doc, i) ==
    /\ doc.form = "pom"
    /\ \E t \in {doc.entries[i].branches[1].text} \cup ToSet(doc.entries[i].key) :
          t.as = "ref" /\ Terminal(doc, t.of) = Unstated /\ ComesTo(doc, t) # {}

Readers(doc, place) ==
    {i \in DOMAIN doc.entries : /\ place \in Rests(doc, EntryPlaces(doc, i))
                                /\ ~Follows(doc, i) /\ ~Overlong(doc, i)}

(* A span is given only for a text no other entry, of any section, and     *)
(* nothing the project says of itself depends on (pom_xml.rs:425-440,      *)
(* gradle_catalog.rs:154-165).                                             *)
SpansAreOwned(doc, items) ==
    \A x \in items : x.wide =>
        /\ Readers(doc, x.place) = {x.entry}
        /\ x.place \notin Rests(doc, {"own", "parent"} \X (1 .. 2) \X {0})

(* An item's constraint is what its entry comes to; and an entry of a      *)
(* dependency section that names a package and comes to a version is an    *)
(* item.                                                                   *)
ItemsAreStated(doc, items) ==
    /\ \A x \in items : x.constraint \in {""} \cup
           UNION {ComesTo(doc, b.text) : b \in ToSet(doc.entries[x.entry].branches)}
    /\ \A i \in DOMAIN doc.entries :
           LET e == doc.entries[i]
               t == e.branches[1].text
           IN (/\ e.section \in DOMAIN Sections[doc.form]
               /\ e.key[Len(e.key)].as = "plain" /\ e.key[Len(e.key)].of # "python"
               /\ \/ t.as = "plain" /\ doc.form # "deno"
                  \/ t.as = "ref" /\ doc.form = "catalog" /\ RowNamed(doc, t.of) # 0)
              => \E x \in items : x.entry = i

(* Nothing a POM declares is passed over in silence, and what cannot be    *)
(* named is asked of nobody.                                               *)
PomIsAccounted(doc, items) ==
    doc.form = "pom" =>
        /\ Cardinality(items) + Notices(doc)["profile"] + Notices(doc)["managed"]
             + Notices(doc)["plugin"]
             + Cardinality({i \in DOMAIN doc.entries : doc.entries[i].key = <<Blank, Blank>>})
           = Len(doc.entries)
        /\ \A x \in items : x.name \in Unnameable(items) => x.source # "Registry"

(* A POM's identity and its own built-in properties say the same version.  *)
IdentityIsOwn(doc) ==
    doc.form = "pom" /\ doc.legible /\ ParseProject(doc).version # Blank
        => PropertyOf(doc, "project.version") = ParseProject(doc).version

(* Reading a manifest is faithful.  The first reading gives a span only    *)
(* where one entry alone reads the text, reports what is stated and        *)
(* announces the rest; and once one item's span has been rewritten, a      *)
(* second reading finds that item at the new version, every `$name` that   *)
(* refers to it moved along, and every other item as it was.               *)
ReadingIsFaithful ==
    /\ desk = "read" =>
         /\ SpansAreOwned(paper, found)
         /\ ItemsAreStated(paper, found)
         /\ PomIsAccounted(paper, found)
         /\ IdentityIsOwn(paper)
    /\ desk = "reread" =>
         found = {IF \/ x.entry = stroke.entry
                     \/ /\ Follows(paper, x.entry) /\ x.source \in {"Registry", "Jsr"}
                        /\ ReferredTo(paper, paper.entries[x.entry].branches[1].text.of)
                             = stroke.entry
                  THEN [x EXCEPT !.constraint = NewVersion] ELSE x : x \in prior}
=============================================================================
