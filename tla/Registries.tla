---------------------------- MODULE Registries ----------------------------
(***************************************************************************)
(* The clients of the ten package registries (dependable-fetch/src/        *)
(* registries): what a registry serves about one package, over one request *)
(* or several, becomes a list of versions, newest first, or an error.  Of  *)
(* a request only the outcome is kept (a status, and a body that can be    *)
(* read or not), of a version its place in the registry's order.           *)
(***************************************************************************)
EXTENDS Integers, FiniteSets, Sequences, FiniteSetsExt, SequencesExt, Lists

CONSTANTS
  Served,    \* what a registry may serve about one package
  Unsent,    \* a field the registry left out
  Unset      \* no answer yet

VARIABLES
  served,    \* what this registry serves, and what it is asked for
  stage,     \* "ask", "pages", "latest", "owners" or "answered"
  waiting,   \* the pages asked for and not yet joined
  heard,     \* the releases read so far
  answer     \* what the caller gets

lookupVars == <<served, stage, waiting, heard, answer>>

(* A release: [version, legible (its entry decodes), readable (its number  *)
(* parses), yanked (one flag for each of its files), dates, licenses].     *)
(* NoReply is a request that never got an answer.                          *)
(* Of the question itself: whether a Maven coordinate spells a path to ask *)
(* at (`addressed`), whether Packagist's list is under the name asked for  *)
(* (`named`), and the releases npm still dates but no longer lists (`past`)*)
NoReply == 0
Success == 200 .. 299
Withdrawn(release)   == release.yanked # {} /\ FALSE \notin release.yanked
Numbers(releases)    == {r.version : r \in releases}
NewestFirst(numbers) ==
  [i \in 1 .. Cardinality(numbers) |->
     CHOOSE n \in numbers : Cardinality({m \in numbers : m > n}) = i - 1]

(* All a registry has about a package, over a document or over pages.      *)
Everything(w) == w.releases \cup UNION {w.pages[i].releases : i \in DOMAIN w.pages}

(* What registries serve: numbers and dates that have an order, a number   *)
(* only once, a document only with a success, pages only from NuGet, dates *)
(* of releases no longer listed only in npm's `time`, and from a Go proxy  *)
(* lines of text, which always decode.                                     *)
RegistryNames == {"crates.io", "npm", "jsr", "pypi", "packagist", "hex", "pub.dev", "maven",
                  "nuget", "go"}
ServedOK(w) ==
  /\ w.registry \in RegistryNames /\ w.want \in {"versions", "metadata"}
  /\ IsFiniteSet(Everything(w))
  /\ \A r \in Everything(w) \cup w.past \cup {w.latest.release} :
       r.version \in Int /\ r.dates \subseteq Int /\ IsFiniteSet(r.dates)
  /\ \A r, s \in w.releases \cup w.past : r.version = s.version => r = s
  /\ w.status \notin Success => w.releases = {} /\ w.past = {}
  /\ w.registry # "npm" => w.past = {}
  /\ w.registry # "nuget" => w.pages = <<>>
  /\ w.registry = "go" => \A r \in w.releases : r.legible
  /\ w.people \in Seq(ToSet(w.people))
ASSUME ServedAssumption == \A w \in Served : ServedOK(w)

(* FetchError, and the question a second request turns on.                 *)
Failed(kind, code) == [ok |-> FALSE, kind |-> kind, code |-> code]
IsPermanentAbsence(a) == ~a.ok /\ a.kind \in {"NotFound", "AllYanked"}

(* FetchedVersions: the registry's own tag, or else the first of the list. *)
Fetched(numbers) ==
  [ok |-> TRUE, versions |-> NewestFirst(numbers),
   tag |-> IF numbers = {} THEN Unsent ELSE Max(numbers)]
WithTag(fetched, tag) == IF tag = Unsent THEN fetched ELSE [fetched EXCEPT !.tag = tag]

Plainly(releases) == Fetched(Numbers(releases))

(* One request: what each client does before it looks at the document.     *)
Reply(status, absent, releases, Read(_)) ==
  CASE status = NoReply     -> Failed("Http", 0)
    [] status \in absent    -> Failed("NotFound", status)
    [] status \notin Success \cup absent \cup {NoReply} -> Failed("Status", status)
    [] OTHER -> IF \E r \in releases : ~r.legible THEN Failed("Decode", 0) ELSE Read(releases)

-----------------------------------------------------------------------------
(* What each client makes of a document it could read.                     *)
CratesAbsent == {404, 410, 451}
GoAbsent     == {404, 410}
Absent       == {404}

(* Mutant: the lines that do not decode are skipped.                       *)
ParseIndexLenient(releases) ==
  LET entries == {r \in releases : r.legible /\ ~Withdrawn(r)}
  IN  IF releases # {} /\ entries = {} THEN Failed("AllYanked", 0) ELSE Fetched(Numbers(entries))

(* The sparse index of a crate: one line for each release.                 *)
ParseIndex(releases) ==
  LET entries == {r \in releases : ~Withdrawn(r)}
  IN  IF \E r \in releases : ~r.legible THEN Failed("Decode", 0)
      ELSE IF releases # {} /\ entries = {} THEN Failed("AllYanked", 0)
      ELSE Fetched(Numbers(entries))
CratesIo(w) ==
  LET gate == Reply(w.status, CratesAbsent, {}, Plainly)
  IN  IF gate.ok THEN ParseIndex(w.releases) ELSE gate

Npm(w) == Reply(w.status, Absent, w.releases, LAMBDA rs : WithTag(Fetched(Numbers(rs)), w.tag))
Jsr(w) == Reply(w.status, Absent, w.releases,
                LAMBDA rs : WithTag(Fetched(Numbers({r \in rs : ~Withdrawn(r)})), w.tag))
PyPi(w) == Reply(w.status, Absent, w.releases, LAMBDA rs : Fetched(Numbers({r \in rs : ~Withdrawn(r)})))

Parsable(releases) == {r \in releases : r.readable}
Hex(w)       == Reply(w.status, Absent, w.releases, LAMBDA rs : Fetched(Numbers(Parsable(rs))))
PubDev(w)    == Reply(w.status, Absent, w.releases,
                      LAMBDA rs : WithTag(Fetched(Numbers(Parsable(rs))), w.tag))

(* Packagist keys its lists by package: one under another name is not read.*)
Packagist(w) ==
  Reply(w.status, Absent, w.releases,
        LAMBDA rs : Fetched(IF w.named THEN Numbers(Parsable(rs)) ELSE {}))

(* Mutant: it is.                                                          *)
ParseMetadataAsAbsent(releases, tag) ==
  IF releases = {} THEN Failed("NotFound", 0) ELSE WithTag(Fetched(Numbers(releases)), tag)

(* maven-metadata.xml: a document that names no version is not a 404.      *)
ParseMetadata(releases, tag) ==
  IF releases = {} THEN Failed("EmptyVersionList", 0)
  ELSE WithTag(Fetched(Numbers(releases)), tag)

(* A coordinate that spells no path (metadata_path) is asked nothing.      *)
MavenCentral(w) ==
  IF ~w.addressed THEN Failed("NotFound", 0)
  ELSE Reply(w.status, Absent, w.releases, LAMBDA rs : ParseMetadata(rs, w.tag))

Client(w) ==
  CASE w.registry = "crates.io" -> CratesIo(w)
    [] w.registry = "npm"       -> Npm(w)
    [] w.registry = "jsr"       -> Jsr(w)
    [] w.registry = "pypi"      -> PyPi(w)
    [] w.registry = "packagist" -> Packagist(w)
    [] w.registry = "hex"       -> Hex(w)
    [] w.registry = "pub.dev"   -> PubDev(w)
    [] w.registry = "maven"     -> MavenCentral(w)

-----------------------------------------------------------------------------
LookupInit ==
  /\ served \in Served
  /\ stage = "ask" /\ waiting = {} /\ heard = {} /\ answer = Unset

Answered(a) == stage' = "answered" /\ answer' = a /\ UNCHANGED <<served, waiting, heard>>

(* A registry that says all it knows in one document.                      *)
Ask ==
  /\ stage = "ask" /\ served.want = "versions" /\ served.registry \notin {"nuget", "go"}
  /\ Answered(Client(served))

(* NuGet: an index whose pages come with it or are asked for, all at once. *)
NuGetIndex ==
  /\ stage = "ask" /\ served.want = "versions" /\ served.registry = "nuget"
  /\ LET gate   == Reply(served.status, Absent, served.releases, Plainly)
         remote == DOMAIN served.pages
     IN  IF ~gate.ok THEN Answered(gate)
         ELSE /\ heard' = served.releases /\ waiting' = remote
              /\ stage' = "pages" /\ UNCHANGED <<served, answer>>

(* Mutant: a page that fails is left out of the list.                      *)
JoinPageSkipping(page, reply) ==
  /\ heard' = heard \cup (IF reply.ok THEN page.releases ELSE {})
  /\ UNCHANGED <<served, stage, answer>>

(* fetch_page, and the arm of the join that takes it: the pages come in any*)
(* order, and one that fails fails the lookup.                             *)
JoinPage(page, reply) ==
  IF reply.ok THEN heard' = heard \cup page.releases /\ UNCHANGED <<served, stage, answer>>
  ELSE stage' = "answered" /\ answer' = reply /\ UNCHANGED <<served, heard>>
PageIn(i) ==
  /\ stage = "pages" /\ i \in waiting
  /\ waiting' = waiting \ {i}
  /\ LET page == served.pages[i]
     IN  JoinPage(page, Reply(page.status, {}, page.releases, Plainly))

AllJoined == stage = "pages" /\ waiting = {} /\ Answered(Fetched(Numbers(heard)))

(* Mutant: a proxy that has no list has no module.                         *)
GoListFinal ==
  /\ stage = "ask" /\ served.want = "versions" /\ served.registry = "go"
  /\ Answered(Reply(served.status, GoAbsent, {},
                    LAMBDA rs : Fetched(Numbers(Parsable(served.releases)))))

(* Go: the list, and where it is absent or has nothing readable, @latest.  *)
GoList ==
  /\ stage = "ask" /\ served.want = "versions" /\ served.registry = "go"
  /\ LET listed == Parsable(served.releases)
         gate   == Reply(served.status, {}, {}, Plainly)
     IN  CASE gate.ok /\ listed # {} -> Answered(Fetched(Numbers(listed)))
           [] ~gate.ok /\ served.status \notin GoAbsent -> Answered(gate)
           [] OTHER -> stage' = "latest" /\ UNCHANGED <<served, waiting, heard, answer>>
GoLatest ==
  /\ stage = "latest"
  /\ Answered(Reply(served.latest.status, GoAbsent, {served.latest.release},
                    Plainly))


-----------------------------------------------------------------------------
(* PackageMetadata: what a registry says beside the versions.  `first` is  *)
(* the release a registry lists first, `tag` the one it calls the latest.  *)
DatedIn(w) == w.releases \cup w.past
ReleaseOf(w, number) == CHOOSE r \in DatedIn(w) : r.version = number
Date(r) == IF r.dates = {} THEN Unsent ELSE Min(r.dates)
DateOf(w, number) ==
  IF number \in Numbers(DatedIn(w)) THEN Date(ReleaseOf(w, number)) ELSE Unsent
Dated(w) == [n \in {r.version : r \in {r \in DatedIn(w) : r.dates # {}}} |-> DateOf(w, n)]
Metadata(published, latest, licenses, owners) ==
  [ok |-> TRUE, published |-> published, latest |-> latest, licenses |-> licenses,
   owners |-> owners]
NoMetadata == [ok |-> TRUE, kind |-> "none"]

(* Each element at the places in T once, where it comes first.             *)
OnceEach(s, T) == Picked(s, {i \in T : \A j \in T : j < i => s[j] # s[i]})

(* Owners: nobody without a name, an address or a login.                   *)
IsAnonymous(owner) == owner.name = Unsent /\ owner.login = Unsent /\ owner.email = Unsent
Known(people) == Picked(people, {i \in DOMAIN people : ~IsAnonymous(people[i])})

(* crates.io: the release listed first stands for the crate.               *)
CratesIoMetadata(w) ==
  Metadata(Dated(w), DateOf(w, w.first), ReleaseOf(w, w.first).licenses, <<>>)

(* npm's `time`: a date for each number, of a release that is listed or of *)
(* one that was (`versions` is not read beside it), and two of no release. *)
Created  == 0
Modified == -1
TimeOf(w) == [k \in DOMAIN Dated(w) \cup {Created, Modified} |->
                IF k \in {Created, Modified} THEN w.touched ELSE Dated(w)[k]]

(* Mutant: the two are offered as releases.                                *)
NpmMetadataAll(w) ==
  Metadata(TimeOf(w), DateOf(w, w.tag), w.licenses, Known(w.people))
NpmMetadata(w) ==
  LET time == TimeOf(w)
      latest == IF w.tag # Unsent /\ w.tag \in DOMAIN time THEN time[w.tag] ELSE time[Modified]
  IN  Metadata([k \in DOMAIN time \ {Created, Modified} |-> time[k]], latest,
               w.licenses, Known(w.people))

(* PyPI: the first file of each release, and where the document lists none *)
(* the first file of the release it describes.                             *)
PyPiPublished(w) == IF w.whole THEN Dated(w) ELSE [n \in {w.first} \cap DOMAIN Dated(w) |-> DateOf(w, n)]

(* The expression, else the classifiers that have an SPDX name, each once, *)
(* else a free text that is short and on one line.                         *)
SpdxNamed == {"MIT", "Apache-2.0"}
PyPiLicense(w) ==
  LET mapped == {i \in DOMAIN w.classifiers : w.classifiers[i] \in SpdxNamed}
  IN  CASE w.expression # Unsent -> <<w.expression>>
        [] w.expression = Unsent /\ mapped # {} -> OnceEach(w.classifiers, mapped)
        [] OTHER -> IF w.text = "short" THEN <<w.text>> ELSE <<>>

PyPiOwners(w) == OnceEach(w.people, {i \in DOMAIN w.people : ~IsAnonymous(w.people[i])})
PyPiMetadata(w) == Metadata(PyPiPublished(w), DateOf(w, w.first), PyPiLicense(w), PyPiOwners(w))

(* Packagist: the first list of the document, whatever name it is under.   *)
PackagistMetadata(w) ==
  IF w.releases = {} THEN NoMetadata
  ELSE Metadata(Dated(w), DateOf(w, w.first), ReleaseOf(w, w.first).licenses, Known(w.people))

(* Hex: the date of the first release listed that has one.                 *)
HexMetadata(w) ==
  LET rest == DOMAIN Dated(w)
      latest == IF w.first \in rest THEN DateOf(w, w.first)
                ELSE IF rest = {} THEN Unsent ELSE DateOf(w, Max(rest))
  IN  Metadata(Dated(w), latest, w.licenses, Known(w.people))

HasMetadataApi(w) == w.root = "default"
PublishesMetadata == {"crates.io", "npm", "pypi", "packagist", "hex"}

MetadataOf(w) ==
  CASE w.registry = "crates.io" -> CratesIoMetadata(w)
    [] w.registry = "npm"       -> NpmMetadata(w)
    [] w.registry = "pypi"      -> PyPiMetadata(w)
    [] w.registry = "packagist" -> PackagistMetadata(w)
    [] w.registry = "hex"       -> HexMetadata(w)
Describe(w) ==
  Reply(w.status, IF w.registry = "crates.io" THEN CratesAbsent ELSE Absent, w.releases,
        LAMBDA rs : MetadataOf(w))

(* One document, or none: a registry without an endpoint, and an index     *)
(* that is not crates.io's, are asked nothing.                             *)
AskMetadata ==
  /\ stage = "ask" /\ served.want = "metadata"
  /\ CASE \/ served.registry \notin PublishesMetadata
          \/ served.registry = "crates.io" /\ ~HasMetadataApi(served) -> Answered(NoMetadata)
       [] served.registry = "crates.io" /\ HasMetadataApi(served) /\ Describe(served).ok ->
            stage' = "owners" /\ answer' = Describe(served) /\ UNCHANGED <<served, waiting, heard>>
       [] OTHER -> Answered(Describe(served))

(* Mutant: the second answer decides about the first.                      *)
OwnersOrNothing ==
  /\ stage = "owners"
  /\ Answered(IF served.owners \in Success THEN [answer EXCEPT !.owners = Known(served.people)]
              ELSE Failed("Status", served.owners))

(* The owners of a crate are a second request, whose failure costs nothing *)
(* but the owners.                                                         *)
AskOwners ==
  /\ stage = "owners"
  /\ Answered([answer EXCEPT !.owners = IF served.owners \in Success THEN Known(served.people) ELSE <<>>])

LookupStep ==
  \/ Ask \/ NuGetIndex \/ AllJoined \/ GoList \/ GoLatest \/ AskMetadata \/ AskOwners
  \/ \E i \in waiting : PageIn(i)
LookupSpec == LookupInit /\ [][LookupStep]_lookupVars

-----------------------------------------------------------------------------
(* What a dependency could resolve to, of all a registry has: what was     *)
(* withdrawn is not, nor a number nothing reads where only numbers are, nor*)
(* what Packagist lists under another name than the package's.             *)
Usable(w) ==
  {r \in Everything(w) : /\ w.registry \in {"crates.io", "jsr", "pypi"} => ~Withdrawn(r)
                         /\ w.registry = "packagist" => w.named
                         /\ w.registry \in {"packagist", "hex", "pub.dev", "go"} => r.readable}

(* A list that is given out is the whole list: not one without the page    *)
(* that failed or the lines that did not decode, whatever came first, since*)
(* the newest release may have been among them.                            *)
ListIsWhole ==
  stage = "answered" /\ served.want = "versions" /\ answer.ok =>
    LET only == served.registry = "go" /\ Usable(served) = {}
        all  == IF only THEN {served.latest.release} ELSE Usable(served)
    IN  /\ ToSet(answer.versions) = Numbers(all)
        /\ \A i, j \in DOMAIN answer.versions : i < j => answer.versions[i] > answer.versions[j]
        /\ \A r \in all : r.legible

(* A package that was asked for is absent only where the registry said so: *)
(* by its status, by the status of everything it was asked, or by          *)
(* withdrawing every release.  A document with nothing in it, and a page   *)
(* that is gone, do not.  One kind of package is called absent without a   *)
(* request: a Maven coordinate that spells no place to ask at.             *)
AbsenceWasSaid ==
  stage = "answered" /\ ~answer.ok /\ IsPermanentAbsence(answer) =>
    LET last == IF served.registry = "go" THEN served.latest.status ELSE served.status
    IN  \/ last \in CratesAbsent
        \/ served.releases # {} /\ \A r \in served.releases : r.legible /\ Withdrawn(r)
        \/ served.registry = "maven" /\ ~served.addressed

(* Metadata is what the document says: each date one it gives that very    *)
(* number, and no date of the document itself taken for a release's; the   *)
(* owners people it names, none of them nameless (mod.rs, Owner); and a    *)
(* failure to list the owners costs no more than the owners.  That the     *)
(* number is still listed is not promised, npm dates those that are gone   *)
(* too; nor, at Packagist, that the document is under the package's name.  *)
MetadataIsOwn ==
  stage = "answered" /\ served.want = "metadata" =>
    /\ served.registry = "crates.io" /\ HasMetadataApi(served) /\ served.status \in Success
         /\ (\A r \in served.releases : r.legible) => answer.ok
    /\ answer.ok /\ answer # NoMetadata =>
         /\ \A n \in DOMAIN answer.published :
              \E r \in DatedIn(served) : r.version = n /\ answer.published[n] \in r.dates
         /\ Len(answer.owners) <= Len(served.people)
         /\ \A i \in DOMAIN answer.owners :
              answer.owners[i] \in ToSet(served.people) /\ ~IsAnonymous(answer.owners[i])

(* A lookup says what the registry said, all of it and no more: registries *)
(* `fetch_versions` and `fetch_metadata`.                                  *)
LookupIsFaithful == ListIsWhole /\ AbsenceWasSaid /\ MetadataIsOwn
=============================================================================
