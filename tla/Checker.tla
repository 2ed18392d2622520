------------------------------ MODULE Checker ------------------------------
(***************************************************************************)
(* The version lookup of crates/dependable-fetch: `Checker::check_inner`'s *)
(* task list, `route_item`, `fetch_all`, `with_retry`, the in-process      *)
(* versions cache and the shared on-disk cache.                            *)
(*                                                                         *)
(* A process is one `dependable` run holding one `Checker`.  It checks its *)
(* manifests one at a time; inside a manifest it looks every task up in    *)
(* its own memory and on the disk, asks the registries for the misses, at  *)
(* most Concurrency at once, and stores the answers when the last one has  *)
(* arrived.  Processes share nothing but the files of the disk cache.      *)
(*                                                                         *)
(* A version list is abstracted to where it came from and when it was      *)
(* stored: [from |-> registry asked, of |-> name asked, stored |-> time].  *)
(***************************************************************************)
EXTENDS Integers, Sequences, FiniteSets

CONSTANTS
  Proc,          \* the runs
  Name,          \* package names
  Root,          \* registry roots (URLs)
  Alias,         \* names a manifest gives to alternate Cargo registries
  Slot,          \* file names inside a cache-key directory
  SlotOf,        \* [Name -> Slot], the file-name hash of a package name
  DefaultRoot,   \* the ecosystem's public registry
  DefaultJsr,    \* the public JSR registry
  Config,        \* [Proc -> ConfigRecord], what the builder was given
  Manifests,     \* [Proc -> Seq(Seq(Item))], the items of each manifest
  MaxItems,      \* bound: items in one manifest
  Concurrency,   \* requests in flight at once
  MaxAttempts,   \* MAX_ATTEMPTS
  MemTTL,        \* time_to_live of the versions cache
  DiskTTL,       \* DISK_CACHE_TTL
  MaxClock,      \* bound: how far time runs
  MaxCrashes,    \* bound: kills over all processes
  None           \* no alias, no JSR fetcher, no cache entry, no file

Time == 0 .. MaxClock
ItemIndex == 1 .. MaxItems

(***************************************************************************)
(* Items, and what a checker is configured with.                           *)
(***************************************************************************)
Source == {"Registry", "Jsr", "Inherited", "Locked", "Local"}

Item == [name : Name, source : Source, alias : Alias \cup {None},
         stated : BOOLEAN]

ConfigRecord == [jsr  : Root \cup {None},
                 alt  : UNION {[S -> Root] : S \in SUBSET Alias},
                 root : [Name -> Root],
                 disk : BOOLEAN]

(* Item::is_checkable: an inherited or locked item only once it states a   *)
(* version.                                                                *)
IsCheckable(item) ==
  \/ item.source \in {"Registry", "Jsr"}
  \/ item.source \in {"Inherited", "Locked"} /\ item.stated

(* A cache key names a directory of the disk cache: an ecosystem (or JSR), *)
(* scoped by an alias or by a root that is not the public one.             *)
Scope == Root \cup Alias \cup {None}
CacheKey == [base : {"ecosystem", "jsr"}, scope : Scope]
Task == [key : CacheKey, name : Name]

ScopedCacheKey(base, root, default) ==
  [base |-> base, scope |-> IF root = default THEN None ELSE root]

(* route_item: the registry an item is asked of, and the key its answer is *)
(* kept under.  An alias no configuration resolves goes to the default.    *)
RouteItem(p, item) ==
  CASE item.source = "Jsr" /\ Config[p].jsr # None ->
         [from |-> Config[p].jsr,
          key  |-> ScopedCacheKey("jsr", Config[p].jsr, DefaultJsr)]
    [] ~(item.source = "Jsr" /\ Config[p].jsr # None)
         /\ item.alias \in DOMAIN Config[p].alt ->
         [from |-> Config[p].alt[item.alias],
          key  |-> [base |-> "ecosystem", scope |-> item.alias]]
    [] OTHER ->
         [from |-> Config[p].root[item.name],
          key  |-> ScopedCacheKey("ecosystem", Config[p].root[item.name],
                                  DefaultRoot)]

TaskOf(p, item) == [key |-> RouteItem(p, item).key, name |-> item.name]

ASSUME CheckerAssumption ==
  /\ None \notin Root \cup Alias
  /\ Root \cap Alias = {}
  /\ SlotOf \in [Name -> Slot]
  /\ DefaultRoot \in Root /\ DefaultJsr \in Root
  /\ Config \in [Proc -> ConfigRecord]
  /\ MaxItems \in Nat
  /\ Manifests \in [Proc -> Seq(Seq(Item))]
  /\ \A p \in Proc : \A m \in DOMAIN Manifests[p] : Len(Manifests[p][m]) <= MaxItems
  /\ Concurrency \in Nat \ {0}
  /\ MaxAttempts \in Nat \ {0}
  /\ MemTTL \in Nat \ {0} /\ DiskTTL \in Nat
  /\ MaxClock \in Nat /\ MaxCrashes \in Nat

(***************************************************************************)
(* State.                                                                  *)
(***************************************************************************)
VARIABLES
  clock,      \* seconds, shared by every process of the machine
  disk,       \* [Path -> DiskFile], the files of the cache directory
  memory,     \* [Proc -> [Task -> MemEntry]], each Checker's versions_cache
  at,         \* [Proc -> Nat], the manifest being checked, 0 before the first
  phase,      \* [Proc -> Phase], where the process stands in fetch_all
  status,     \* [Proc -> [ItemIndex -> Status]], where each task stands
  tries,      \* [Proc -> [ItemIndex -> Nat]], attempts of with_retry
  out,        \* [Proc -> [Task -> Outcome]], the FetchedMap
  declined,   \* [Proc -> SUBSET CacheKey], the unreachable map's keys
  completed,  \* [Proc -> Nat], the progress counter
  writing,    \* [Proc -> Write], the put between its open and its write
  crashes,    \* kills so far
  fetched     \* [Proc -> [Task -> Time \cup {None}]], history: last answer

vars == <<clock, disk, memory, at, phase, status, tries, out, declined,
          completed, writing, crashes, fetched>>

Answer == [from : Root, of : Name, stored : Time]

Path == [key : CacheKey, slot : Slot]
PathOf(task) == [key |-> task.key, slot |-> SlotOf[task.name]]

(* A file is absent, holds an entry, or does not parse.                    *)
Torn == [content |-> "torn"]
Entry == [content : {"entry"}, name : Name, fetched_at : Time, answer : Answer]
DiskFile == Entry \cup {Torn, None}

Cached == [answer : Answer, inserted : Time]
MemEntry == Cached \cup {None}

(* A lookup that finds nothing finds no answer, and keeps no entry.        *)
ASSUME NothingAssumption == None \notin Answer /\ None \notin Cached

NotFetched == [kind |-> "none"]
Outcome == [kind : {"ok"}, answer : Answer, served : Time]
             \cup [kind : {"absent", "unanswered"}] \cup {NotFetched}

Phase == {"idle", "lookup", "fetch", "store", "reported", "crashed"}
Status == {"none", "pending", "hit", "queued", "calling", "sleeping",
           "ok", "absent", "unanswered", "stored"}
InFlight == {"calling", "sleeping"}
Arrived == {"ok", "absent", "unanswered"}

Write == [path : Path, entry : Entry] \cup {None}

TypeOK ==
  /\ clock \in Time
  /\ disk \in [Path -> DiskFile]
  /\ memory \in [Proc -> [Task -> MemEntry]]
  /\ at \in [Proc -> Nat]
  /\ \A p \in Proc : at[p] \in 0 .. Len(Manifests[p])
  /\ phase \in [Proc -> Phase]
  /\ status \in [Proc -> [ItemIndex -> Status]]
  /\ tries \in [Proc -> [ItemIndex -> 0 .. MaxAttempts]]
  /\ out \in [Proc -> [Task -> Outcome]]
  /\ declined \in [Proc -> SUBSET CacheKey]
  /\ completed \in [Proc -> Nat]
  /\ writing \in [Proc -> Write]
  /\ crashes \in 0 .. MaxCrashes
  /\ fetched \in [Proc -> [Task -> Time \cup {None}]]

NoStatus == [i \in ItemIndex |-> "none"]
NoTries == [i \in ItemIndex |-> 0]
NoOutcome == [t \in Task |-> NotFetched]

Init ==
  /\ clock = 0
  /\ disk = [x \in Path |-> None]
  /\ memory = [p \in Proc |-> [t \in Task |-> None]]
  /\ at = [p \in Proc |-> 0]
  /\ phase = [p \in Proc |-> "idle"]
  /\ status = [p \in Proc |-> NoStatus]
  /\ tries = [p \in Proc |-> NoTries]
  /\ out = [p \in Proc |-> NoOutcome]
  /\ declined = [p \in Proc |-> {}]
  /\ completed = [p \in Proc |-> 0]
  /\ writing = [p \in Proc |-> None]
  /\ crashes = 0
  /\ fetched = [p \in Proc |-> [t \in Task |-> None]]

(***************************************************************************)
(* The manifest at hand and its tasks.                                     *)
(***************************************************************************)
Items(p) == IF at[p] = 0 THEN <<>> ELSE Manifests[p][at[p]]

TaskAt(p, i) == TaskOf(p, Items(p)[i])

(* Mutants: the task list of a check that compares names alone, or nothing.*)
TaskIndicesByName(p, items) ==
  {i \in DOMAIN items :
     /\ IsCheckable(items[i])
     /\ \A j \in 1 .. i - 1 :
          IsCheckable(items[j]) => items[j].name # items[i].name}

TaskIndicesOfAll(p, items) == {i \in DOMAIN items : IsCheckable(items[i])}

(* The items of a manifest that become tasks: checkable, and the first one *)
(* to be routed to its (cache key, name).                                  *)
TaskIndices(p, items) ==
  {i \in DOMAIN items :
     /\ IsCheckable(items[i])
     /\ \A j \in 1 .. i - 1 :
          IsCheckable(items[j]) => TaskOf(p, items[j]) # TaskOf(p, items[i])}

With(p, S) == {i \in ItemIndex : status[p][i] \in S}

(***************************************************************************)
(* Caches.                                                                 *)
(***************************************************************************)
(* moka: an entry expires time_to_live after it was inserted.              *)
MemoryGet(p, t) ==
  IF memory[p][t] # None /\ clock < memory[p][t].inserted + MemTTL
    THEN memory[p][t].answer
    ELSE None

(* Mutants: the file's name, or its age, is not looked at.                 *)
DiskGetAnyName(p, t) ==
  LET file == disk[PathOf(t)] IN
  IF Config[p].disk /\ file # None /\ file # Torn
       /\ clock - file.fetched_at <= DiskTTL
    THEN file.answer
    ELSE None

DiskGetAnyAge(p, t) ==
  LET file == disk[PathOf(t)] IN
  IF Config[p].disk /\ file # None /\ file # Torn /\ file.name = t.name
    THEN file.answer
    ELSE None

(* DiskCache::get: a missing, unparsable, foreign or expired file is a     *)
(* miss.                                                                   *)
DiskGet(p, t) ==
  LET file == disk[PathOf(t)] IN
  IF /\ Config[p].disk
     /\ file # None /\ file # Torn
     /\ file.name = t.name
     /\ clock - file.fetched_at <= DiskTTL
    THEN file.answer
    ELSE None

Served(answer) == [kind |-> "ok", answer |-> answer, served |-> clock]

Insert(p, t, answer) ==
  memory' = [memory EXCEPT ![p][t] = [answer |-> answer, inserted |-> clock]]

(***************************************************************************)
(* Actions: check_inner and fetch_all, up to the cache lookups.            *)
(***************************************************************************)
StartManifest(p) ==
  /\ phase[p] \in {"idle", "reported"}
  /\ at[p] < Len(Manifests[p])
  /\ at' = [at EXCEPT ![p] = @ + 1]
  /\ phase' = [phase EXCEPT ![p] = "lookup"]
  /\ LET tasks == TaskIndices(p, Manifests[p][at[p] + 1]) IN
     status' = [status EXCEPT ![p] =
                  [i \in ItemIndex |-> IF i \in tasks THEN "pending" ELSE "none"]]
  /\ tries' = [tries EXCEPT ![p] = NoTries]
  /\ out' = [out EXCEPT ![p] = NoOutcome]
  /\ declined' = [declined EXCEPT ![p] = {}]
  /\ completed' = [completed EXCEPT ![p] = 0]
  /\ UNCHANGED <<clock, disk, memory, writing, crashes, fetched>>

(* Tasks are looked up one after the other, in the manifest's order.       *)
NextToLookUp(p, i) ==
  /\ phase[p] = "lookup"
  /\ status[p][i] = "pending"
  /\ \A j \in 1 .. i - 1 : status[p][j] # "pending"

MemoryHit(p, i) ==
  LET t == TaskAt(p, i)
      answer == MemoryGet(p, t)
  IN /\ NextToLookUp(p, i)
     /\ answer # None
     /\ out' = [out EXCEPT ![p][t] = Served(answer)]
     /\ status' = [status EXCEPT ![p][i] = "hit"]
     /\ UNCHANGED <<clock, disk, memory, at, phase, tries, declined, completed,
                    writing, crashes, fetched>>

DiskHit(p, i) ==
  LET t == TaskAt(p, i)
      answer == DiskGet(p, t)
  IN /\ NextToLookUp(p, i)
     /\ MemoryGet(p, t) = None
     /\ answer # None
     /\ Insert(p, t, answer)
     /\ out' = [out EXCEPT ![p][t] = Served(answer)]
     /\ status' = [status EXCEPT ![p][i] = "hit"]
     /\ UNCHANGED <<clock, disk, at, phase, tries, declined, completed,
                    writing, crashes, fetched>>

CacheMiss(p, i) ==
  /\ NextToLookUp(p, i)
  /\ MemoryGet(p, TaskAt(p, i)) = None
  /\ DiskGet(p, TaskAt(p, i)) = None
  /\ status' = [status EXCEPT ![p][i] = "queued"]
  /\ UNCHANGED <<clock, disk, memory, at, phase, tries, out, declined,
                 completed, writing, crashes, fetched>>

(* Mutant: the counter forgets the hits.                                   *)
BeginFetchingFromZero(p) ==
  /\ phase[p] = "lookup"
  /\ With(p, {"pending"}) = {}
  /\ phase' = [phase EXCEPT ![p] = "fetch"]
  /\ UNCHANGED <<clock, disk, memory, at, status, tries, out, declined,
                 completed, writing, crashes, fetched>>

(* The counter of Advanced events starts at the number of hits.            *)
BeginFetching(p) ==
  /\ phase[p] = "lookup"
  /\ With(p, {"pending"}) = {}
  /\ phase' = [phase EXCEPT ![p] = "fetch"]
  /\ completed' = [completed EXCEPT ![p] = Cardinality(With(p, {"hit"}))]
  /\ UNCHANGED <<clock, disk, memory, at, status, tries, out, declined,
                 writing, crashes, fetched>>

(***************************************************************************)
(* Actions: the request pool (buffer_unordered) and with_retry.            *)
(***************************************************************************)
StartCall(p, i) ==
  /\ phase[p] = "fetch"
  /\ status[p][i] = "queued"
  /\ \A j \in 1 .. i - 1 : status[p][j] # "queued"
  /\ Cardinality(With(p, InFlight)) < Concurrency
  /\ status' = [status EXCEPT ![p][i] = "calling"]
  /\ tries' = [tries EXCEPT ![p][i] = 1]
  /\ UNCHANGED <<clock, disk, memory, at, phase, out, declined, completed,
                 writing, crashes, fetched>>

(* Mutant: the last attempt sleeps for another.                            *)
BackOffOnceMore(p, i) ==
  /\ status[p][i] = "calling"
  /\ tries[p][i] <= MaxAttempts
  /\ status' = [status EXCEPT ![p][i] = "sleeping"]
  /\ UNCHANGED <<clock, disk, memory, at, phase, tries, out, declined,
                 completed, writing, crashes, fetched>>

(* A transient failure with an attempt left sleeps, holding its slot.      *)
BackOff(p, i) ==
  /\ status[p][i] = "calling"
  /\ tries[p][i] < MaxAttempts
  /\ status' = [status EXCEPT ![p][i] = "sleeping"]
  /\ UNCHANGED <<clock, disk, memory, at, phase, tries, out, declined,
                 completed, writing, crashes, fetched>>

(* Mutant: the attempt is not counted.                                     *)
RetryUncounted(p, i) ==
  /\ status[p][i] = "sleeping"
  /\ status' = [status EXCEPT ![p][i] = "calling"]
  /\ UNCHANGED <<clock, disk, memory, at, phase, tries, out, declined,
                 completed, writing, crashes, fetched>>

Retry(p, i) ==
  /\ status[p][i] = "sleeping"
  /\ status' = [status EXCEPT ![p][i] = "calling"]
  /\ tries' = [tries EXCEPT ![p][i] = @ + 1]
  /\ UNCHANGED <<clock, disk, memory, at, phase, out, declined, completed,
                 writing, crashes, fetched>>

(* Any other outcome settles the task: a list, a permanent absence         *)
(* (NotFound, AllYanked), or a refusal to answer: a transient failure on   *)
(* the last attempt, or a failure no retry would mend (Decode, a 403, an   *)
(* empty list).  The counter moves and Advanced is emitted in the same     *)
(* poll.                                                                   *)
Settle(p, i, result) ==
  /\ status[p][i] = "calling"
  /\ status' = [status EXCEPT ![p][i] = result]
  /\ completed' = [completed EXCEPT ![p] = @ + 1]
  /\ UNCHANGED <<clock, disk, memory, at, phase, tries, out, declined,
                 writing, crashes, fetched>>

BeginStoring(p) ==
  /\ phase[p] = "fetch"
  /\ With(p, {"queued"} \cup InFlight) = {}
  /\ phase' = [phase EXCEPT ![p] = "store"]
  /\ UNCHANGED <<clock, disk, memory, at, status, tries, out, declined,
                 completed, writing, crashes, fetched>>

(***************************************************************************)
(* Actions: the outcomes, in the order they arrived (any order).           *)
(***************************************************************************)
(* The registry answered: both caches take the list.  The put opens and    *)
(* truncates the file, and its bytes follow.                               *)
StoreAnswer(p, i) ==
  LET t == TaskAt(p, i)
      answer == [from |-> RouteItem(p, Items(p)[i]).from, of |-> t.name,
                 stored |-> clock]
  IN /\ phase[p] = "store"
     /\ writing[p] = None
     /\ status[p][i] = "ok"
     /\ Insert(p, t, answer)
     /\ fetched' = [fetched EXCEPT ![p][t] = clock]
     /\ out' = [out EXCEPT ![p][t] = Served(answer)]
     /\ status' = [status EXCEPT ![p][i] = "stored"]
     /\ \/ /\ Config[p].disk
           /\ disk' = [disk EXCEPT ![PathOf(t)] = Torn]
           /\ writing' = [writing EXCEPT ![p] =
                [path  |-> PathOf(t),
                 entry |-> [content |-> "entry", name |-> t.name,
                            fetched_at |-> clock, answer |-> answer]]]
        \/ UNCHANGED <<disk, writing>>   \* no disk cache, or it cannot open
     /\ UNCHANGED <<clock, at, phase, tries, declined, completed, crashes>>

(* The bytes land, or the write fails or meets another process's longer    *)
(* file and leaves something that does not parse.                          *)
EndPut(p) ==
  /\ writing[p] # None
  /\ \E file \in {writing[p].entry, Torn} :
       disk' = [disk EXCEPT ![writing[p].path] = file]
  /\ writing' = [writing EXCEPT ![p] = None]
  /\ UNCHANGED <<clock, memory, at, phase, status, tries, out, declined,
                 completed, crashes, fetched>>

(* Mutants: the last refusal replaces the others; a 404 counts as one.     *)
StoreFailureReplacing(p, i) ==
  LET t == TaskAt(p, i) IN
  /\ phase[p] = "store" /\ writing[p] = None
  /\ status[p][i] \in {"absent", "unanswered"}
  /\ out' = [out EXCEPT ![p][t] = [kind |-> status[p][i]]]
  /\ declined' = [declined EXCEPT ![p] =
                    IF status[p][i] = "unanswered" THEN {t.key} ELSE @]
  /\ status' = [status EXCEPT ![p][i] = "stored"]
  /\ UNCHANGED <<clock, disk, memory, at, phase, tries, completed, writing,
                 crashes, fetched>>

StoreFailureBlamingAbsence(p, i) ==
  LET t == TaskAt(p, i) IN
  /\ phase[p] = "store" /\ writing[p] = None
  /\ status[p][i] \in {"absent", "unanswered"}
  /\ out' = [out EXCEPT ![p][t] = [kind |-> status[p][i]]]
  /\ declined' = [declined EXCEPT ![p] = @ \cup {t.key}]
  /\ status' = [status EXCEPT ![p][i] = "stored"]
  /\ UNCHANGED <<clock, disk, memory, at, phase, tries, completed, writing,
                 crashes, fetched>>

(* A failure is never cached; unless it is a permanent absence, it names   *)
(* its route as unreachable.                                               *)
StoreFailure(p, i) ==
  LET t == TaskAt(p, i) IN
  /\ phase[p] = "store"
  /\ writing[p] = None
  /\ status[p][i] \in {"absent", "unanswered"}
  /\ out' = [out EXCEPT ![p][t] = [kind |-> status[p][i]]]
  /\ declined' = [declined EXCEPT ![p] =
                    IF status[p][i] = "unanswered" THEN @ \cup {t.key} ELSE @]
  /\ status' = [status EXCEPT ![p][i] = "stored"]
  /\ UNCHANGED <<clock, disk, memory, at, phase, tries, completed, writing,
                 crashes, fetched>>

Report(p) ==
  /\ phase[p] = "store"
  /\ writing[p] = None
  /\ With(p, Arrived) = {}
  /\ phase' = [phase EXCEPT ![p] = "reported"]
  /\ UNCHANGED <<clock, disk, memory, at, status, tries, out, declined,
                 completed, writing, crashes, fetched>>

(***************************************************************************)
(* Actions: the environment.                                               *)
(***************************************************************************)
(* A kill loses everything but the files, a half-written one included.     *)
Crash(p) ==
  /\ phase[p] \notin {"idle", "crashed"}
  /\ crashes < MaxCrashes
  /\ crashes' = crashes + 1
  /\ phase' = [phase EXCEPT ![p] = "crashed"]
  /\ at' = [at EXCEPT ![p] = 0]
  /\ memory' = [memory EXCEPT ![p] = [t \in Task |-> None]]
  /\ status' = [status EXCEPT ![p] = NoStatus]
  /\ tries' = [tries EXCEPT ![p] = NoTries]
  /\ out' = [out EXCEPT ![p] = NoOutcome]
  /\ declined' = [declined EXCEPT ![p] = {}]
  /\ completed' = [completed EXCEPT ![p] = 0]
  /\ writing' = [writing EXCEPT ![p] = None]
  /\ fetched' = [fetched EXCEPT ![p] = [t \in Task |-> None]]
  /\ UNCHANGED <<clock, disk>>

Restart(p) ==
  /\ phase[p] = "crashed"
  /\ phase' = [phase EXCEPT ![p] = "idle"]
  /\ UNCHANGED <<clock, disk, memory, at, status, tries, out, declined,
                 completed, writing, crashes, fetched>>

Tick ==
  /\ clock < MaxClock
  /\ clock' = clock + 1
  /\ UNCHANGED <<disk, memory, at, phase, status, tries, out, declined,
                 completed, writing, crashes, fetched>>

(* Every run has reported its last manifest and exits.                     *)
Finished(p) == phase[p] = "reported" /\ at[p] = Len(Manifests[p])

AllFinished ==
  /\ \A p \in Proc : Finished(p) \/ Manifests[p] = <<>>
  /\ UNCHANGED vars

TaskStep(p, i) ==
  \/ MemoryHit(p, i) \/ DiskHit(p, i) \/ CacheMiss(p, i)
  \/ StartCall(p, i) \/ BackOff(p, i) \/ Retry(p, i)
  \/ \E result \in Arrived : Settle(p, i, result)
  \/ StoreAnswer(p, i) \/ StoreFailure(p, i)

Step(p) ==
  \/ StartManifest(p) \/ BeginFetching(p) \/ BeginStoring(p)
  \/ EndPut(p) \/ Report(p)
  \/ \E i \in DOMAIN Items(p) : TaskStep(p, i)

Next ==
  \/ \E p \in Proc : Step(p) \/ Crash(p) \/ Restart(p)
  \/ Tick
  \/ AllFinished

Spec == Init /\ [][Next]_vars

(* A runtime polls a ready future, a request answers or times out, a sleep *)
(* ends: a process that can move does.                                     *)
FairSpec == Spec /\ \A p \in Proc : WF_vars(Step(p)) /\ WF_vars(Restart(p))
(***************************************************************************)
(* Properties.                                                             *)
(***************************************************************************)
Checkable(p) == {i \in DOMAIN Items(p) : IsCheckable(Items(p)[i])}

(* Whatever a dependency is judged by was said by the registry it is       *)
(* routed to, about the package it names: not by another registry that     *)
(* knows the same name, and not about a package whose name shares the      *)
(* cache file (route_item's keys, DiskCache's name guard).                 *)
AnswersOwnQuestion ==
  \A p \in Proc : \A i \in Checkable(p) :
    LET o == out[p][TaskAt(p, i)] IN
    o.kind = "ok" => /\ o.answer.from = RouteItem(p, Items(p)[i]).from
                     /\ o.answer.of = Items(p)[i].name

(* The two caches in a row, disk under memory, never stretch the age of a  *)
(* served list past the sum of their lifetimes, across any number of       *)
(* processes, kills and rewrites.                                          *)
BoundedStaleness ==
  \A p \in Proc : \A t \in Task :
    out[p][t].kind = "ok" =>
      out[p][t].served - out[p][t].answer.stored < DiskTTL + MemTTL

(* No row of a report reads "not fetched": every checkable item finds an   *)
(* outcome under the key it is routed to when it is evaluated, although    *)
(* only the first item of each (key, name) was looked up (evaluate_item).  *)
(* And the progress a frontend draws never passes its total, and is at it  *)
(* when Finished is emitted, whatever mix of hits, answers and failures.   *)
(* The report names a route as unreachable exactly when some dependency    *)
(* asked of it got no answer.  A gate certifies a run by this set alone.   *)
EveryItemAnswered ==
  \A p \in Proc :
    LET total == Cardinality(With(p, Status \ {"none"})) IN
    /\ phase[p] = "reported" =>
         \A i \in Checkable(p) : out[p][TaskAt(p, i)] # NotFetched
    /\ completed[p] <= total
    /\ phase[p] \in {"store", "reported"} => completed[p] = total
    /\ phase[p] = "reported" =>
         declined[p] = {TaskAt(p, i).key : i \in
           {j \in Checkable(p) : out[p][TaskAt(p, j)].kind = "unanswered"}}

(* "One request per distinct package rather than one per declaration"      *)
(* (fetch_all): no two tasks of a manifest ask the same question, and a    *)
(* process never asks again what it learned less than MemTTL ago, from     *)
(* whichever manifest.                                                     *)
OneRequestPerPackage ==
  \A p \in Proc :
    LET asking == With(p, {"queued"} \cup InFlight) IN
    \A i \in asking :
      /\ \A j \in asking : TaskAt(p, i) = TaskAt(p, j) => i = j
      /\ fetched[p][TaskAt(p, i)] # None
           => fetched[p][TaskAt(p, i)] + MemTTL <= clock

(* Every run gets through all its manifests, whatever the registries       *)
(* answer and whatever half-written files earlier kills left behind.       *)
EveryRunFinishes == \A p \in Proc : <>[](Manifests[p] = <<>> \/ Finished(p))
(***************************************************************************)
(* Refinement: what VersionService promises.                               *)
(***************************************************************************)
(* The registry behind a cache key, for one process.                       *)
HomeOf(p, t) ==
  IF t.key.scope \in Alias THEN Config[p].alt[t.key.scope]
  ELSE IF t.key.scope # None THEN t.key.scope
  ELSE IF t.key.base = "jsr" THEN DefaultJsr ELSE DefaultRoot

OpenQuestions(p) ==
  {TaskAt(p, i) : i \in With(p, Status \ {"none", "hit", "stored"})}

ReplyOf(o) ==
  IF o.kind = "ok"
    THEN [kind |-> "ok", from |-> o.answer.from, of |-> o.answer.of,
          age |-> o.served - o.answer.stored]
    ELSE o

Service == INSTANCE VersionService WITH
  Client <- Proc, Question <- Task, Key <- CacheKey, Home <- HomeOf,
  MaxAge <- DiskTTL + MemTTL,
  wanted <- [p \in Proc |-> OpenQuestions(p)],
  given <- [p \in Proc |-> [t \in Task |-> ReplyOf(out[p][t])]],
  flagged <- declined

(* The caches, the pool, the retries and the kills show a manifest nothing *)
(* that a service answering each question once, from its own registry,     *)
(* would not.                                                              *)
ImplementsService == Service!Spec
=============================================================================
