--------------------------- MODULE CheckerProofs ---------------------------
(***************************************************************************)
(* Theorems about Checker, for every configuration, set of processes, list *)
(* of manifests and value of the bounds.                                   *)
(***************************************************************************)
EXTENDS Checker, NatSets

(***************************************************************************)
(* Routing.                                                                *)
(***************************************************************************)
(* A process that uses a key has, for an alias key, the alias configured.  *)
Resolves(p, key) == key.scope \in Alias => key.scope \in DOMAIN Config[p].alt

LEMMA ConfigType ==
  ASSUME NEW p \in Proc
  PROVE  /\ Config[p].jsr \in Root \cup {None}
         /\ \A a \in DOMAIN Config[p].alt : a \in Alias /\ Config[p].alt[a] \in Root
         /\ Config[p].root \in [Name -> Root]
         /\ Config[p].disk \in BOOLEAN
<1>1. Config[p] \in ConfigRecord
  BY CheckerAssumption
<1>2. Config[p].alt \in UNION {[S -> Root] : S \in SUBSET Alias}
  BY <1>1 DEF ConfigRecord
<1>3. PICK S \in SUBSET Alias : Config[p].alt \in [S -> Root]
  BY <1>2
<1>4. QED
  BY <1>1, <1>3 DEF ConfigRecord

(* route_item always lands on a registry, and the registry it picks is the *)
(* one its cache key stands for.                                           *)
LEMMA RouteType ==
  ASSUME NEW p \in Proc, NEW item \in Item
  PROVE  /\ RouteItem(p, item).key \in CacheKey
         /\ RouteItem(p, item).from \in Root
         /\ RouteItem(p, item).from = HomeOf(p, TaskOf(p, item))
         /\ Resolves(p, RouteItem(p, item).key)
<1>1. /\ item.name \in Name /\ item.source \in Source
      /\ item.alias \in Alias \cup {None}
  BY DEF Item
<1>2. DefaultRoot \in Root /\ DefaultJsr \in Root /\ None \notin Root
      /\ None \notin Alias /\ \A r \in Root : r \notin Alias
  BY CheckerAssumption
<1>a. CASE item.source = "Jsr" /\ Config[p].jsr # None
  <2>1. RouteItem(p, item) =
          [from |-> Config[p].jsr,
           key  |-> ScopedCacheKey("jsr", Config[p].jsr, DefaultJsr)]
    BY <1>a DEF RouteItem
  <2>2. Config[p].jsr \in Root
    BY <1>a, ConfigType
  <2>3. QED
    BY <2>1, <2>2, <1>2 DEF ScopedCacheKey, CacheKey, Scope, HomeOf, TaskOf, Resolves
<1>b. CASE ~(item.source = "Jsr" /\ Config[p].jsr # None)
           /\ item.alias \in DOMAIN Config[p].alt
  <2>1. RouteItem(p, item) =
          [from |-> Config[p].alt[item.alias],
           key  |-> [base |-> "ecosystem", scope |-> item.alias]]
    BY <1>b DEF RouteItem
  <2>2. item.alias \in Alias /\ Config[p].alt[item.alias] \in Root
    BY <1>b, ConfigType
  <2>3. QED
    BY <2>1, <2>2, <1>b DEF CacheKey, Scope, HomeOf, TaskOf, Resolves
<1>c. CASE ~(item.source = "Jsr" /\ Config[p].jsr # None)
           /\ item.alias \notin DOMAIN Config[p].alt
  <2>1. RouteItem(p, item) =
         [from |-> Config[p].root[item.name],
          key  |-> ScopedCacheKey("ecosystem", Config[p].root[item.name],
                                  DefaultRoot)]
    BY <1>c DEF RouteItem
  <2>2. Config[p].root[item.name] \in Root
    BY <1>1, ConfigType
  <2>3. QED
    BY <2>1, <2>2, <1>2 DEF ScopedCacheKey, CacheKey, Scope, HomeOf, TaskOf, Resolves
<1>d. QED
  BY <1>a, <1>b, <1>c

LEMMA TaskOfType ==
  ASSUME NEW p \in Proc, NEW item \in Item
  PROVE  TaskOf(p, item) \in Task
BY RouteType DEF TaskOf, Task, Item

LEMMA ItemsType ==
  ASSUME TypeOK, NEW p \in Proc
  PROVE  /\ Items(p) \in Seq(Item)
         /\ DOMAIN Items(p) \subseteq ItemIndex
<1>1. at[p] \in 0 .. Len(Manifests[p])
  BY DEF TypeOK
<1>2. Manifests[p] \in Seq(Seq(Item))
  BY CheckerAssumption
<1>3. CASE at[p] = 0
  BY <1>3 DEF Items
<1>4. CASE at[p] # 0
  <2>1. at[p] \in DOMAIN Manifests[p]
    BY <1>1, <1>2, <1>4
  <2>2. Manifests[p][at[p]] \in Seq(Item) /\ Len(Manifests[p][at[p]]) <= MaxItems
    BY <2>1, <1>2, CheckerAssumption
  <2>3. QED
    BY <2>2, <1>4, CheckerAssumption DEF Items, ItemIndex
<1>5. QED
  BY <1>3, <1>4

LEMMA TaskAtType ==
  ASSUME TypeOK, NEW p \in Proc, NEW i \in DOMAIN Items(p)
  PROVE  /\ Items(p)[i] \in Item
         /\ TaskAt(p, i) \in Task
         /\ i \in ItemIndex
<1>1. Items(p)[i] \in Item
  BY ItemsType
<1>2. QED
  BY <1>1, ItemsType, TaskOfType DEF TaskAt

LEMMA PathType ==
  ASSUME NEW t \in Task
  PROVE  PathOf(t) \in Path
BY CheckerAssumption DEF PathOf, Path, Task

(***************************************************************************)
(* Types.                                                                  *)
(***************************************************************************)
LEMMA WithCardinality ==
  ASSUME NEW p \in Proc, NEW S
  PROVE  /\ IsFiniteSet(With(p, S))
         /\ Cardinality(With(p, S)) \in Nat
<1>1. IsFiniteSet(ItemIndex)
  BY CheckerAssumption, FS_Interval DEF ItemIndex
<1>2. With(p, S) \subseteq ItemIndex
  BY DEF With
<1>3. QED
  BY <1>1, <1>2, FS_Subset, FS_CardinalityType

LEMMA ServedType ==
  ASSUME TypeOK, NEW answer \in Answer
  PROVE  /\ Served(answer) \in Outcome
         /\ [answer |-> answer, inserted |-> clock] \in MemEntry
BY DEF TypeOK, Served, Outcome, MemEntry, Cached

LEMMA CacheTypes ==
  ASSUME TypeOK, NEW p \in Proc, NEW t \in Task
  PROVE  /\ MemoryGet(p, t) \in Answer \cup {None}
         /\ DiskGet(p, t) \in Answer \cup {None}
<1>1. memory[p][t] \in MemEntry /\ disk[PathOf(t)] \in DiskFile
  BY PathType DEF TypeOK
<1>2. MemoryGet(p, t) \in Answer \cup {None}
  BY <1>1 DEF MemoryGet, MemEntry, Cached
<1>3. DiskGet(p, t) \in Answer \cup {None}
  BY <1>1 DEF DiskGet, DiskFile, Entry
<1>4. QED
  BY <1>2, <1>3

LEMMA TypeInit == Init => TypeOK
<1> SUFFICES ASSUME Init PROVE TypeOK
  OBVIOUS
<1>1. \A p \in Proc : Len(Manifests[p]) \in Nat
  BY CheckerAssumption
<1>2. MaxAttempts \in Nat /\ MaxClock \in Nat /\ MaxCrashes \in Nat
  BY CheckerAssumption
<1>3. QED
  BY <1>1, <1>2 DEF Init, TypeOK, Time, DiskFile, MemEntry, Phase, NoStatus,
     Status, NoTries, NoOutcome, Outcome, Write

LEMMA TypeStartManifest ==
  ASSUME TypeOK, NEW p \in Proc, StartManifest(p)
  PROVE  TypeOK'
<1>1. at[p] + 1 \in 0 .. Len(Manifests[p])
  BY CheckerAssumption DEF TypeOK, StartManifest
<1>2. QED
  BY <1>1, CheckerAssumption DEF TypeOK, StartManifest, Phase, NoOutcome, NoTries,
     Outcome, Status

LEMMA TypeLookup ==
  ASSUME TypeOK, NEW p \in Proc, NEW i \in DOMAIN Items(p),
         MemoryHit(p, i) \/ DiskHit(p, i) \/ CacheMiss(p, i)
  PROVE  TypeOK'
<1>1. TaskAt(p, i) \in Task /\ i \in ItemIndex
  BY TaskAtType
<1>2. CASE MemoryHit(p, i)
  <2>1. Served(MemoryGet(p, TaskAt(p, i))) \in Outcome
    BY <1>1, <1>2, CacheTypes, ServedType DEF MemoryHit
  <2>2. QED
    BY <1>1, <1>2, <2>1 DEF TypeOK, MemoryHit, Status
<1>3. CASE DiskHit(p, i)
  <2>1. DiskGet(p, TaskAt(p, i)) \in Answer
    BY <1>1, <1>3, CacheTypes DEF DiskHit
  <2>2. QED
    BY <1>1, <1>3, <2>1, ServedType DEF TypeOK, DiskHit, Insert, Status
<1>4. CASE CacheMiss(p, i)
  BY <1>1, <1>4 DEF TypeOK, CacheMiss, Status
<1>5. QED
  BY <1>2, <1>3, <1>4

LEMMA TypePool ==
  ASSUME TypeOK, NEW p \in Proc, NEW i \in DOMAIN Items(p),
         \/ StartCall(p, i) \/ BackOff(p, i) \/ Retry(p, i)
         \/ \E result \in Arrived : Settle(p, i, result),
         status[p][i] = "sleeping" => tries[p][i] < MaxAttempts
  PROVE  TypeOK'
<1>1. i \in ItemIndex
  BY TaskAtType
<1>2. CASE StartCall(p, i)
  BY <1>1, <1>2, CheckerAssumption DEF TypeOK, StartCall, Status
<1>3. CASE BackOff(p, i)
  BY <1>1, <1>3 DEF TypeOK, BackOff, Status
<1>4. CASE Retry(p, i)
  BY <1>1, <1>4, CheckerAssumption DEF TypeOK, Retry, Status
<1>5. ASSUME NEW result \in Arrived, Settle(p, i, result)
      PROVE  TypeOK'
  BY <1>1, <1>5 DEF TypeOK, Settle, Status, Arrived
<1>6. QED
  BY <1>2, <1>3, <1>4, <1>5

LEMMA TypeStore ==
  ASSUME TypeOK, NEW p \in Proc, NEW i \in DOMAIN Items(p),
         StoreAnswer(p, i) \/ StoreFailure(p, i)
  PROVE  TypeOK'
<1>1. /\ TaskAt(p, i) \in Task /\ i \in ItemIndex
      /\ Items(p)[i] \in Item
  BY TaskAtType
<1>2. CASE StoreAnswer(p, i)
  <2> DEFINE answer == [from |-> RouteItem(p, Items(p)[i]).from,
                        of |-> TaskAt(p, i).name, stored |-> clock]
             entry == [content |-> "entry", name |-> TaskAt(p, i).name,
                       fetched_at |-> clock, answer |-> answer]
  <2>1. answer \in Answer
    BY <1>1, RouteType DEF Answer, Task, TypeOK
  <2>2. entry \in Entry
    BY <1>1, <2>1 DEF Entry, Task, TypeOK
  <2>3. PathOf(TaskAt(p, i)) \in Path
    BY <1>1, PathType
  <2>a. \/ /\ disk' = [disk EXCEPT ![PathOf(TaskAt(p, i))] = Torn]
           /\ writing' = [writing EXCEPT ![p] =
                            [path |-> PathOf(TaskAt(p, i)), entry |-> entry]]
        \/ UNCHANGED <<disk, writing>>
    BY <1>2 DEF StoreAnswer
  <2>b. [path |-> PathOf(TaskAt(p, i)), entry |-> entry] \in Write
    BY <2>2, <2>3 DEF Write
  <2>4. disk' \in [Path -> DiskFile] /\ writing' \in [Proc -> Write]
    <3> HIDE DEF entry
    <3>1. disk \in [Path -> DiskFile] /\ writing \in [Proc -> Write]
      BY DEF TypeOK
    <3>2. Torn \in DiskFile
      BY DEF DiskFile
    <3>3. QED
      BY <2>a, <2>b, <3>1, <3>2
  <2>5. memory' \in [Proc -> [Task -> MemEntry]]
    BY <1>1, <1>2, <2>1, ServedType DEF StoreAnswer, Insert, TypeOK
  <2>6. out' \in [Proc -> [Task -> Outcome]]
    BY <1>1, <1>2, <2>1, ServedType DEF StoreAnswer, TypeOK
  <2>7. QED
    BY <1>1, <1>2, <2>4, <2>5, <2>6 DEF StoreAnswer, TypeOK, Status
<1>3. CASE StoreFailure(p, i)
  <2>1. TaskAt(p, i).key \in CacheKey
    BY <1>1 DEF Task
  <2>2. [kind |-> status[p][i]] \in Outcome
    BY <1>3 DEF StoreFailure, Outcome
  <2>3. QED
    BY <1>1, <1>3, <2>1, <2>2 DEF StoreFailure, TypeOK, Status
<1>4. QED
  BY <1>2, <1>3

LEMMA TypeOther ==
  ASSUME TypeOK, NEW p \in Proc,
         \/ BeginFetching(p) \/ BeginStoring(p) \/ EndPut(p) \/ Report(p)
         \/ Crash(p) \/ Restart(p)
  PROVE  TypeOK'
<1>1. CASE BeginFetching(p)
  BY <1>1, WithCardinality DEF TypeOK, BeginFetching, Phase
<1>2. CASE BeginStoring(p)
  BY <1>2 DEF TypeOK, BeginStoring, Phase
<1>3. CASE EndPut(p)
  <2>1. writing[p].path \in Path /\ writing[p].entry \in Entry
    BY <1>3 DEF EndPut, TypeOK, Write
  <2>2. QED
    BY <1>3, <2>1 DEF TypeOK, EndPut, DiskFile, Write
<1>4. CASE Report(p)
  BY <1>4 DEF TypeOK, Report, Phase
<1>5. CASE Crash(p)
  BY <1>5, CheckerAssumption DEF TypeOK, Crash, Phase, MemEntry, NoStatus, Status,
     NoTries, NoOutcome, Outcome, Write
<1>6. CASE Restart(p)
  BY <1>6 DEF TypeOK, Restart, Phase
<1>7. QED
  BY <1>1, <1>2, <1>3, <1>4, <1>5, <1>6

(* A sleeping task has an attempt left, which is what keeps the attempt    *)
(* counter inside its bound.                                               *)
TriesInv ==
  \A p \in Proc : \A i \in ItemIndex :
    status[p][i] = "sleeping" => tries[p][i] < MaxAttempts

LEMMA TriesStep == TypeOK /\ TypeOK' /\ TriesInv /\ [Next]_vars => TriesInv'
<1> SUFFICES ASSUME TypeOK, TriesInv, [Next]_vars PROVE TriesInv'
  OBVIOUS
<1>1. ASSUME NEW p \in Proc, NEW i \in DOMAIN Items(p), TaskStep(p, i)
      PROVE  TriesInv'
  <2>1. i \in ItemIndex
    BY TaskAtType
  <2>2. CASE MemoryHit(p, i)
    BY <2>1, <2>2 DEF TriesInv, TypeOK, MemoryHit
  <2>3. CASE DiskHit(p, i)
    BY <2>1, <2>3 DEF TriesInv, TypeOK, DiskHit
  <2>4. CASE CacheMiss(p, i)
    BY <2>1, <2>4 DEF TriesInv, TypeOK, CacheMiss
  <2>5. CASE StartCall(p, i)
    BY <2>1, <2>5 DEF TriesInv, TypeOK, StartCall
  <2>6. CASE BackOff(p, i)
    BY <2>1, <2>6 DEF TriesInv, TypeOK, BackOff
  <2>7. CASE Retry(p, i)
    BY <2>1, <2>7 DEF TriesInv, TypeOK, Retry
  <2>8. CASE StoreAnswer(p, i)
    BY <2>1, <2>8 DEF TriesInv, TypeOK, StoreAnswer
  <2>9. CASE StoreFailure(p, i)
    BY <2>1, <2>9 DEF TriesInv, TypeOK, StoreFailure
  <2>10. ASSUME NEW result \in Arrived, Settle(p, i, result)
        PROVE  TriesInv'
    BY <2>1, <2>10 DEF TriesInv, TypeOK, Settle, Arrived
  <2>11. QED
    BY <1>1, <2>2, <2>3, <2>4, <2>5, <2>6, <2>7, <2>8, <2>9, <2>10 DEF TaskStep
<1>2. ASSUME NEW p \in Proc,
             \/ BeginFetching(p) \/ BeginStoring(p) \/ EndPut(p) \/ Report(p)
             \/ Restart(p)
      PROVE  TriesInv'
  BY <1>2 DEF TriesInv, TypeOK, BeginFetching, BeginStoring, EndPut, Report,
     Restart
<1>3. ASSUME NEW p \in Proc, StartManifest(p) \/ Crash(p)
      PROVE  TriesInv'
  <2>1. CASE StartManifest(p)
    BY <2>1 DEF TriesInv, TypeOK, StartManifest
  <2>2. CASE Crash(p)
    BY <2>2 DEF TriesInv, TypeOK, Crash, NoStatus
  <2>3. QED
    BY <1>3, <2>1, <2>2
<1>4. CASE Tick \/ UNCHANGED vars
  BY <1>4 DEF TriesInv, Tick, vars
<1>5. QED
  BY <1>1, <1>2, <1>3, <1>4 DEF Next, Step, AllFinished

LEMMA TypeStep == TypeOK /\ TriesInv /\ [Next]_vars => TypeOK'
<1> SUFFICES ASSUME TypeOK, TriesInv, [Next]_vars PROVE TypeOK'
  OBVIOUS
<1>1. ASSUME NEW p \in Proc, NEW i \in DOMAIN Items(p), TaskStep(p, i)
      PROVE  TypeOK'
  <2>1. status[p][i] = "sleeping" => tries[p][i] < MaxAttempts
    BY TaskAtType DEF TriesInv
  <2>2. QED
    BY <1>1, <2>1, TypeLookup, TypePool, TypeStore DEF TaskStep
<1>2. ASSUME NEW p \in Proc, Step(p) \/ Crash(p) \/ Restart(p)
      PROVE  TypeOK'
  BY <1>1, <1>2, TypeStartManifest, TypeOther DEF Step
<1>3. CASE Tick \/ UNCHANGED vars
  <2>1. CASE Tick
    BY <2>1, CheckerAssumption DEF TypeOK, Tick, Time
  <2>2. CASE UNCHANGED vars
    BY <2>2 DEF TypeOK, vars
  <2>3. QED
    BY <1>3, <2>1, <2>2
<1>4. QED
  BY <1>2, <1>3 DEF Next, AllFinished

(* Type correctness: in particular no attempt counter passes MAX_ATTEMPTS, *)
(* and every cache, file and outcome holds what its readers expect.        *)
THEOREM TypeCorrect == Spec => [](TypeOK /\ TriesInv)
<1>1. Init => TypeOK /\ TriesInv
  BY TypeInit DEF Init, TriesInv, NoStatus
<1>2. TypeOK /\ TriesInv /\ [Next]_vars => (TypeOK /\ TriesInv)'
  BY TypeStep, TriesStep
<1>3. QED
  BY <1>1, <1>2, PTL DEF Spec

(***************************************************************************)
(* Staleness.  Every list is as old as its `stored` stamp says, a memory   *)
(* entry was at most DiskTTL old when it was inserted, and is served for   *)
(* less than MemTTL after that.                                            *)
(***************************************************************************)
MemoryAge(m) ==
  m # None => m.answer.stored <= m.inserted /\ m.inserted <= m.answer.stored + DiskTTL

FileAge(file) ==
  file # None /\ file # Torn => file.fetched_at = file.answer.stored

WriteAge(w) == w # None => w.entry.fetched_at = w.entry.answer.stored

OutcomeAge(o) ==
  o.kind = "ok" => o.served - o.answer.stored < DiskTTL + MemTTL

NotAhead(file, now) == file # None /\ file # Torn => file.fetched_at <= now

AgeInv ==
  /\ \A p \in Proc, t \in Task : MemoryAge(memory[p][t])
  /\ \A x \in Path : FileAge(disk[x]) /\ NotAhead(disk[x], clock)
  /\ \A p \in Proc : WriteAge(writing[p])
                     /\ (writing[p] # None => writing[p].entry.fetched_at <= clock)
  /\ \A p \in Proc, t \in Task : OutcomeAge(out[p][t])

LEMMA MemoryGetAge ==
  ASSUME TypeOK, AgeInv, NEW p \in Proc, NEW t \in Task, MemoryGet(p, t) # None
  PROVE  OutcomeAge(Served(MemoryGet(p, t)))
<1>1. memory[p][t] \in MemEntry /\ MemoryAge(memory[p][t]) /\ clock \in Nat
  BY CheckerAssumption DEF TypeOK, AgeInv, Time
<1>2. /\ memory[p][t] # None /\ clock < memory[p][t].inserted + MemTTL
      /\ MemoryGet(p, t) = memory[p][t].answer
  BY DEF MemoryGet
<1>3. /\ memory[p][t].inserted \in Nat /\ memory[p][t].answer.stored \in Nat
  BY <1>1, <1>2 DEF MemEntry, Cached, Answer, Time
<1>4. /\ memory[p][t].answer.stored <= memory[p][t].inserted
      /\ memory[p][t].inserted <= memory[p][t].answer.stored + DiskTTL
  BY <1>1, <1>2 DEF MemoryAge
<1>a. MemTTL \in Nat /\ DiskTTL \in Nat
  BY CheckerAssumption
<1>b. ASSUME NEW now \in Nat, NEW since \in Nat, NEW at0 \in Nat,
             now < since + MemTTL, since <= at0 + DiskTTL
      PROVE  now - at0 < DiskTTL + MemTTL
  BY <1>a, <1>b
<1>5. clock - memory[p][t].answer.stored < DiskTTL + MemTTL
  BY <1>1, <1>2, <1>3, <1>4, <1>b
<1>6. QED
  BY <1>2, <1>5 DEF OutcomeAge, Served

LEMMA DiskGetAge ==
  ASSUME TypeOK, AgeInv, NEW p \in Proc, NEW t \in Task, DiskGet(p, t) # None
  PROVE  /\ OutcomeAge(Served(DiskGet(p, t)))
         /\ MemoryAge([answer |-> DiskGet(p, t), inserted |-> clock])
<1> DEFINE file == disk[PathOf(t)]
<1>1. /\ file \in DiskFile /\ FileAge(file) /\ NotAhead(file, clock) /\ clock \in Nat
  BY PathType, CheckerAssumption DEF TypeOK, AgeInv, Time
<1>2. /\ file # None /\ file # Torn /\ clock - file.fetched_at <= DiskTTL
      /\ DiskGet(p, t) = file.answer
  BY DEF DiskGet
<1>3. /\ file.fetched_at \in Nat /\ file.answer.stored \in Nat
  BY <1>1, <1>2 DEF DiskFile, Entry, Answer, Time
<1>4. QED
  BY <1>1, <1>2, <1>3, CheckerAssumption
     DEF MemoryAge, OutcomeAge, Served, FileAge, NotAhead

LEMMA AgeLookup ==
  ASSUME TypeOK, AgeInv, NEW p \in Proc, NEW i \in DOMAIN Items(p),
         MemoryHit(p, i) \/ DiskHit(p, i)
  PROVE  AgeInv'
<1>1. TaskAt(p, i) \in Task /\ i \in ItemIndex
  BY TaskAtType
<1>2. CASE MemoryHit(p, i)
  <2>1. OutcomeAge(Served(MemoryGet(p, TaskAt(p, i))))
    BY <1>1, <1>2, MemoryGetAge DEF MemoryHit
  <2>2. \A q \in Proc, t \in Task : OutcomeAge(out'[q][t])
    BY <1>1, <1>2, <2>1 DEF MemoryHit, TypeOK, AgeInv
  <2>3. QED
    BY <1>2, <2>2 DEF MemoryHit, AgeInv, NotAhead, OutcomeAge
<1>3. CASE DiskHit(p, i)
  <2>1. /\ OutcomeAge(Served(DiskGet(p, TaskAt(p, i))))
        /\ MemoryAge([answer |-> DiskGet(p, TaskAt(p, i)), inserted |-> clock])
    BY <1>1, <1>3, DiskGetAge DEF DiskHit
  <2>2. \A q \in Proc, t \in Task : OutcomeAge(out'[q][t])
    BY <1>1, <1>3, <2>1 DEF DiskHit, TypeOK, AgeInv
  <2>3. \A q \in Proc, t \in Task : MemoryAge(memory'[q][t])
    BY <1>1, <1>3, <2>1 DEF DiskHit, Insert, TypeOK, AgeInv
  <2>4. QED
    BY <1>3, <2>2, <2>3 DEF DiskHit, AgeInv, NotAhead, OutcomeAge
<1>4. QED
  BY <1>2, <1>3

LEMMA AgeStoreAnswer ==
  ASSUME TypeOK, AgeInv, NEW p \in Proc, NEW i \in DOMAIN Items(p),
         StoreAnswer(p, i)
  PROVE  AgeInv'
<1> DEFINE answer == [from |-> RouteItem(p, Items(p)[i]).from,
                      of |-> TaskAt(p, i).name, stored |-> clock]
           entry == [content |-> "entry", name |-> TaskAt(p, i).name,
                     fetched_at |-> clock, answer |-> answer]
           write == [path |-> PathOf(TaskAt(p, i)), entry |-> entry]
<1>1. TaskAt(p, i) \in Task /\ i \in ItemIndex /\ clock \in Nat
  BY TaskAtType, CheckerAssumption DEF TypeOK, Time
<1>2. \/ /\ disk' = [disk EXCEPT ![PathOf(TaskAt(p, i))] = Torn]
         /\ writing' = [writing EXCEPT ![p] = write]
      \/ UNCHANGED <<disk, writing>>
  BY DEF StoreAnswer
<1>3. /\ OutcomeAge(Served(answer))
      /\ MemoryAge([answer |-> answer, inserted |-> clock])
      /\ WriteAge(write) /\ write.entry.fetched_at = clock
  BY <1>1, CheckerAssumption DEF OutcomeAge, Served, MemoryAge, WriteAge
<1>4. /\ out' = [out EXCEPT ![p][TaskAt(p, i)] = Served(answer)]
      /\ memory' = [memory EXCEPT ![p][TaskAt(p, i)] =
                      [answer |-> answer, inserted |-> clock]]
      /\ clock' = clock
  BY DEF StoreAnswer, Insert
<1> HIDE DEF answer, entry, write
<1>5. \A q \in Proc, t \in Task : OutcomeAge(out'[q][t])
  BY <1>1, <1>3, <1>4 DEF TypeOK, AgeInv
<1>6. \A q \in Proc, t \in Task : MemoryAge(memory'[q][t])
  BY <1>1, <1>3, <1>4 DEF TypeOK, AgeInv
<1>7. \A x \in Path : FileAge(disk'[x]) /\ NotAhead(disk'[x], clock)
  BY <1>2, <1>4 DEF TypeOK, AgeInv, FileAge, NotAhead
<1>8. \A q \in Proc : /\ WriteAge(writing'[q])
                      /\ writing'[q] # None => writing'[q].entry.fetched_at <= clock
  BY <1>1, <1>2, <1>3 DEF TypeOK, AgeInv
<1>9. QED
  BY <1>4, <1>5, <1>6, <1>7, <1>8 DEF AgeInv, NotAhead, OutcomeAge

LEMMA AgeStep == TypeOK /\ AgeInv /\ [Next]_vars => AgeInv'
<1> SUFFICES ASSUME TypeOK, AgeInv, [Next]_vars PROVE AgeInv'
  OBVIOUS
<1>a. ASSUME UNCHANGED <<clock, disk, memory, writing, out>>
      PROVE  AgeInv'
  BY <1>a DEF AgeInv, NotAhead
<1>1. ASSUME NEW p \in Proc, NEW i \in DOMAIN Items(p), TaskStep(p, i)
      PROVE  AgeInv'
  <2>1. CASE MemoryHit(p, i) \/ DiskHit(p, i)
    BY <2>1, AgeLookup
  <2>2. CASE StoreAnswer(p, i)
    BY <2>2, AgeStoreAnswer
  <2>3. CASE CacheMiss(p, i) \/ StartCall(p, i) \/ BackOff(p, i) \/ Retry(p, i)
             \/ \E result \in Arrived : Settle(p, i, result)
    BY <2>3, <1>a DEF CacheMiss, StartCall, BackOff, Retry, Settle
  <2>4. CASE StoreFailure(p, i)
    <3>1. TaskAt(p, i) \in Task
      BY TaskAtType
    <3>2. \A q \in Proc, t \in Task : OutcomeAge(out'[q][t])
      BY <2>4, <3>1 DEF StoreFailure, TypeOK, AgeInv, OutcomeAge
    <3>3. QED
      BY <2>4, <3>2 DEF StoreFailure, AgeInv, NotAhead
  <2>5. QED
    BY <1>1, <2>1, <2>2, <2>3, <2>4 DEF TaskStep
<1>2. ASSUME NEW p \in Proc, StartManifest(p) \/ Crash(p)
      PROVE  AgeInv'
  <2>a. out' = [out EXCEPT ![p] = NoOutcome]
    BY <1>2 DEF StartManifest, Crash
  <2>b. \A t \in Task : NoOutcome[t].kind = "none"
    BY DEF NoOutcome, NotFetched
  <2>1. \A q \in Proc, t \in Task : OutcomeAge(out'[q][t])
    BY <2>a, <2>b DEF TypeOK, AgeInv, OutcomeAge
  <2>2. CASE StartManifest(p)
    BY <2>1, <2>2 DEF StartManifest, AgeInv, NotAhead
  <2>3. CASE Crash(p)
    BY <2>1, <2>3 DEF Crash, TypeOK, AgeInv, NotAhead, MemoryAge, WriteAge
  <2>4. QED
    BY <1>2, <2>2, <2>3
<1>3. ASSUME NEW p \in Proc, EndPut(p)
      PROVE  AgeInv'
  <2>1. writing[p] \in Write /\ writing[p] # None /\ writing[p].path \in Path
    BY <1>3 DEF EndPut, TypeOK, Write
  <2>2. PICK file \in {writing[p].entry, Torn} :
          disk' = [disk EXCEPT ![writing[p].path] = file]
    BY <1>3 DEF EndPut
  <2>3. FileAge(file) /\ NotAhead(file, clock)
    BY <2>1, <2>2 DEF AgeInv, WriteAge, FileAge, NotAhead
  <2>4. \A x \in Path : FileAge(disk'[x]) /\ NotAhead(disk'[x], clock)
    BY <2>1, <2>2, <2>3 DEF TypeOK, AgeInv
  <2>5. QED
    BY <1>3, <2>4 DEF EndPut, TypeOK, AgeInv, NotAhead, WriteAge
<1>4. ASSUME NEW p \in Proc,
             BeginFetching(p) \/ BeginStoring(p) \/ Report(p) \/ Restart(p)
      PROVE  AgeInv'
  BY <1>4, <1>a DEF BeginFetching, BeginStoring, Report, Restart
<1>5. CASE Tick
  <2>1. \A x \in Path : disk[x] \in DiskFile
    BY DEF TypeOK
  <2>2. \A x \in Path : NotAhead(disk[x], clock) => NotAhead(disk[x], clock + 1)
    BY <1>5, <2>1, CheckerAssumption DEF Tick, NotAhead, TypeOK, DiskFile, Entry, Time
  <2>3. \A p \in Proc : writing[p] # None /\ writing[p].entry.fetched_at <= clock
                         => writing[p].entry.fetched_at <= clock + 1
    BY CheckerAssumption DEF TypeOK, Write, Entry, Time
  <2>4. QED
    BY <1>5, <2>2, <2>3 DEF Tick, AgeInv
<1>6. CASE UNCHANGED vars
  BY <1>6, <1>a DEF vars
<1>7. QED
  BY <1>1, <1>2, <1>3, <1>4, <1>5, <1>6 DEF Next, Step, AllFinished

LEMMA AgeInit == Init => AgeInv
BY DEF Init, AgeInv, MemoryAge, FileAge, NotAhead, WriteAge, OutcomeAge,
   NoOutcome, NotFetched

(* No list is ever served later than the sum of the two lifetimes after it *)
(* was stored, whatever the runs, kills and failed writes in between.      *)
THEOREM StalenessBounded == Spec => []BoundedStaleness
<1>1. Init => AgeInv
  BY AgeInit
<1>2. TypeOK /\ AgeInv /\ [Next]_vars => AgeInv'
  BY AgeStep
<1>3. AgeInv => BoundedStaleness
  BY DEF AgeInv, BoundedStaleness, OutcomeAge
<1>4. QED
  BY <1>1, <1>2, <1>3, TypeCorrect, PTL DEF Spec

(***************************************************************************)
(* Ownership.  Two processes that share a cache directory read the same    *)
(* registry behind an alias both configure; under that assumption every    *)
(* list in a cache belongs to the registry its key stands for, whoever     *)
(* wrote it.                                                               *)
(***************************************************************************)
AliasesAgree ==
  \A p, q \in Proc :
    \A a \in DOMAIN Config[p].alt \cap DOMAIN Config[q].alt :
      Config[p].alt[a] = Config[q].alt[a]

AnswerOf(t, answer) ==
  /\ answer.of = t.name
  /\ \A q \in Proc : Resolves(q, t.key) => answer.from = HomeOf(q, t)

FileOf(x, file) ==
  file # None /\ file # Torn =>
    AnswerOf([key |-> x.key, name |-> file.name], file.answer)

OwnInv ==
  /\ \A p \in Proc, t \in Task :
       memory[p][t] # None => AnswerOf(t, memory[p][t].answer)
  /\ \A x \in Path : FileOf(x, disk[x])
  /\ \A p \in Proc :
       writing[p] # None => FileOf(writing[p].path, writing[p].entry)
  /\ \A p \in Proc, t \in Task :
       out[p][t].kind = "ok" => AnswerOf(t, out[p][t].answer)

LEMMA KeysTellRegistriesApart ==
  ASSUME AliasesAgree, NEW p \in Proc, NEW q \in Proc, NEW t \in Task,
         Resolves(p, t.key), Resolves(q, t.key)
  PROVE  HomeOf(p, t) = HomeOf(q, t)
BY DEF AliasesAgree, Resolves, HomeOf

LEMMA GetsOwn ==
  ASSUME TypeOK, OwnInv, NEW p \in Proc, NEW t \in Task
  PROVE  /\ MemoryGet(p, t) # None => AnswerOf(t, MemoryGet(p, t))
         /\ DiskGet(p, t) # None => AnswerOf(t, DiskGet(p, t))
<1>1. MemoryGet(p, t) # None => AnswerOf(t, MemoryGet(p, t))
  BY DEF MemoryGet, OwnInv
<1>2. ASSUME DiskGet(p, t) # None
      PROVE  AnswerOf(t, DiskGet(p, t))
  <2> DEFINE file == disk[PathOf(t)]
  <2>1. /\ file # None /\ file # Torn /\ file.name = t.name
        /\ DiskGet(p, t) = file.answer
    BY <1>2 DEF DiskGet
  <2>2. FileOf(PathOf(t), file) /\ PathOf(t).key = t.key
    BY PathType DEF OwnInv, PathOf
  <2>3. [key |-> t.key, name |-> t.name] = t
    BY DEF Task
  <2>4. QED
    BY <2>1, <2>2, <2>3 DEF FileOf
<1>3. QED
  BY <1>1, <1>2

LEMMA OwnLookup ==
  ASSUME TypeOK, OwnInv, NEW p \in Proc, NEW i \in DOMAIN Items(p),
         MemoryHit(p, i) \/ DiskHit(p, i)
  PROVE  OwnInv'
<1>1. TaskAt(p, i) \in Task
  BY TaskAtType
<1>2. CASE MemoryHit(p, i)
  <2>1. AnswerOf(TaskAt(p, i), Served(MemoryGet(p, TaskAt(p, i))).answer)
    BY <1>1, <1>2, GetsOwn DEF MemoryHit, Served
  <2>2. \A q \in Proc, t \in Task :
          out'[q][t].kind = "ok" => AnswerOf(t, out'[q][t].answer)
    BY <1>1, <1>2, <2>1 DEF MemoryHit, TypeOK, OwnInv
  <2>3. QED
    BY <1>2, <2>2 DEF MemoryHit, OwnInv
<1>3. CASE DiskHit(p, i)
  <2>1. AnswerOf(TaskAt(p, i), DiskGet(p, TaskAt(p, i)))
    BY <1>1, <1>3, GetsOwn DEF DiskHit
  <2>2. \A q \in Proc, t \in Task :
          out'[q][t].kind = "ok" => AnswerOf(t, out'[q][t].answer)
    BY <1>1, <1>3, <2>1 DEF DiskHit, TypeOK, OwnInv, Served
  <2>3. \A q \in Proc, t \in Task :
          memory'[q][t] # None => AnswerOf(t, memory'[q][t].answer)
    BY <1>1, <1>3, <2>1 DEF DiskHit, Insert, TypeOK, OwnInv
  <2>4. QED
    BY <1>3, <2>2, <2>3 DEF DiskHit, OwnInv
<1>4. QED
  BY <1>2, <1>3

LEMMA OwnStoreAnswer ==
  ASSUME AliasesAgree, TypeOK, OwnInv, NEW p \in Proc, NEW i \in DOMAIN Items(p),
         StoreAnswer(p, i)
  PROVE  OwnInv'
<1> DEFINE t0 == TaskAt(p, i)
           answer == [from |-> RouteItem(p, Items(p)[i]).from,
                      of |-> t0.name, stored |-> clock]
           entry == [content |-> "entry", name |-> t0.name,
                     fetched_at |-> clock, answer |-> answer]
           write == [path |-> PathOf(t0), entry |-> entry]
<1>1. t0 \in Task /\ Items(p)[i] \in Item
  BY TaskAtType
<1>2. \/ /\ disk' = [disk EXCEPT ![PathOf(t0)] = Torn]
         /\ writing' = [writing EXCEPT ![p] = write]
      \/ UNCHANGED <<disk, writing>>
  BY DEF StoreAnswer
<1>3. AnswerOf(t0, answer)
  <2>1. answer.from = HomeOf(p, t0) /\ Resolves(p, t0.key)
    BY <1>1, RouteType DEF TaskAt, TaskOf
  <2>2. QED
    BY <1>1, <2>1, KeysTellRegistriesApart DEF AnswerOf
<1>4. FileOf(write.path, write.entry)
  <2>1. [key |-> t0.key, name |-> t0.name] = t0
    BY <1>1 DEF Task
  <2>2. QED
    BY <1>3, <2>1 DEF FileOf, PathOf
<1>5. /\ out' = [out EXCEPT ![p][t0] = Served(answer)]
      /\ memory' = [memory EXCEPT ![p][t0] = [answer |-> answer, inserted |-> clock]]
  BY DEF StoreAnswer, Insert
<1> HIDE DEF t0, answer, entry, write
<1>6. \A q \in Proc, t \in Task :
        out'[q][t].kind = "ok" => AnswerOf(t, out'[q][t].answer)
  BY <1>1, <1>3, <1>5 DEF TypeOK, OwnInv, Served
<1>7. \A q \in Proc, t \in Task :
        memory'[q][t] # None => AnswerOf(t, memory'[q][t].answer)
  BY <1>1, <1>3, <1>5 DEF TypeOK, OwnInv
<1>8. \A x \in Path : FileOf(x, disk'[x])
  BY <1>2 DEF TypeOK, OwnInv, FileOf
<1>9. \A q \in Proc :
        writing'[q] # None => FileOf(writing'[q].path, writing'[q].entry)
  BY <1>2, <1>4 DEF TypeOK, OwnInv
<1>10. QED
  BY <1>6, <1>7, <1>8, <1>9 DEF OwnInv

LEMMA OwnStep == AliasesAgree /\ TypeOK /\ OwnInv /\ [Next]_vars => OwnInv'
<1> SUFFICES ASSUME AliasesAgree, TypeOK, OwnInv, [Next]_vars PROVE OwnInv'
  OBVIOUS
<1>a. ASSUME UNCHANGED <<disk, memory, writing, out>>
      PROVE  OwnInv'
  BY <1>a DEF OwnInv
<1>1. ASSUME NEW p \in Proc, NEW i \in DOMAIN Items(p), TaskStep(p, i)
      PROVE  OwnInv'
  <2>1. CASE MemoryHit(p, i) \/ DiskHit(p, i)
    BY <2>1, OwnLookup
  <2>2. CASE StoreAnswer(p, i)
    BY <2>2, OwnStoreAnswer
  <2>3. CASE CacheMiss(p, i) \/ StartCall(p, i) \/ BackOff(p, i) \/ Retry(p, i)
             \/ \E result \in Arrived : Settle(p, i, result)
    BY <2>3, <1>a DEF CacheMiss, StartCall, BackOff, Retry, Settle
  <2>4. CASE StoreFailure(p, i)
    <3>1. TaskAt(p, i) \in Task
      BY TaskAtType
    <3>2. \A q \in Proc, t \in Task :
            out'[q][t].kind = "ok" => AnswerOf(t, out'[q][t].answer)
      BY <2>4, <3>1 DEF StoreFailure, TypeOK, OwnInv
    <3>3. QED
      BY <2>4, <3>2 DEF StoreFailure, OwnInv
  <2>5. QED
    BY <1>1, <2>1, <2>2, <2>3, <2>4 DEF TaskStep
<1>2. ASSUME NEW p \in Proc, StartManifest(p) \/ Crash(p)
      PROVE  OwnInv'
  <2>a. out' = [out EXCEPT ![p] = NoOutcome]
    BY <1>2 DEF StartManifest, Crash
  <2>b. \A t \in Task : NoOutcome[t].kind = "none"
    BY DEF NoOutcome, NotFetched
  <2>1. \A q \in Proc, t \in Task :
          out'[q][t].kind = "ok" => AnswerOf(t, out'[q][t].answer)
    BY <2>a, <2>b DEF TypeOK, OwnInv
  <2>2. CASE StartManifest(p)
    BY <2>1, <2>2 DEF StartManifest, OwnInv
  <2>3. CASE Crash(p)
    BY <2>1, <2>3 DEF Crash, TypeOK, OwnInv
  <2>4. QED
    BY <1>2, <2>2, <2>3
<1>3. ASSUME NEW p \in Proc, EndPut(p)
      PROVE  OwnInv'
  <2>1. writing[p] \in Write /\ writing[p] # None /\ writing[p].path \in Path
    BY <1>3 DEF EndPut, TypeOK, Write
  <2>2. PICK file \in {writing[p].entry, Torn} :
          disk' = [disk EXCEPT ![writing[p].path] = file]
    BY <1>3 DEF EndPut
  <2>3. FileOf(writing[p].path, file)
    BY <2>1, <2>2 DEF OwnInv, FileOf
  <2>4. \A x \in Path : FileOf(x, disk'[x])
    BY <2>1, <2>2, <2>3 DEF TypeOK, OwnInv
  <2>5. QED
    BY <1>3, <2>4 DEF EndPut, TypeOK, OwnInv
<1>4. ASSUME NEW p \in Proc,
             BeginFetching(p) \/ BeginStoring(p) \/ Report(p) \/ Restart(p)
      PROVE  OwnInv'
  BY <1>4, <1>a DEF BeginFetching, BeginStoring, Report, Restart
<1>5. CASE Tick \/ UNCHANGED vars
  BY <1>5, <1>a DEF Tick, vars
<1>6. QED
  BY <1>1, <1>2, <1>3, <1>4, <1>5 DEF Next, Step, AllFinished

LEMMA OwnInit == Init => OwnInv
BY DEF Init, OwnInv, FileOf, NoOutcome, NotFetched

(* As long as the runs that share a cache directory agree on what their    *)
(* aliases mean, no dependency is ever judged by a list that came from     *)
(* another registry or another package: however the runs interleave, are   *)
(* killed, or collide on a file name.  The run `alias` shows what happens  *)
(* when they do not agree.                                                 *)
THEOREM NoForeignAnswer == AliasesAgree => (Spec => []AnswersOwnQuestion)
<1> SUFFICES ASSUME AliasesAgree PROVE Spec => []AnswersOwnQuestion
  OBVIOUS
<1>1. Init => OwnInv
  BY OwnInit
<1>2. TypeOK /\ OwnInv /\ [Next]_vars => OwnInv'
  BY OwnStep
<1>3. TypeOK /\ OwnInv => AnswersOwnQuestion
  <2> SUFFICES ASSUME TypeOK, OwnInv, NEW p \in Proc, NEW i \in Checkable(p),
                      out[p][TaskAt(p, i)].kind = "ok"
               PROVE  /\ out[p][TaskAt(p, i)].answer.from = RouteItem(p, Items(p)[i]).from
                      /\ out[p][TaskAt(p, i)].answer.of = Items(p)[i].name
    BY DEF AnswersOwnQuestion
  <2>1. i \in DOMAIN Items(p)
    BY DEF Checkable
  <2>2. TaskAt(p, i) \in Task /\ Items(p)[i] \in Item
    BY <2>1, TaskAtType
  <2>3. AnswerOf(TaskAt(p, i), out[p][TaskAt(p, i)].answer)
    BY <2>2 DEF OwnInv
  <2>4. /\ RouteItem(p, Items(p)[i]).from = HomeOf(p, TaskAt(p, i))
        /\ Resolves(p, TaskAt(p, i).key)
        /\ TaskAt(p, i).name = Items(p)[i].name
    BY <2>2, RouteType DEF TaskAt, TaskOf
  <2>5. QED
    BY <2>3, <2>4 DEF AnswerOf
<1>4. QED
  BY <1>1, <1>2, <1>3, TypeCorrect, PTL DEF Spec

(***************************************************************************)
(* The tasks of a manifest.  Each is where its process's phase has it, and *)
(* has its outcome when it should; the counter and the declined keys say   *)
(* no more and no less; memory keeps what was fetched.                     *)
(***************************************************************************)
Tasks(p) == With(p, Status \ {"none"})

(* Where a task can stand while its process is in a phase.                 *)
Stands(ph) ==
  CASE ph = "lookup"   -> {"pending", "hit", "queued"}
    [] ph = "fetch"    -> {"hit", "queued"} \cup InFlight \cup Arrived
    [] ph = "store"    -> {"hit", "stored"} \cup Arrived
    [] ph = "reported" -> {"hit", "stored"}
    [] OTHER           -> {}

Placed(p) ==
  /\ phase[p] \in {"idle", "crashed"} <=> at[p] = 0
  /\ Tasks(p) = TaskIndices(p, Items(p))
  /\ \A i \in Tasks(p) : status[p][i] \in Stands(phase[p])

(* A task has an outcome once it was hit or stored, and the keys declined  *)
(* are those of the tasks nobody answered.                                 *)
Unanswered(p) == {i \in Tasks(p) : out[p][TaskAt(p, i)].kind = "unanswered"}

Concluded(p) ==
  /\ \A i \in Tasks(p) :
       /\ status[p][i] = "hit" => out[p][TaskAt(p, i)].kind = "ok"
       /\ status[p][i] = "stored" => out[p][TaskAt(p, i)].kind # "none"
       /\ status[p][i] \notin {"hit", "stored"} => out[p][TaskAt(p, i)].kind = "none"
  /\ declined[p] = {TaskAt(p, i).key : i \in Unanswered(p)}

(* The counter counts the hits and what has arrived.                       *)
Ended == {"hit", "stored"} \cup Arrived

Counted(p) ==
  completed[p] = IF phase[p] \in {"fetch", "store", "reported"}
                 THEN Cardinality(With(p, Ended)) ELSE 0

(* What was fetched is in memory, inserted no earlier; and what is asked   *)
(* for was fetched a lifetime ago if it was fetched at all.                *)
Asking(p) == With(p, {"queued"} \cup InFlight)

Kept(p, t) ==
  /\ memory[p][t] # None => memory[p][t].inserted <= clock
  /\ fetched[p][t] # None =>
       memory[p][t] # None /\ fetched[p][t] <= memory[p][t].inserted

Aged(p, t) == fetched[p][t] # None => fetched[p][t] + MemTTL <= clock

Remembered(p) ==
  /\ \A t \in Task : Kept(p, t)
  /\ \A i \in Asking(p) : Aged(p, TaskAt(p, i))

TaskInv ==
  \A p \in Proc : Placed(p) /\ Concluded(p) /\ Counted(p) /\ Remembered(p)

(* The tasks are the first of each kind: no two are the same, and every    *)
(* checkable item has its task among them.                                 *)
LEMMA TasksDiffer ==
  ASSUME TypeOK, NEW p \in Proc, Placed(p), NEW i \in Tasks(p), NEW j \in Tasks(p),
         TaskAt(p, i) = TaskAt(p, j)
  PROVE  i = j
<1>1. i \in TaskIndices(p, Items(p)) /\ j \in TaskIndices(p, Items(p))
  BY DEF Placed
<1>2. DOMAIN Items(p) \subseteq Nat
  BY ItemsType, CheckerAssumption DEF ItemIndex
<1>3. /\ i \in DOMAIN Items(p) /\ j \in DOMAIN Items(p)
      /\ IsCheckable(Items(p)[i]) /\ IsCheckable(Items(p)[j])
      /\ \A k \in 1 .. i - 1 : IsCheckable(Items(p)[k]) => TaskAt(p, k) # TaskAt(p, i)
      /\ \A k \in 1 .. j - 1 : IsCheckable(Items(p)[k]) => TaskAt(p, k) # TaskAt(p, j)
  BY <1>1 DEF TaskIndices, TaskAt
<1>4. i \in Nat \ {0} /\ j \in Nat \ {0}
  BY <1>3, ItemsType, CheckerAssumption DEF ItemIndex
<1>5. ~(i < j) /\ ~(j < i)
  <2>1. ASSUME i < j PROVE FALSE
    <3>1. i \in 1 .. j - 1
      BY <1>4, <2>1
    <3> QED
      BY <1>3, <3>1
  <2>2. ASSUME j < i PROVE FALSE
    <3>1. j \in 1 .. i - 1
      BY <1>4, <2>2
    <3> QED
      BY <1>3, <3>1
  <2> QED
    BY <2>1, <2>2
<1> QED
  BY <1>4, <1>5

LEMMA TaskOfEach ==
  ASSUME TypeOK, NEW p \in Proc, Placed(p), NEW i \in Checkable(p)
  PROVE  \E j \in Tasks(p) : TaskAt(p, j) = TaskAt(p, i)
<1> DEFINE T == {j \in Checkable(p) : TaskAt(p, j) = TaskAt(p, i)}
<1>1. T \subseteq Nat /\ T # {}
  BY ItemsType, CheckerAssumption DEF Checkable, ItemIndex
<1> HIDE DEF T
<1>2. PICK j \in T : \A k \in T : j <= k
  BY <1>1, LeastNat
<1>3. j \in DOMAIN Items(p) /\ IsCheckable(Items(p)[j]) /\ TaskAt(p, j) = TaskAt(p, i)
  BY DEF T, Checkable
<1>4. ASSUME NEW k \in 1 .. j - 1, IsCheckable(Items(p)[k])
      PROVE  TaskAt(p, k) # TaskAt(p, j)
  <2>1. j \in Nat
    BY <1>1
  <2>2. k \in DOMAIN Items(p)
    <3>1. Items(p) \in Seq(Item)
      BY ItemsType
    <3> HIDE DEF T
    <3>2. DOMAIN Items(p) = 1 .. Len(Items(p)) /\ Len(Items(p)) \in Nat
      BY <3>1
    <3> QED
      BY <1>3, <2>1, <3>2
  <2>3. ~(j <= k)
    BY <2>1
  <2>4. k \notin T
    BY <1>2, <2>3
  <2> QED
    BY <1>3, <1>4, <2>2, <2>4 DEF T, Checkable
<1>5. j \in TaskIndices(p, Items(p))
  BY <1>3, <1>4 DEF TaskIndices, TaskAt
<1> QED
  BY <1>3, <1>5 DEF Placed

LEMMA TasksTyped ==
  ASSUME TypeOK, NEW p \in Proc, Placed(p), NEW i \in Tasks(p)
  PROVE  /\ i \in DOMAIN Items(p) /\ i \in ItemIndex /\ TaskAt(p, i) \in Task
         /\ out[p][TaskAt(p, i)] \in Outcome /\ status[p][i] \in Status \ {"none"}
<1>1. i \in DOMAIN Items(p)
  BY DEF Placed, TaskIndices
<1>2. i \in ItemIndex /\ TaskAt(p, i) \in Task
  BY <1>1, TaskAtType
<1> QED
  BY <1>1, <1>2 DEF TypeOK, Tasks, With

(* A process that does not move keeps its place, though time may pass.     *)
LEMMA Undisturbed ==
  ASSUME TypeOK, TypeOK', NEW p \in Proc,
         Placed(p), Concluded(p), Counted(p), Remembered(p),
         UNCHANGED <<at[p], phase[p], status[p], out[p], declined[p], completed[p],
                     memory[p], fetched[p]>>,
         clock' = clock \/ clock' = clock + 1
  PROVE  (Placed(p) /\ Concluded(p) /\ Counted(p) /\ Remembered(p))'
<1>1. UNCHANGED Items(p) /\ \A i : UNCHANGED TaskAt(p, i)
  BY DEF Items, TaskAt
<1>2. \A S : UNCHANGED With(p, S)
  BY DEF With
<1>3. UNCHANGED Tasks(p) /\ UNCHANGED Asking(p) /\ UNCHANGED With(p, Ended)
  BY <1>2 DEF Tasks, Asking
<1>4. Placed(p)'
  BY <1>1, <1>3 DEF Placed
<1>5. Concluded(p)'
  BY <1>1, <1>3 DEF Concluded, Unanswered
<1>6. Counted(p)'
  BY <1>3 DEF Counted
<1>7. clock \in Nat /\ clock' \in Nat /\ MemTTL \in Nat
  BY CheckerAssumption DEF TypeOK, Time
<1>8. \A t \in Task : /\ memory[p][t] # None => memory[p][t].inserted \in Nat
                      /\ fetched[p][t] # None => fetched[p][t] \in Nat
  BY CheckerAssumption DEF TypeOK, MemEntry, Cached, Time
<1>9. \A t \in Task : Kept(p, t)'
  BY <1>7, <1>8 DEF Remembered, Kept
<1>10. ASSUME NEW i \in Asking(p) PROVE Aged(p, TaskAt(p, i))'
  <2>1. i \in Tasks(p)
    BY DEF Asking, Tasks, With, Status, InFlight
  <2>2. TaskAt(p, i) \in Task
    BY <2>1, TasksTyped
  <2>3. Aged(p, TaskAt(p, i)) /\ TaskAt(p, i)' = TaskAt(p, i)
    BY <1>1 DEF Remembered
  <2> QED
    BY <1>7, <1>8, <2>2, <2>3 DEF Aged
<1>11. Remembered(p)'
  BY <1>3, <1>9, <1>10 DEF Remembered
<1> QED
  BY <1>4, <1>5, <1>6, <1>11

InOrder(p) == Placed(p) /\ Concluded(p) /\ Counted(p) /\ Remembered(p)

LEMMA StartManifestOrder ==
  ASSUME TypeOK, TypeOK', NEW p \in Proc, InOrder(p), StartManifest(p)
  PROVE  InOrder(p)'
<1> USE DEF InOrder
<1> DEFINE items == Manifests[p][at[p] + 1]
<1>1. /\ at' = [at EXCEPT ![p] = at[p] + 1]
      /\ phase' = [phase EXCEPT ![p] = "lookup"]
      /\ status' = [status EXCEPT ![p] = [i \in ItemIndex |->
                       IF i \in TaskIndices(p, items) THEN "pending" ELSE "none"]]
      /\ out' = [out EXCEPT ![p] = NoOutcome]
      /\ declined' = [declined EXCEPT ![p] = {}]
      /\ completed' = [completed EXCEPT ![p] = 0]
      /\ UNCHANGED <<clock, memory, fetched>>
  BY DEF StartManifest
<1>2. /\ at'[p] = at[p] + 1 /\ at[p] \in Nat /\ phase'[p] = "lookup"
      /\ out'[p] = NoOutcome /\ declined'[p] = {} /\ completed'[p] = 0
      /\ status'[p] = [i \in ItemIndex |->
                         IF i \in TaskIndices(p, items) THEN "pending" ELSE "none"]
  BY <1>1 DEF TypeOK
<1>3. at'[p] # 0
  BY <1>2
<1>4. Items(p)' = items
  BY <1>2, <1>3 DEF Items
<1>5b. items \in Seq(Item) /\ Len(items) <= MaxItems
  <2>1. /\ Manifests[p] \in Seq(Seq(Item)) /\ at'[p] \in 0 .. Len(Manifests[p])
        /\ \A m \in DOMAIN Manifests[p] : Len(Manifests[p][m]) <= MaxItems
    BY CheckerAssumption DEF TypeOK
  <2>2. at'[p] \in DOMAIN Manifests[p]
    BY <1>3, <2>1
  <2> QED
    BY <1>2, <2>1, <2>2
<1> HIDE DEF items
<1>5. TaskIndices(p, items) \subseteq ItemIndex
  <2>1. MaxItems \in Nat
    BY CheckerAssumption
  <2>2. DOMAIN items \subseteq ItemIndex
    BY <1>5b, <2>1 DEF ItemIndex
  <2> QED
    BY <2>2 DEF TaskIndices
<1>6. \A i \in ItemIndex : status'[p][i] =
          IF i \in TaskIndices(p, items) THEN "pending" ELSE "none"
  BY <1>2
<1>7. Tasks(p)' = TaskIndices(p, items)
  BY <1>5, <1>6 DEF Tasks, With, Status
<1>8. TaskIndices(p, Items(p))' = TaskIndices(p, items)
  BY <1>4 DEF TaskIndices
<1>9. Placed(p)'
  BY <1>2, <1>3, <1>5, <1>6, <1>7, <1>8 DEF Placed, Stands
<1>10. \A t \in Task : out'[p][t].kind = "none"
  BY <1>2 DEF NoOutcome, NotFetched
<1>11. \A i \in Tasks(p)' : TaskAt(p, i)' \in Task
  <2>1. ASSUME NEW i \in Tasks(p)' PROVE TaskOf(p, items[i]) \in Task
    <3>1. i \in DOMAIN items
      BY <1>7 DEF TaskIndices
    <3> QED
      BY <1>5b, <3>1, TaskOfType
  <2>2. \A i : TaskAt(p, i)' = TaskOf(p, items[i])
    BY <1>4 DEF TaskAt
  <2> QED
    BY <2>1, <2>2
<1>12. Concluded(p)'
  <2>1. Unanswered(p)' = {}
    BY <1>10, <1>11 DEF Unanswered
  <2>2. \A i \in Tasks(p)' : status'[p][i] = "pending"
    BY <1>5, <1>6, <1>7
  <2> QED
    BY <1>2, <1>10, <1>11, <2>1, <2>2 DEF Concluded
<1>13. Counted(p)'
  BY <1>2 DEF Counted
<1>14. Remembered(p)'
  <2>1. Asking(p)' = {}
    BY <1>6 DEF Asking, With, InFlight
  <2>2. \A t \in Task : Kept(p, t)'
    BY <1>1 DEF Remembered, Kept
  <2> QED
    BY <2>1, <2>2 DEF Remembered
<1> QED
  BY <1>9, <1>12, <1>13, <1>14

(* One task moves within what its process's phase allows.                  *)
LEMMA Move ==
  ASSUME TypeOK, TypeOK', NEW p \in Proc, Placed(p), NEW i \in DOMAIN Items(p),
         NEW s \in Status \ {"none"}, status[p][i] # "none",
         status' = [status EXCEPT ![p][i] = s], s \in Stands(phase[p]),
         UNCHANGED <<at, phase>>
  PROVE  /\ Placed(p)' /\ i \in Tasks(p) /\ Tasks(p)' = Tasks(p)
         /\ \A j : UNCHANGED TaskAt(p, j)
         /\ status'[p][i] = s
         /\ \A j \in ItemIndex \ {i} : status'[p][j] = status[p][j]
<1>1. i \in ItemIndex
  BY TaskAtType
<1>2. /\ status'[p][i] = s
      /\ \A j \in ItemIndex \ {i} : status'[p][j] = status[p][j]
  BY <1>1 DEF TypeOK
<1>3. UNCHANGED Items(p) /\ \A j : UNCHANGED TaskAt(p, j)
  BY DEF Items, TaskAt
<1>4. i \in Tasks(p)
  BY <1>1 DEF Tasks, With, TypeOK
<1>5. Tasks(p)' = Tasks(p)
  BY <1>1, <1>2, <1>4 DEF Tasks, With
<1>6. TaskIndices(p, Items(p))' = TaskIndices(p, Items(p))
  BY <1>3 DEF TaskIndices
<1>7. \A j \in Tasks(p)' : status'[p][j] \in Stands(phase'[p])
  BY <1>2, <1>5 DEF Placed, Tasks, With
<1>8. Placed(p)'
  BY <1>5, <1>6, <1>7 DEF Placed
<1> QED
  BY <1>2, <1>3, <1>4, <1>5, <1>8

(* A task that moves from one unfinished status to another, or arrives.    *)
LEMMA MoveOn ==
  ASSUME TypeOK, TypeOK', NEW p \in Proc, InOrder(p), NEW i \in DOMAIN Items(p),
         NEW s \in Status \ {"none", "hit", "stored"},
         status[p][i] \in Status \ {"none", "hit", "stored"},
         status' = [status EXCEPT ![p][i] = s], s \in Stands(phase[p]),
         UNCHANGED <<at, phase, out, declined, clock, memory, fetched>>,
         Counted(p)',
         s \in {"queued"} \cup InFlight =>
           Aged(p, TaskAt(p, i))
  PROVE  InOrder(p)'
<1> USE DEF InOrder
<1>1. /\ Placed(p)' /\ i \in Tasks(p) /\ Tasks(p)' = Tasks(p)
      /\ \A j : UNCHANGED TaskAt(p, j)
      /\ status'[p][i] = s
      /\ \A j \in ItemIndex \ {i} : status'[p][j] = status[p][j]
  BY Move
<1>2. Tasks(p) \subseteq ItemIndex
  BY DEF Tasks, With
<1>3. Concluded(p)'
  <2>1. Unanswered(p)' = Unanswered(p)
    BY <1>1 DEF Unanswered
  <2>2. declined'[p] = {TaskAt(p, j)'.key : j \in Unanswered(p)'}
    BY <1>1, <2>1 DEF Concluded
  <2>3. ASSUME NEW j \in Tasks(p)
        PROVE  /\ status'[p][j] = "hit" => out[p][TaskAt(p, j)].kind = "ok"
               /\ status'[p][j] = "stored" => out[p][TaskAt(p, j)].kind # "none"
               /\ status'[p][j] \notin {"hit", "stored"} =>
                      out[p][TaskAt(p, j)].kind = "none"
    <3>1. CASE j = i
      BY <1>1, <3>1 DEF Concluded
    <3>2. CASE j # i
      BY <1>1, <1>2, <3>2 DEF Concluded
    <3> QED
      BY <3>1, <3>2
  <2> QED
    BY <1>1, <2>2, <2>3 DEF Concluded
<1>4. Remembered(p)'
  <2>1. \A t \in Task : Kept(p, t)'
    BY DEF Remembered, Kept
  <2>2. ASSUME NEW j \in Asking(p)' PROVE Aged(p, TaskAt(p, j))'
    <3>1. j \in ItemIndex /\ status'[p][j] \in {"queued"} \cup InFlight
      BY DEF Asking, With
    <3>2. Aged(p, TaskAt(p, j))
      <4>1. CASE j = i
        BY <1>1, <3>1, <4>1
      <4>2. CASE j # i
        BY <1>1, <3>1, <4>2 DEF Remembered, Asking, With
      <4> QED
        BY <4>1, <4>2
    <3>3. TaskAt(p, j)' = TaskAt(p, j)
      BY <1>1
    <3> QED
      BY <3>2, <3>3 DEF Aged
  <2> QED
    BY <2>1, <2>2 DEF Remembered
<1> QED
  BY <1>1, <1>3, <1>4

(* A task that gets its outcome.                                           *)
LEMMA MoveOut ==
  ASSUME TypeOK, TypeOK', NEW p \in Proc, InOrder(p), NEW i \in DOMAIN Items(p),
         NEW s \in {"hit", "stored"}, NEW o \in Outcome,
         status[p][i] \in Status \ {"none", "hit", "stored"},
         status' = [status EXCEPT ![p][i] = s], s \in Stands(phase[p]),
         out' = [out EXCEPT ![p][TaskAt(p, i)] = o],
         s = "hit" => o.kind = "ok", o.kind # "none",
         declined'[p] = IF o.kind = "unanswered"
                        THEN declined[p] \cup {TaskAt(p, i).key} ELSE declined[p],
         UNCHANGED <<at, phase>>
  PROVE  /\ Placed(p)' /\ Concluded(p)'
         /\ i \in Tasks(p) /\ Tasks(p)' = Tasks(p) /\ \A j : UNCHANGED TaskAt(p, j)
         /\ status'[p][i] = s
         /\ \A j \in ItemIndex \ {i} : status'[p][j] = status[p][j]
<1> USE DEF InOrder
<1>0. s \in Status \ {"none"} /\ status[p][i] # "none"
  BY DEF Status
<1>1. /\ Placed(p)' /\ i \in Tasks(p) /\ Tasks(p)' = Tasks(p)
      /\ \A j : UNCHANGED TaskAt(p, j)
      /\ status'[p][i] = s
      /\ \A j \in ItemIndex \ {i} : status'[p][j] = status[p][j]
  BY <1>0, Move
<1>2. Tasks(p) \subseteq ItemIndex
  BY DEF Tasks, With
<1>3. TaskAt(p, i) \in Task /\ \A j \in Tasks(p) : TaskAt(p, j) \in Task
  BY <1>1, TasksTyped
<1>4. /\ out'[p][TaskAt(p, i)] = o
      /\ \A j \in Tasks(p) \ {i} : out'[p][TaskAt(p, j)] = out[p][TaskAt(p, j)]
  <2>1. \A j \in Tasks(p) \ {i} : TaskAt(p, j) # TaskAt(p, i)
    BY <1>1, TasksDiffer
  <2> QED
    BY <1>3, <2>1 DEF TypeOK
<1>5. out[p][TaskAt(p, i)].kind = "none"
  BY <1>1 DEF Concluded
<1>6. Unanswered(p)' = IF o.kind = "unanswered" THEN Unanswered(p) \cup {i}
                                               ELSE Unanswered(p)
  BY <1>1, <1>4, <1>5 DEF Unanswered
<1>7. declined'[p] = {TaskAt(p, j)'.key : j \in Unanswered(p)'}
  <2>1. declined[p] = {TaskAt(p, j).key : j \in Unanswered(p)}
    BY DEF Concluded
  <2>2. CASE o.kind = "unanswered"
    <3>1. declined'[p] = {TaskAt(p, j).key : j \in Unanswered(p) \cup {i}}
      BY <2>1, <2>2
    <3> QED
      BY <1>1, <1>6, <2>2, <3>1
  <2>3. CASE o.kind # "unanswered"
    BY <1>1, <1>6, <2>1, <2>3
  <2> QED
    BY <2>2, <2>3
<1>8. ASSUME NEW j \in Tasks(p)
      PROVE  /\ status'[p][j] = "hit" => out'[p][TaskAt(p, j)].kind = "ok"
             /\ status'[p][j] = "stored" => out'[p][TaskAt(p, j)].kind # "none"
             /\ status'[p][j] \notin {"hit", "stored"} =>
                    out'[p][TaskAt(p, j)].kind = "none"
  <2>1. CASE j = i
    BY <1>1, <1>4, <2>1
  <2>2. CASE j # i
    BY <1>1, <1>2, <1>4, <2>2 DEF Concluded
  <2> QED
    BY <2>1, <2>2
<1>9. Concluded(p)'
  <2>1. \A j \in Tasks(p)' :
          /\ status'[p][j] = "hit" => out'[p][TaskAt(p, j)'].kind = "ok"
          /\ status'[p][j] = "stored" => out'[p][TaskAt(p, j)'].kind # "none"
          /\ status'[p][j] \notin {"hit", "stored"} =>
                 out'[p][TaskAt(p, j)'].kind = "none"
    BY <1>1, <1>8
  <2> QED
    BY <1>7, <2>1, Zenon DEF Concluded
<1> QED
  BY <1>1, <1>9

LEMMA CountStays ==
  ASSUME TypeOK, NEW p \in Proc, Counted(p), NEW i \in ItemIndex,
         NEW s, status' = [status EXCEPT ![p][i] = s],
         status[p][i] \in Ended <=> s \in Ended,
         UNCHANGED <<phase, completed>>
  PROVE  Counted(p)'
<1>1. /\ status'[p][i] = s
      /\ \A j \in ItemIndex \ {i} : status'[p][j] = status[p][j]
  BY DEF TypeOK
<1>2. With(p, Ended)' = With(p, Ended)
  BY <1>1 DEF With
<1> QED
  BY <1>2 DEF Counted

LEMMA CountGrows ==
  ASSUME TypeOK, NEW p \in Proc, Counted(p), NEW i \in ItemIndex,
         NEW s, status' = [status EXCEPT ![p][i] = s],
         status[p][i] \notin Ended, s \in Ended, phase[p] = "fetch",
         UNCHANGED phase, completed' = [completed EXCEPT ![p] = @ + 1]
  PROVE  Counted(p)'
<1>1. /\ status'[p][i] = s
      /\ \A j \in ItemIndex \ {i} : status'[p][j] = status[p][j]
  BY DEF TypeOK
<1> DEFINE before == With(p, Ended)
<1>2. With(p, Ended)' = before \cup {i} /\ i \notin before
  BY <1>1 DEF With
<1>3. IsFiniteSet(before)
  BY WithCardinality
<1>4. completed[p] = Cardinality(before) /\ completed'[p] = completed[p] + 1
  BY DEF Counted, TypeOK
<1> HIDE DEF before
<1>5. Cardinality(before \cup {i}) = Cardinality(before) + 1
  BY <1>2, <1>3, FS_AddElement
<1>6. completed'[p] = Cardinality(With(p, Ended)')
  BY <1>2, <1>4, <1>5
<1> QED
  BY <1>6 DEF Counted

(* A request is under way in the fetch phase alone.                        *)
LEMMA InPool ==
  ASSUME TypeOK, NEW p \in Proc, Placed(p), NEW i \in DOMAIN Items(p),
         status[p][i] \in InFlight
  PROVE  phase[p] = "fetch"
<1>1. i \in Tasks(p)
  BY TaskAtType DEF Tasks, With, Status, InFlight
<1>2. status[p][i] \in Stands(phase[p]) /\ phase[p] \in Phase
  BY <1>1 DEF Placed, TypeOK
<1>a. CASE phase[p] = "idle"
  BY <1>2, <1>a DEF Stands
<1>b. CASE phase[p] = "lookup"
  BY <1>2, <1>b DEF Stands, InFlight
<1>c. CASE phase[p] = "store"
  BY <1>2, <1>c DEF Stands, InFlight, Arrived
<1>d. CASE phase[p] = "reported"
  BY <1>2, <1>d DEF Stands, InFlight
<1>e. CASE phase[p] = "crashed"
  BY <1>2, <1>e DEF Stands
<1> QED
  BY <1>2, <1>a, <1>b, <1>c, <1>d, <1>e DEF Phase

(* What was asked for is asked for again, or for the first time after a    *)
(* lookup that found nothing fresh.                                        *)
LEMMA PoolOrder ==
  ASSUME TypeOK, TypeOK', NEW p \in Proc, InOrder(p), NEW i \in DOMAIN Items(p),
         CacheMiss(p, i) \/ StartCall(p, i) \/ BackOff(p, i) \/ Retry(p, i)
         \/ \E result \in Arrived : Settle(p, i, result)
  PROVE  InOrder(p)'
<1>1. i \in ItemIndex /\ TaskAt(p, i) \in Task
  BY TaskAtType
<1>2. UNCHANGED <<at, phase, out, declined, clock, memory, fetched>>
  BY DEF CacheMiss, StartCall, BackOff, Retry, Settle
<1>3. CASE CacheMiss(p, i)
  <2>1. /\ status[p][i] = "pending" /\ phase[p] = "lookup"
        /\ status' = [status EXCEPT ![p][i] = "queued"]
        /\ UNCHANGED completed /\ MemoryGet(p, TaskAt(p, i)) = None
    BY <1>3 DEF CacheMiss, NextToLookUp
  <2>2. Counted(p)'
    BY <1>1, <1>2, <2>1, CountStays DEF InOrder, Ended, Arrived
  <2>3. Aged(p, TaskAt(p, i))
    <3> DEFINE t == TaskAt(p, i)
    <3>1. memory[p][t] \in MemEntry /\ fetched[p][t] \in Time \cup {None} /\ Kept(p, t)
      BY <1>1 DEF TypeOK, InOrder, Remembered
    <3>2. clock \in Nat /\ MemTTL \in Nat
      BY CheckerAssumption DEF TypeOK, Time
    <3>3. SUFFICES ASSUME fetched[p][t] # None
                   PROVE  fetched[p][t] + MemTTL <= clock
      BY DEF Aged
    <3>4. memory[p][t] # None /\ fetched[p][t] <= memory[p][t].inserted
      BY <3>1, <3>3 DEF Kept
    <3>5. memory[p][t].inserted \in Nat /\ fetched[p][t] \in Nat
      BY <3>1, <3>3, <3>4, CheckerAssumption DEF MemEntry, Cached, Time
    <3>6. clock < memory[p][t].inserted + MemTTL => MemoryGet(p, t) = memory[p][t].answer
      BY <3>4 DEF MemoryGet
    <3>7. memory[p][t].answer # None
      <4>1. memory[p][t].answer \in Answer
        BY <3>1, <3>4 DEF MemEntry, Cached
      <4> QED
        BY <4>1, NothingAssumption
    <3> QED
      BY <2>1, <3>2, <3>4, <3>5, <3>6, <3>7
  <2> QED
    BY <1>2, <2>1, <2>2, <2>3, MoveOn DEF Status, Stands
<1>4. CASE StartCall(p, i)
  <2>1. /\ status[p][i] = "queued" /\ phase[p] = "fetch"
        /\ status' = [status EXCEPT ![p][i] = "calling"] /\ UNCHANGED completed
    BY <1>4 DEF StartCall
  <2>2. Counted(p)'
    BY <1>1, <1>2, <2>1, CountStays DEF InOrder, Ended, Arrived
  <2>3. Aged(p, TaskAt(p, i))
    BY <1>1, <2>1 DEF InOrder, Remembered, Asking, With
  <2> QED
    BY <1>2, <2>1, <2>2, <2>3, MoveOn DEF Status, Stands, InFlight
<1>5. CASE BackOff(p, i)
  <2>1. /\ status[p][i] = "calling"
        /\ status' = [status EXCEPT ![p][i] = "sleeping"] /\ UNCHANGED completed
    BY <1>5 DEF BackOff
  <2>2. phase[p] = "fetch"
    BY <2>1, InPool DEF InOrder, InFlight
  <2>3. Counted(p)'
    BY <1>1, <1>2, <2>1, CountStays DEF InOrder, Ended, Arrived
  <2>4. Aged(p, TaskAt(p, i))
    BY <1>1, <2>1 DEF InOrder, Remembered, Asking, With, InFlight
  <2> QED
    BY <1>2, <2>1, <2>2, <2>3, <2>4, MoveOn DEF Status, Stands, InFlight
<1>6. CASE Retry(p, i)
  <2>1. /\ status[p][i] = "sleeping"
        /\ status' = [status EXCEPT ![p][i] = "calling"] /\ UNCHANGED completed
    BY <1>6 DEF Retry
  <2>2. phase[p] = "fetch"
    BY <2>1, InPool DEF InOrder, InFlight
  <2>3. Counted(p)'
    BY <1>1, <1>2, <2>1, CountStays DEF InOrder, Ended, Arrived
  <2>4. Aged(p, TaskAt(p, i))
    BY <1>1, <2>1 DEF InOrder, Remembered, Asking, With, InFlight
  <2> QED
    BY <1>2, <2>1, <2>2, <2>3, <2>4, MoveOn DEF Status, Stands, InFlight
<1>7. CASE \E result \in Arrived : Settle(p, i, result)
  <2>1. PICK result \in Arrived : Settle(p, i, result)
    BY <1>7
  <2>2. /\ status[p][i] = "calling"
        /\ status' = [status EXCEPT ![p][i] = result]
        /\ completed' = [completed EXCEPT ![p] = @ + 1]
    BY <2>1 DEF Settle
  <2>3. phase[p] = "fetch"
    BY <2>2, InPool DEF InOrder, InFlight
  <2>4. Counted(p)'
    BY <1>1, <1>2, <2>2, <2>3, CountGrows DEF InOrder, Ended, Arrived
  <2>5. result \in Status \ {"none", "hit", "stored"} /\ result \notin {"queued"} \cup InFlight
        /\ result \in Stands(phase[p])
    BY <2>3 DEF Status, Arrived, InFlight, Stands
  <2>6. status[p][i] \in Status \ {"none", "hit", "stored"}
    BY <2>2 DEF Status
  <2> QED
    BY <1>2, <2>2, <2>4, <2>5, <2>6, MoveOn
<1> QED
  BY <1>3, <1>4, <1>5, <1>6, <1>7

(* A lookup that hits: memory keeps what it had, or takes the file's list. *)
LEMMA HitOrder ==
  ASSUME TypeOK, TypeOK', NEW p \in Proc, InOrder(p), NEW i \in DOMAIN Items(p),
         MemoryHit(p, i) \/ DiskHit(p, i)
  PROVE  InOrder(p)'
<1>1. i \in ItemIndex /\ TaskAt(p, i) \in Task
  BY TaskAtType
<1>2. /\ status[p][i] = "pending" /\ phase[p] = "lookup"
      /\ status' = [status EXCEPT ![p][i] = "hit"]
      /\ UNCHANGED <<at, phase, declined, completed, clock, fetched>>
  BY DEF MemoryHit, DiskHit, NextToLookUp
<1>3. PICK answer \in Answer : out' = [out EXCEPT ![p][TaskAt(p, i)] = Served(answer)]
  BY <1>1, CacheTypes DEF MemoryHit, DiskHit
<1>4. Served(answer) \in Outcome /\ Served(answer).kind = "ok"
  BY ServedType DEF Served
<1>5. "hit" \in {"hit", "stored"} /\ "hit" \in Stands(phase[p])
      /\ status[p][i] \in Status \ {"none", "hit", "stored"}
  BY <1>2 DEF Stands, Status
<1>6. declined'[p] = IF Served(answer).kind = "unanswered"
                     THEN declined[p] \cup {TaskAt(p, i).key} ELSE declined[p]
  BY <1>2, <1>4
<1>7. /\ Placed(p)' /\ Concluded(p)'
      /\ i \in Tasks(p) /\ Tasks(p)' = Tasks(p) /\ \A j : UNCHANGED TaskAt(p, j)
      /\ status'[p][i] = "hit"
      /\ \A j \in ItemIndex \ {i} : status'[p][j] = status[p][j]
  BY <1>2, <1>3, <1>4, <1>5, <1>6, MoveOut
<1>8. Counted(p)'
  BY <1>2 DEF InOrder, Counted
<1>9. \A t \in Task : Kept(p, t)'
  <2>1. CASE UNCHANGED memory
    BY <1>2, <2>1 DEF InOrder, Remembered, Kept
  <2>2. CASE \E ans \in Answer : Insert(p, TaskAt(p, i), ans)
    <3>1. PICK ans \in Answer : Insert(p, TaskAt(p, i), ans)
      BY <2>2
    <3> DEFINE entry == [answer |-> ans, inserted |-> clock]
    <3>2. memory'[p] = [memory[p] EXCEPT ![TaskAt(p, i)] = entry]
      BY <1>1, <3>1 DEF Insert, TypeOK
    <3>3. entry \in Cached /\ entry # None /\ entry.inserted = clock
      BY ServedType, NothingAssumption DEF TypeOK, Cached
    <3> HIDE DEF entry
    <3>4. ASSUME NEW t \in Task PROVE Kept(p, t)'
      <4>1. CASE t = TaskAt(p, i)
        <5>1. memory'[p][t] = entry
          BY <3>2, <4>1 DEF TypeOK
        <5>2. clock \in Nat /\ fetched[p][t] \in Time \cup {None} /\ memory[p][t] \in MemEntry
          BY CheckerAssumption DEF TypeOK, Time
        <5>3. Kept(p, t)
          BY DEF InOrder, Remembered
        <5>4. fetched[p][t] # None => fetched[p][t] <= clock
          BY <5>2, <5>3, CheckerAssumption DEF Kept, MemEntry, Cached, Time
        <5> QED
          BY <1>2, <3>3, <5>1, <5>2, <5>4 DEF Kept
      <4>2. CASE t # TaskAt(p, i)
        <5>1. memory'[p][t] = memory[p][t]
          BY <3>2, <4>2 DEF TypeOK
        <5>2. Kept(p, t)
          BY DEF InOrder, Remembered
        <5> QED
          BY <1>2, <5>1, <5>2 DEF Kept
      <4> QED
        BY <4>1, <4>2
    <3> QED
      BY <3>4
  <2> QED
    BY <1>1, <2>1, <2>2, CacheTypes DEF MemoryHit, DiskHit
<1>10. \A j \in Asking(p)' : Aged(p, TaskAt(p, j))'
  <2>1. Asking(p)' \subseteq Asking(p)
    BY <1>7 DEF Asking, With, InFlight
  <2> QED
    BY <1>2, <1>7, <2>1 DEF InOrder, Remembered, Aged
<1> QED
  BY <1>7, <1>8, <1>9, <1>10 DEF InOrder, Remembered

(* The phase moves on, over the same tasks.                                *)
LEMMA TurnOrder ==
  ASSUME TypeOK, TypeOK', NEW p \in Proc, InOrder(p),
         BeginFetching(p) \/ BeginStoring(p) \/ EndPut(p) \/ Report(p)
  PROVE  InOrder(p)'
<1>1. UNCHANGED <<at, status, out, declined, clock, memory, fetched>>
  BY DEF BeginFetching, BeginStoring, EndPut, Report
<1>2. /\ UNCHANGED Items(p) /\ \A j : UNCHANGED TaskAt(p, j)
      /\ \A S : UNCHANGED With(p, S)
  BY <1>1 DEF Items, TaskAt, With
<1>3. UNCHANGED Tasks(p) /\ UNCHANGED TaskIndices(p, Items(p))
  BY <1>2 DEF Tasks, TaskIndices
<1>4. Placed(p)'
  <2>1. \A i \in Tasks(p) : i \in ItemIndex /\ status[p][i] \in Stands(phase[p])
    BY DEF InOrder, Placed, Tasks, With
  <2>2. CASE BeginFetching(p)
    <3>1. phase[p] = "lookup" /\ phase'[p] = "fetch" /\ With(p, {"pending"}) = {}
      BY <2>2 DEF BeginFetching, TypeOK
    <3>2. \A i \in Tasks(p) : status[p][i] \in Stands("fetch")
      BY <2>1, <3>1 DEF With, Stands
    <3> QED
      BY <1>1, <1>3, <3>1, <3>2 DEF InOrder, Placed
  <2>3. CASE BeginStoring(p)
    <3>1. /\ phase[p] = "fetch" /\ phase'[p] = "store"
          /\ With(p, {"queued"} \cup InFlight) = {}
      BY <2>3 DEF BeginStoring, TypeOK
    <3>2. \A i \in Tasks(p) : status[p][i] \in Stands("store")
      BY <2>1, <3>1 DEF With, Stands
    <3> QED
      BY <1>1, <1>3, <3>1, <3>2 DEF InOrder, Placed
  <2>4. CASE EndPut(p)
    BY <1>1, <1>3, <2>4 DEF EndPut, InOrder, Placed
  <2>5. CASE Report(p)
    <3>1. phase[p] = "store" /\ phase'[p] = "reported" /\ With(p, Arrived) = {}
      BY <2>5 DEF Report, TypeOK
    <3>2. \A i \in Tasks(p) : status[p][i] \in Stands("reported")
      BY <2>1, <3>1 DEF With, Stands
    <3> QED
      BY <1>1, <1>3, <3>1, <3>2 DEF InOrder, Placed
  <2> QED
    BY <2>2, <2>3, <2>4, <2>5
<1>5. Concluded(p)'
  BY <1>1, <1>2, <1>3 DEF InOrder, Concluded, Unanswered
<1>6. Counted(p)'
  <2>1. CASE BeginFetching(p)
    <3>1. /\ phase[p] = "lookup" /\ phase'[p] = "fetch"
          /\ completed'[p] = Cardinality(With(p, {"hit"}))
      BY <2>1 DEF BeginFetching, TypeOK
    <3>2. With(p, Ended) = With(p, {"hit"})
      <4>1. ASSUME NEW i \in With(p, Ended) PROVE status[p][i] = "hit"
        <5>1. i \in Tasks(p) /\ status[p][i] \in Ended
          BY DEF With, Tasks, Ended, Arrived, Status
        <5>2. status[p][i] \in {"pending", "hit", "queued"}
          BY <3>1, <5>1 DEF InOrder, Placed, Stands
        <5> QED
          BY <5>1, <5>2 DEF Ended, Arrived
      <4> QED
        BY <4>1 DEF With, Ended
    <3> QED
      BY <1>2, <3>1, <3>2 DEF Counted
  <2>2. CASE BeginStoring(p)
    BY <1>2, <2>2 DEF BeginStoring, InOrder, Counted, TypeOK
  <2>3. CASE EndPut(p)
    BY <1>2, <2>3 DEF EndPut, InOrder, Counted
  <2>4. CASE Report(p)
    BY <1>2, <2>4 DEF Report, InOrder, Counted, TypeOK
  <2> QED
    BY <2>1, <2>2, <2>3, <2>4
<1>7. Remembered(p)'
  BY <1>1, <1>2 DEF InOrder, Remembered, Asking, Kept, Aged
<1> QED
  BY <1>4, <1>5, <1>6, <1>7 DEF InOrder

(* In the store phase nothing is being asked for.                          *)
LEMMA StoreAsksNothing ==
  ASSUME TypeOK, NEW p \in Proc, Placed(p), phase[p] = "store"
  PROVE  Asking(p) = {}
<1>1. \A i \in Asking(p) : /\ i \in Tasks(p)
                           /\ status[p][i] \in {"queued", "calling", "sleeping"}
  BY DEF Asking, Tasks, With, Status, InFlight
<1>2. \A i \in Tasks(p) : status[p][i] \in {"hit", "stored", "ok", "absent", "unanswered"}
  BY DEF Placed, Stands, Arrived
<1> QED
  BY <1>1, <1>2

LEMMA StoreOrder ==
  ASSUME TypeOK, TypeOK', NEW p \in Proc, InOrder(p), NEW i \in DOMAIN Items(p),
         StoreAnswer(p, i) \/ StoreFailure(p, i)
  PROVE  InOrder(p)'
<1>1. i \in ItemIndex /\ TaskAt(p, i) \in Task
  BY TaskAtType
<1>2. /\ status[p][i] \in Arrived /\ phase[p] = "store"
      /\ status' = [status EXCEPT ![p][i] = "stored"]
      /\ UNCHANGED <<at, phase, completed, clock>>
  BY DEF StoreAnswer, StoreFailure, Arrived
<1>3. "stored" \in {"hit", "stored"} /\ "stored" \in Stands(phase[p])
      /\ status[p][i] \in Status \ {"none", "hit", "stored"}
  BY <1>2 DEF Stands, Status, Arrived
<1>4. PICK o \in Outcome :
        /\ out' = [out EXCEPT ![p][TaskAt(p, i)] = o] /\ o.kind # "none"
        /\ declined'[p] = IF o.kind = "unanswered"
                          THEN declined[p] \cup {TaskAt(p, i).key} ELSE declined[p]
  <2>1. CASE StoreAnswer(p, i)
    <3> DEFINE answer == [from |-> RouteItem(p, Items(p)[i]).from,
                          of |-> TaskAt(p, i).name, stored |-> clock]
    <3>1. answer \in Answer
      BY <1>1, TaskAtType, RouteType DEF Answer, Task, TypeOK
    <3>2. Served(answer) \in Outcome /\ Served(answer).kind = "ok"
      BY <3>1, ServedType DEF Served
    <3>3. out' = [out EXCEPT ![p][TaskAt(p, i)] = Served(answer)] /\ UNCHANGED declined
      BY <2>1 DEF StoreAnswer
    <3> QED
      BY <3>2, <3>3
  <2>2. CASE StoreFailure(p, i)
    <3> DEFINE o == [kind |-> status[p][i]]
    <3>1. status[p][i] \in {"absent", "unanswered"}
      BY <2>2 DEF StoreFailure
    <3>2. o \in Outcome /\ o.kind = status[p][i] /\ o.kind # "none"
      BY <3>1 DEF Outcome
    <3>3. /\ out' = [out EXCEPT ![p][TaskAt(p, i)] = o]
          /\ declined'[p] = IF status[p][i] = "unanswered"
                            THEN declined[p] \cup {TaskAt(p, i).key} ELSE declined[p]
      BY <2>2 DEF StoreFailure, TypeOK
    <3> QED
      BY <3>2, <3>3
  <2> QED
    BY <2>1, <2>2
<1>5. /\ Placed(p)' /\ Concluded(p)'
      /\ i \in Tasks(p) /\ Tasks(p)' = Tasks(p) /\ \A j : UNCHANGED TaskAt(p, j)
      /\ status'[p][i] = "stored"
      /\ \A j \in ItemIndex \ {i} : status'[p][j] = status[p][j]
  <2>1. UNCHANGED <<at, phase>> /\ ("stored" = "hit" => o.kind = "ok")
    BY <1>2
  <2> QED
    BY <1>2, <1>3, <1>4, <2>1, MoveOut
<1>6. Counted(p)'
  BY <1>1, <1>2, CountStays DEF InOrder, Ended
<1>7. \A t \in Task : Kept(p, t)'
  <2>1. CASE StoreFailure(p, i)
    BY <2>1 DEF StoreFailure, InOrder, Remembered, Kept
  <2>2. CASE StoreAnswer(p, i)
    <3> DEFINE answer == [from |-> RouteItem(p, Items(p)[i]).from,
                          of |-> TaskAt(p, i).name, stored |-> clock]
               entry == [answer |-> answer, inserted |-> clock]
    <3>1. /\ memory' = [memory EXCEPT ![p][TaskAt(p, i)] = entry]
          /\ fetched' = [fetched EXCEPT ![p][TaskAt(p, i)] = clock]
      BY <2>2 DEF StoreAnswer, Insert
    <3>2. entry \in Cached /\ entry # None /\ entry.inserted = clock /\ clock \in Nat
      <4>1. answer \in Answer
        BY <1>1, TaskAtType, RouteType DEF Answer, Task, TypeOK
      <4> HIDE DEF answer
      <4> QED
        BY <4>1, NothingAssumption, CheckerAssumption DEF TypeOK, Cached, Time
    <3> HIDE DEF entry
    <3>3. ASSUME NEW t \in Task PROVE Kept(p, t)'
      <4>1. CASE t = TaskAt(p, i)
        <5>1. memory'[p][t] = entry /\ fetched'[p][t] = clock
          BY <3>1, <4>1 DEF TypeOK
        <5> QED
          BY <1>2, <3>2, <5>1 DEF Kept
      <4>2. CASE t # TaskAt(p, i)
        <5>1. memory'[p][t] = memory[p][t] /\ fetched'[p][t] = fetched[p][t]
          BY <3>1, <4>2 DEF TypeOK
        <5>2. Kept(p, t)
          BY DEF InOrder, Remembered
        <5> QED
          BY <1>2, <5>1, <5>2 DEF Kept
      <4> QED
        BY <4>1, <4>2
    <3> QED
      BY <3>3
  <2> QED
    BY <2>1, <2>2
<1>8. Asking(p)' = {}
  <2>1. phase'[p] = "store" /\ Placed(p)'
    BY <1>2, <1>5
  <2>2. \A j \in Asking(p)' : j \in Asking(p)
    BY <1>5 DEF Asking, With, InFlight
  <2> QED
    BY <1>2, <2>2, StoreAsksNothing DEF InOrder
<1> QED
  BY <1>5, <1>6, <1>7, <1>8 DEF InOrder, Remembered

(* A kill forgets everything; a restart starts from nothing.               *)
LEMMA KillOrder ==
  ASSUME TypeOK, TypeOK', NEW p \in Proc, InOrder(p), Crash(p) \/ Restart(p)
  PROVE  InOrder(p)'
<1>1. CASE Crash(p)
  <2>1. /\ at'[p] = 0 /\ phase'[p] = "crashed" /\ status'[p] = NoStatus
        /\ out'[p] = NoOutcome /\ declined'[p] = {} /\ completed'[p] = 0
        /\ memory'[p] = [t \in Task |-> None] /\ fetched'[p] = [t \in Task |-> None]
    BY <1>1 DEF Crash, TypeOK
  <2>2. Tasks(p)' = {} /\ Asking(p)' = {}
    BY <2>1 DEF Tasks, Asking, With, NoStatus, InFlight
  <2>3. TaskIndices(p, Items(p))' = {}
    <3>1. DOMAIN Items(p)' = {}
      BY <2>1 DEF Items
    <3> QED
      BY <3>1 DEF TaskIndices
  <2>4. Placed(p)'
    BY <2>1, <2>2, <2>3 DEF Placed
  <2>5. Concluded(p)'
    BY <2>1, <2>2 DEF Concluded, Unanswered
  <2>6. Counted(p)'
    BY <2>1 DEF Counted
  <2>7. Remembered(p)'
    BY <2>1, <2>2 DEF Remembered, Kept
  <2> QED
    BY <2>4, <2>5, <2>6, <2>7 DEF InOrder
<1>2. CASE Restart(p)
  <2>1. /\ UNCHANGED <<at, status, out, declined, completed, clock, memory, fetched>>
        /\ phase[p] = "crashed" /\ phase'[p] = "idle"
    BY <1>2 DEF Restart, TypeOK
  <2>2. /\ UNCHANGED Items(p) /\ \A j : UNCHANGED TaskAt(p, j)
        /\ \A S : UNCHANGED With(p, S)
    BY <2>1 DEF Items, TaskAt, With
  <2>3. UNCHANGED Tasks(p) /\ UNCHANGED TaskIndices(p, Items(p))
    BY <2>2 DEF Tasks, TaskIndices
  <2>4. Tasks(p) = {}
    BY <2>1 DEF InOrder, Placed, Stands
  <2>5. Placed(p)'
    BY <2>1, <2>3, <2>4 DEF InOrder, Placed
  <2>6. Concluded(p)'
    BY <2>1, <2>2, <2>3 DEF InOrder, Concluded, Unanswered
  <2>7. Counted(p)'
    BY <2>1 DEF InOrder, Counted
  <2>8. Remembered(p)'
    BY <2>1, <2>2 DEF InOrder, Remembered, Asking, Kept, Aged
  <2> QED
    BY <2>5, <2>6, <2>7, <2>8 DEF InOrder
<1> QED
  BY <1>1, <1>2

(* Processes share the files alone.                                        *)
LEMMA OthersStay ==
  ASSUME TypeOK, NEW p \in Proc, NEW q \in Proc, q # p,
         Step(q) \/ Crash(q) \/ Restart(q)
  PROVE  /\ UNCHANGED <<at[p], phase[p], status[p], out[p], declined[p], completed[p],
                        memory[p], fetched[p]>>
         /\ UNCHANGED clock
<1>1. CASE Crash(q) \/ Restart(q)
  BY <1>1 DEF Crash, Restart, TypeOK
<1>2. CASE StartManifest(q) \/ BeginFetching(q) \/ BeginStoring(q) \/ EndPut(q)
           \/ Report(q)
  BY <1>2 DEF StartManifest, BeginFetching, BeginStoring, EndPut, Report, TypeOK
<1>3. ASSUME NEW i \in DOMAIN Items(q), TaskStep(q, i)
      PROVE  /\ UNCHANGED <<at[p], phase[p], status[p], out[p], declined[p],
                            completed[p], memory[p], fetched[p]>>
             /\ UNCHANGED clock
  <2>1. CASE MemoryHit(q, i) \/ DiskHit(q, i) \/ CacheMiss(q, i)
    BY <2>1 DEF MemoryHit, DiskHit, CacheMiss, Insert, TypeOK
  <2>2. CASE StartCall(q, i) \/ BackOff(q, i) \/ Retry(q, i)
             \/ \E result \in Arrived : Settle(q, i, result)
    BY <2>2 DEF StartCall, BackOff, Retry, Settle, TypeOK
  <2>3. CASE StoreAnswer(q, i)
    BY <2>3 DEF StoreAnswer, Insert, TypeOK
  <2>4. CASE StoreFailure(q, i)
    BY <2>4 DEF StoreFailure, TypeOK
  <2> QED
    BY <1>3, <2>1, <2>2, <2>3, <2>4 DEF TaskStep
<1> QED
  BY <1>1, <1>2, <1>3 DEF Step

LEMMA OrderStep ==
  ASSUME TypeOK, TypeOK', TaskInv, [Next]_vars
  PROVE  TaskInv'
<1>1. ASSUME NEW p \in Proc PROVE InOrder(p)'
  <2>1. InOrder(p)
    BY DEF TaskInv, InOrder
  <2>2. ASSUME NEW q \in Proc, Step(q) \/ Crash(q) \/ Restart(q)
        PROVE  InOrder(p)'
    <3>1. CASE q # p
      BY <2>1, <2>2, <3>1, OthersStay, Undisturbed DEF InOrder
    <3>2. CASE q = p
      <4>1. CASE Crash(p) \/ Restart(p)
        BY <2>1, <4>1, KillOrder
      <4>2. CASE StartManifest(p)
        BY <2>1, <4>2, StartManifestOrder
      <4>3. CASE BeginFetching(p) \/ BeginStoring(p) \/ EndPut(p) \/ Report(p)
        BY <2>1, <4>3, TurnOrder
      <4>4. ASSUME NEW i \in DOMAIN Items(p), TaskStep(p, i) PROVE InOrder(p)'
        <5>1. CASE MemoryHit(p, i) \/ DiskHit(p, i)
          BY <2>1, <5>1, HitOrder
        <5>2. CASE StoreAnswer(p, i) \/ StoreFailure(p, i)
          BY <2>1, <5>2, StoreOrder
        <5>3. CASE CacheMiss(p, i) \/ StartCall(p, i) \/ BackOff(p, i) \/ Retry(p, i)
                   \/ \E result \in Arrived : Settle(p, i, result)
          BY <2>1, <5>3, PoolOrder
        <5> QED
          BY <4>4, <5>1, <5>2, <5>3 DEF TaskStep
      <4> QED
        BY <2>2, <3>2, <4>1, <4>2, <4>3, <4>4 DEF Step
    <3> QED
      BY <3>1, <3>2
  <2>3. CASE Tick
    BY <2>1, <2>3, Undisturbed DEF InOrder, Tick
  <2>4. CASE UNCHANGED vars
    BY <2>1, <2>4, Undisturbed DEF InOrder, vars
  <2> QED
    BY <2>2, <2>3, <2>4 DEF Next, AllFinished
<1> QED
  BY <1>1 DEF TaskInv, InOrder

LEMMA OrderInit == Init => TaskInv
<1> SUFFICES ASSUME Init, NEW p \in Proc PROVE InOrder(p)
  BY DEF TaskInv, InOrder
<1>1. /\ at[p] = 0 /\ phase[p] = "idle" /\ status[p] = NoStatus
      /\ out[p] = NoOutcome /\ declined[p] = {} /\ completed[p] = 0
      /\ memory[p] = [t \in Task |-> None] /\ fetched[p] = [t \in Task |-> None]
  BY DEF Init
<1>2. Tasks(p) = {} /\ Asking(p) = {}
  BY <1>1 DEF Tasks, Asking, With, NoStatus, InFlight
<1>3. Placed(p)
  <2>1. DOMAIN Items(p) = {}
    BY <1>1 DEF Items
  <2> QED
    BY <1>1, <1>2, <2>1 DEF Placed, TaskIndices
<1>4. Concluded(p)
  BY <1>1, <1>2 DEF Concluded, Unanswered
<1>5. Counted(p)
  BY <1>1 DEF Counted
<1>6. Remembered(p)
  BY <1>1, <1>2 DEF Remembered, Kept
<1> QED
  BY <1>3, <1>4, <1>5, <1>6 DEF InOrder

LEMMA TasksInOrder == Spec => [](TypeOK /\ TaskInv)
<1>1. Init => TaskInv
  BY OrderInit
<1>2. TypeOK /\ TypeOK' /\ TaskInv /\ [Next]_vars => TaskInv'
  BY OrderStep
<1> QED
  BY <1>1, <1>2, TypeCorrect, PTL DEF Spec

LEMMA AnsweredNow == TypeOK /\ TaskInv => EveryItemAnswered
<1> SUFFICES ASSUME TypeOK, TaskInv, NEW p \in Proc
             PROVE  LET total == Cardinality(With(p, Status \ {"none"})) IN
                    /\ phase[p] = "reported" =>
                         \A i \in Checkable(p) : out[p][TaskAt(p, i)] # NotFetched
                    /\ completed[p] <= total
                    /\ phase[p] \in {"store", "reported"} => completed[p] = total
                    /\ phase[p] = "reported" =>
                         declined[p] = {TaskAt(p, i).key : i \in
                           {j \in Checkable(p) :
                              out[p][TaskAt(p, j)].kind = "unanswered"}}
  BY DEF EveryItemAnswered
<1>1. Placed(p) /\ Concluded(p) /\ Counted(p)
  BY DEF TaskInv
<1>2. ASSUME phase[p] = "reported", NEW i \in Checkable(p)
      PROVE  out[p][TaskAt(p, i)] # NotFetched
  <2>1. PICK j \in Tasks(p) : TaskAt(p, j) = TaskAt(p, i)
    BY <1>1, TaskOfEach
  <2>2. status[p][j] \in {"hit", "stored"}
    BY <1>1, <1>2, <2>1 DEF Placed, Stands
  <2>3. out[p][TaskAt(p, j)].kind # "none"
    BY <1>1, <2>1, <2>2 DEF Concluded
  <2> QED
    BY <2>1, <2>3 DEF NotFetched
<1>3. /\ With(p, Ended) \subseteq Tasks(p)
      /\ phase[p] \in {"store", "reported"} => With(p, Ended) = Tasks(p)
  <2>1. With(p, Ended) \subseteq Tasks(p)
    BY DEF With, Tasks, Ended, Arrived, Status
  <2>2. ASSUME phase[p] \in {"store", "reported"}, NEW i \in Tasks(p)
        PROVE  i \in With(p, Ended)
    <3>1. status[p][i] \in Ended
      BY <1>1, <2>2 DEF Placed, Stands, Ended
    <3> QED
      BY <3>1 DEF With, Tasks
  <2> QED
    BY <2>1, <2>2
<1>4. /\ completed[p] <= Cardinality(Tasks(p))
      /\ phase[p] \in {"store", "reported"} => completed[p] = Cardinality(Tasks(p))
  <2>1. /\ IsFiniteSet(Tasks(p)) /\ Cardinality(Tasks(p)) \in Nat
        /\ Cardinality(With(p, Ended)) \in Nat
    BY WithCardinality DEF Tasks
  <2>2. Cardinality(With(p, Ended)) <= Cardinality(Tasks(p))
    BY <1>3, <2>1, FS_Subset
  <2>3. \/ completed[p] = Cardinality(With(p, Ended))
        \/ completed[p] = 0 /\ phase[p] \notin {"store", "reported"}
    BY <1>1 DEF Counted
  <2> QED
    BY <1>3, <2>1, <2>2, <2>3
<1>5. ASSUME phase[p] = "reported"
      PROVE  declined[p] = {TaskAt(p, i).key : i \in
                 {j \in Checkable(p) : out[p][TaskAt(p, j)].kind = "unanswered"}}
  <2> DEFINE U == {j \in Checkable(p) : out[p][TaskAt(p, j)].kind = "unanswered"}
  <2>1. Unanswered(p) \subseteq U
    BY <1>1 DEF Unanswered, Placed, TaskIndices, Checkable
  <2>2. ASSUME NEW i \in U
        PROVE  \E j \in Unanswered(p) : TaskAt(p, j).key = TaskAt(p, i).key
    <3>1. PICK j \in Tasks(p) : TaskAt(p, j) = TaskAt(p, i)
      BY <1>1, TaskOfEach
    <3> QED
      BY <3>1 DEF Unanswered
  <2>3. declined[p] = {TaskAt(p, i).key : i \in Unanswered(p)}
    BY <1>1 DEF Concluded
  <2> HIDE DEF U
  <2>4. {TaskAt(p, i).key : i \in Unanswered(p)} = {TaskAt(p, i).key : i \in U}
    BY <2>1, <2>2
  <2> QED
    BY <2>3, <2>4 DEF U
<1> QED
  BY <1>2, <1>4, <1>5 DEF Tasks

(* No row of a report reads "not fetched", the progress counter never      *)
(* passes its total and ends at it, and the routes named unreachable are   *)
(* those of the dependencies nobody answered for.                          *)
THEOREM NobodyIsForgotten == Spec => []EveryItemAnswered
<1>1. TypeOK /\ TaskInv => EveryItemAnswered
  BY AnsweredNow
<1> QED
  BY <1>1, TasksInOrder, PTL

(* A registry is asked once per package and manifest, and not again while  *)
(* its answer is still in memory.                                          *)
THEOREM NobodyIsAskedTwice == Spec => []OneRequestPerPackage
<1>1. TypeOK /\ TaskInv => OneRequestPerPackage
  <2> SUFFICES ASSUME TypeOK, TaskInv, NEW p \in Proc, NEW i \in Asking(p)
               PROVE  /\ \A j \in Asking(p) : TaskAt(p, i) = TaskAt(p, j) => i = j
                      /\ fetched[p][TaskAt(p, i)] # None
                           => fetched[p][TaskAt(p, i)] + MemTTL <= clock
    BY DEF OneRequestPerPackage, Asking
  <2>1. Placed(p) /\ Remembered(p)
    BY DEF TaskInv
  <2>2. Asking(p) \subseteq Tasks(p)
    BY DEF Asking, Tasks, With, Status, InFlight
  <2>3. \A j \in Asking(p) : TaskAt(p, i) = TaskAt(p, j) => i = j
    BY <2>1, <2>2, TasksDiffer
  <2> QED
    BY <2>1, <2>3 DEF Remembered, Aged
<1> QED
  BY <1>1, TasksInOrder, PTL

(***************************************************************************)
(* The refinement of VersionService.  A task is a question until it is hit *)
(* or stored; the steps that settle one are those that give it an outcome, *)
(* and everything else a process does is invisible.                        *)
(***************************************************************************)
Open == Status \ {"none", "hit", "stored"}

Asked == [p \in Proc |-> OpenQuestions(p)]
Shown == [p \in Proc |-> [t \in Task |-> ReplyOf(out[p][t])]]

LEMMA SameQuestions ==
  ASSUME NEW p \in Proc, at'[p] = at[p], With(p, Open)' = With(p, Open)
  PROVE  OpenQuestions(p)' = OpenQuestions(p)
<1>1. \A i : TaskAt(p, i)' = TaskAt(p, i)
  BY DEF TaskAt, Items
<1> QED
  BY <1>1 DEF OpenQuestions, Open

LEMMA Invisible ==
  ASSUME \A p \in Proc : at'[p] = at[p] /\ With(p, Open)' = With(p, Open),
         UNCHANGED <<out, declined>>
  PROVE  UNCHANGED Service!vars
<1>1. Asked' = Asked
  BY SameQuestions DEF Asked
<1>2. Shown' = Shown
  BY DEF Shown
<1> QED
  BY <1>1, <1>2 DEF Service!vars, Asked, Shown

(* The open tasks of a process are questions, and no two the same one.     *)
LEMMA OpenTasks ==
  ASSUME TypeOK, NEW p \in Proc, Placed(p)
  PROVE  /\ With(p, Open) \subseteq Tasks(p)
         /\ OpenQuestions(p) \subseteq Task
<1>1. With(p, Open) \subseteq Tasks(p)
  BY DEF With, Tasks, Open
<1> QED
  BY <1>1, TasksTyped DEF OpenQuestions, Open

LEMMA Gives ==
  ASSUME TypeOK, NEW p \in Proc, Placed(p), NEW i \in DOMAIN Items(p),
         NEW s \in {"hit", "stored"}, NEW o \in Outcome, status[p][i] \in Open,
         status' = [status EXCEPT ![p][i] = s], UNCHANGED at,
         out' = [out EXCEPT ![p][TaskAt(p, i)] = o]
  PROVE  Service!Give(p, TaskAt(p, i), ReplyOf(o))
<1> DEFINE t == TaskAt(p, i)
<1>1. i \in ItemIndex /\ t \in Task
  BY TaskAtType
<1>2. /\ status'[p][i] = s
      /\ \A j \in ItemIndex \ {i} : status'[p][j] = status[p][j]
      /\ \A q \in Proc \ {p} : status'[q] = status[q]
  BY <1>1 DEF TypeOK
<1>3. With(p, Open)' = With(p, Open) \ {i} /\ i \in With(p, Open)
  BY <1>1, <1>2 DEF With, Open
<1>4. \A j : TaskAt(p, j)' = TaskAt(p, j)
  BY DEF TaskAt, Items
<1>5. OpenQuestions(p)' = OpenQuestions(p) \ {t} /\ t \in OpenQuestions(p)
  <2>1. \A j \in With(p, Open) : j # i => TaskAt(p, j) # t
    BY <1>3, OpenTasks, TasksDiffer
  <2>2. OpenQuestions(p) = {TaskAt(p, j) : j \in With(p, Open)}
    BY DEF OpenQuestions, Open
  <2>3. OpenQuestions(p)' = {TaskAt(p, j) : j \in With(p, Open) \ {i}}
    BY <1>3, <1>4 DEF OpenQuestions, Open
  <2> HIDE DEF t
  <2>4. t = TaskAt(p, i)
    BY DEF t
  <2> QED
    BY <1>3, <2>1, <2>2, <2>3, <2>4
<1>6. Asked' = [Asked EXCEPT ![p] = @ \ {t}] /\ t \in Asked[p]
  <2>1. ASSUME NEW q \in Proc, q # p PROVE OpenQuestions(q)' = OpenQuestions(q)
    <3>1. With(q, Open)' = With(q, Open) /\ at'[q] = at[q]
      BY <1>2, <2>1 DEF With
    <3> QED
      BY <3>1, SameQuestions
  <2> HIDE DEF t
  <2> QED
    BY <1>5, <2>1 DEF Asked
<1>7. Shown' = [Shown EXCEPT ![p][t] = ReplyOf(o)]
  <2> HIDE DEF t
  <2>1. out' = [out EXCEPT ![p][t] = o]
    BY DEF t
  <2> QED
    BY <1>1, <2>1, ZenonT(40) DEF Shown, TypeOK
<1> QED
  BY <1>6, <1>7 DEF Service!Give, Asked, Shown

(* What a hit serves is as old as both caches allow, and never from the    *)
(* future; and it is the answer of the registry the task was routed to.    *)
LEMMA HitAge ==
  ASSUME TypeOK, AgeInv, NEW p \in Proc, NEW t \in Task, Kept(p, t),
         NEW answer \in Answer, answer \in {MemoryGet(p, t), DiskGet(p, t)}
  PROVE  clock - answer.stored \in 0 .. (DiskTTL + MemTTL) - 1
<1>1. clock \in Nat /\ answer.stored \in Nat /\ answer # None
      /\ DiskTTL \in Nat /\ MemTTL \in Nat
  BY NothingAssumption, CheckerAssumption DEF TypeOK, Time, Answer
<1>2. clock - answer.stored < DiskTTL + MemTTL
  <2>1. OutcomeAge(Served(answer))
    BY <1>1, MemoryGetAge, DiskGetAge
  <2> QED
    BY <2>1 DEF OutcomeAge, Served
<1>3. answer.stored <= clock
  <2>1. CASE answer = MemoryGet(p, t)
    <3>1. /\ memory[p][t] # None /\ memory[p][t].answer = answer
          /\ memory[p][t] \in MemEntry
      BY <1>1, <2>1 DEF MemoryGet, TypeOK
    <3>2. /\ answer.stored <= memory[p][t].inserted
          /\ memory[p][t].inserted <= clock
      BY <3>1 DEF AgeInv, MemoryAge, Kept
    <3>3. memory[p][t].inserted \in Nat
      BY <3>1, CheckerAssumption DEF MemEntry, Cached, Time
    <3> QED
      BY <1>1, <3>2, <3>3
  <2>2. CASE answer = DiskGet(p, t)
    <3> DEFINE file == disk[PathOf(t)]
    <3>1. file # None /\ file # Torn /\ file.answer = answer
      BY <1>1, <2>2 DEF DiskGet
    <3>2. FileAge(file) /\ NotAhead(file, clock)
      BY PathType DEF AgeInv
    <3> QED
      BY <3>1, <3>2 DEF FileAge, NotAhead
  <2> QED
    BY <2>1, <2>2
<1> QED
  BY <1>1, <1>2, <1>3

LEMMA Answers ==
  ASSUME NEW p \in Proc, NEW t \in Task, NEW answer \in Answer,
         answer.from = HomeOf(p, t), answer.of = t.name,
         clock - answer.stored \in 0 .. (DiskTTL + MemTTL) - 1,
         Service!Give(p, t, ReplyOf(Served(answer))), declined' = declined
  PROVE  Service!Answer(p, t)
<1> DEFINE age == clock - answer.stored
<1>1. ReplyOf(Served(answer)) =
        [kind |-> "ok", from |-> HomeOf(p, t), of |-> t.name, age |-> age]
  BY DEF ReplyOf, Served
<1> HIDE DEF age
<1>2. age \in 0 .. (DiskTTL + MemTTL) - 1
  BY DEF age
<1>3. \E a \in 0 .. (DiskTTL + MemTTL) - 1 :
        Service!Give(p, t, [kind |-> "ok", from |-> HomeOf(p, t), of |-> t.name,
                            age |-> a])
  BY <1>1, <1>2
<1> QED
  BY <1>3 DEF Service!Answer
QuestionsTyped == \A p \in Proc : OpenQuestions(p) \subseteq Task

LEMMA QuestionsTypedNow == TypeOK /\ TaskInv => QuestionsTyped
BY OpenTasks DEF QuestionsTyped, TaskInv

LEMMA QuestionsTypedNext == TypeOK' /\ TaskInv' => QuestionsTyped'
BY QuestionsTypedNow, PTL

(* Each step of a process is one of the service's, or invisible.           *)
LEMMA StartManifestAsks ==
  ASSUME TypeOK, TypeOK', TaskInv, TaskInv', NEW p \in Proc, StartManifest(p)
  PROVE  Service!Ask(p)
<1>1. Placed(p)
  BY DEF TaskInv
<1>2. OpenQuestions(p) = {}
  <2>1. phase[p] \in {"idle", "reported"}
    BY DEF StartManifest
  <2>2. \A i \in Tasks(p) : status[p][i] \notin Open
    BY <1>1, <2>1 DEF Placed, Stands, Open
  <2>3. With(p, Open) = {}
    BY <1>1, <2>2, OpenTasks DEF With
  <2> QED
    BY <2>3 DEF OpenQuestions, Open
<1>3. \A q \in Proc : OpenQuestions(q)' \subseteq Task
  BY QuestionsTypedNext DEF QuestionsTyped
<1>4. Asked' \in [Proc -> SUBSET Task]
  BY <1>3 DEF Asked
<1>5. ASSUME NEW q \in Proc \ {p} PROVE Asked'[q] = Asked[q]
  <2>1. at'[q] = at[q] /\ status'[q] = status[q]
    BY DEF StartManifest, TypeOK
  <2>2. OpenQuestions(q)' = OpenQuestions(q)
    BY <2>1, SameQuestions DEF With
  <2> QED
    BY <2>2 DEF Asked
<1>6. Shown' = [Shown EXCEPT ![p] = [q \in Task |-> Service!Nothing]]
  <2>1. out' = [out EXCEPT ![p] = NoOutcome]
    BY DEF StartManifest
  <2>2. \A t \in Task : ReplyOf(NoOutcome[t]) = Service!Nothing
    BY DEF NoOutcome, NotFetched, ReplyOf, Service!Nothing
  <2>3. \A q \in Proc, t \in Task : ReplyOf(out'[q][t]) =
           IF q = p THEN ReplyOf(NoOutcome[t]) ELSE ReplyOf(out[q][t])
    BY <2>1 DEF TypeOK
  <2>4. \A t \in Task : ReplyOf(NoOutcome[t]) = [q \in Task |-> Service!Nothing][t]
    BY <2>2
  <2> QED
    BY <2>3, <2>4 DEF Shown
<1>7. declined' = [declined EXCEPT ![p] = {}]
  BY DEF StartManifest
<1> QED
  BY <1>2, <1>4, <1>5, <1>6, <1>7 DEF Service!Ask, Asked, Shown

LEMMA CrashVanishes ==
  ASSUME TypeOK, NEW p \in Proc, Crash(p)
  PROVE  Service!Vanish(p)
<1>1. OpenQuestions(p)' = {}
  <2>1. status'[p] = NoStatus
    BY DEF Crash, TypeOK
  <2>2. With(p, Open)' = {}
    BY <2>1 DEF With, NoStatus, Open
  <2> QED
    BY <2>2 DEF OpenQuestions, Open
<1>2. ASSUME NEW q \in Proc, q # p PROVE OpenQuestions(q)' = OpenQuestions(q)
  <2>1. at'[q] = at[q] /\ status'[q] = status[q]
    BY <1>2 DEF Crash, TypeOK
  <2> QED
    BY <2>1, SameQuestions DEF With
<1>3. Asked' = [Asked EXCEPT ![p] = {}]
  BY <1>1, <1>2 DEF Asked
<1>4. Shown' = [Shown EXCEPT ![p] = [q \in Task |-> Service!Nothing]]
  <2>1. out' = [out EXCEPT ![p] = NoOutcome]
    BY DEF Crash
  <2>2. \A t \in Task : ReplyOf(NoOutcome[t]) = Service!Nothing
    BY DEF NoOutcome, NotFetched, ReplyOf, Service!Nothing
  <2> QED
    BY <2>1, <2>2 DEF Shown, TypeOK
<1>5. declined' = [declined EXCEPT ![p] = {}]
  BY DEF Crash
<1> QED
  BY <1>3, <1>4, <1>5 DEF Service!Vanish, Asked, Shown

LEMMA HitAnswers ==
  ASSUME TypeOK, AgeInv, OwnInv, TaskInv, NEW p \in Proc, NEW i \in DOMAIN Items(p),
         MemoryHit(p, i) \/ DiskHit(p, i)
  PROVE  Service!Answer(p, TaskAt(p, i))
<1> DEFINE t == TaskAt(p, i)
<1>1. t \in Task /\ Items(p)[i] \in Item
  BY TaskAtType
<1>2. Placed(p) /\ Kept(p, t)
  BY <1>1 DEF TaskInv, Remembered
<1>3. PICK answer \in Answer :
        /\ answer \in {MemoryGet(p, t), DiskGet(p, t)} /\ AnswerOf(t, answer)
        /\ out' = [out EXCEPT ![p][t] = Served(answer)]
  <2>1. CASE MemoryHit(p, i)
    <3>1. /\ MemoryGet(p, t) # None
          /\ out' = [out EXCEPT ![p][t] = Served(MemoryGet(p, t))]
      BY <2>1 DEF MemoryHit
    <3>2. MemoryGet(p, t) \in Answer /\ AnswerOf(t, MemoryGet(p, t))
      BY <1>1, <3>1, CacheTypes, GetsOwn
    <3> HIDE DEF t
    <3> QED
      BY <3>1, <3>2
  <2>2. CASE DiskHit(p, i)
    <3>1. /\ DiskGet(p, t) # None
          /\ out' = [out EXCEPT ![p][t] = Served(DiskGet(p, t))]
      BY <2>2 DEF DiskHit
    <3>2. DiskGet(p, t) \in Answer /\ AnswerOf(t, DiskGet(p, t))
      BY <1>1, <3>1, CacheTypes, GetsOwn
    <3> HIDE DEF t
    <3> QED
      BY <3>1, <3>2
  <2> QED
    BY <2>1, <2>2
<1>4. /\ status[p][i] \in Open /\ status' = [status EXCEPT ![p][i] = "hit"]
      /\ UNCHANGED at /\ declined' = declined
  BY DEF MemoryHit, DiskHit, NextToLookUp, Open, Status
<1>5. Service!Give(p, t, ReplyOf(Served(answer)))
  BY <1>2, <1>3, <1>4, ServedType, Gives
<1>6. answer.of = t.name /\ answer.from = HomeOf(p, t)
  <2>1. Resolves(p, t.key)
    BY <1>1, RouteType DEF TaskAt, TaskOf
  <2> QED
    BY <1>3, <2>1 DEF AnswerOf
<1>7. clock - answer.stored \in 0 .. (DiskTTL + MemTTL) - 1
  BY <1>1, <1>2, <1>3, HitAge
<1> HIDE DEF t
<1>8. Service!Answer(p, t)
  BY <1>1, <1>4, <1>5, <1>6, <1>7, Answers
<1> QED
  BY <1>8 DEF t

LEMMA StoreAnswerAnswers ==
  ASSUME TypeOK, TaskInv, NEW p \in Proc, NEW i \in DOMAIN Items(p), StoreAnswer(p, i)
  PROVE  Service!Answer(p, TaskAt(p, i))
<1> DEFINE t == TaskAt(p, i)
           answer == [from |-> RouteItem(p, Items(p)[i]).from, of |-> t.name,
                      stored |-> clock]
<1>1. t \in Task /\ Items(p)[i] \in Item /\ t.name \in Name
  BY TaskAtType DEF Task
<1>2. Placed(p)
  BY DEF TaskInv
<1>3. /\ out' = [out EXCEPT ![p][t] = Served(answer)]
      /\ status[p][i] = "ok" /\ status' = [status EXCEPT ![p][i] = "stored"]
      /\ UNCHANGED at /\ declined' = declined
  BY DEF StoreAnswer
<1>4. /\ answer \in Answer /\ answer.of = t.name /\ answer.from = HomeOf(p, t)
      /\ answer.stored = clock
  BY <1>1, RouteType DEF TaskAt, Answer, TypeOK
<1>5. status[p][i] \in Open
  BY <1>3 DEF Open, Status
<1> HIDE DEF answer
<1>6. Service!Give(p, t, ReplyOf(Served(answer)))
  BY <1>2, <1>3, <1>4, <1>5, ServedType, Gives
<1>7. clock - answer.stored \in 0 .. (DiskTTL + MemTTL) - 1
  <2>1. clock \in Nat /\ DiskTTL \in Nat /\ MemTTL \in Nat \ {0}
    BY CheckerAssumption DEF TypeOK, Time
  <2> QED
    BY <1>4, <2>1
<1> HIDE DEF t
<1>8. Service!Answer(p, t)
  BY <1>1, <1>3, <1>4, <1>6, <1>7, Answers
<1> QED
  BY <1>8 DEF t

LEMMA StoreFailureTells ==
  ASSUME TypeOK, TaskInv, NEW p \in Proc, NEW i \in DOMAIN Items(p), StoreFailure(p, i)
  PROVE  Service!Absent(p, TaskAt(p, i)) \/ Service!Refuse(p, TaskAt(p, i))
<1> DEFINE t == TaskAt(p, i)
           o == [kind |-> status[p][i]]
<1>1. t \in Task
  BY TaskAtType
<1>2. Placed(p)
  BY DEF TaskInv
<1>3. /\ status[p][i] \in {"absent", "unanswered"}
      /\ out' = [out EXCEPT ![p][t] = o]
      /\ status' = [status EXCEPT ![p][i] = "stored"] /\ UNCHANGED at
      /\ declined' = [declined EXCEPT ![p] =
                        IF status[p][i] = "unanswered" THEN @ \cup {t.key} ELSE @]
  BY DEF StoreFailure
<1>4. o \in Outcome /\ ReplyOf(o) = o /\ status[p][i] \in Open
  BY <1>3 DEF Outcome, ReplyOf, Open, Status
<1>5. Service!Give(p, t, o)
  <2>1. Service!Give(p, t, ReplyOf(o))
    <3> HIDE DEF o
    <3> QED
      BY <1>2, <1>3, <1>4, Gives
  <2> QED
    BY <1>4, <2>1
<1>6. CASE status[p][i] = "absent"
  <2>1. declined' = declined
    BY <1>3, <1>6 DEF TypeOK
  <2>2. Service!Give(p, t, [kind |-> "absent"])
    BY <1>5, <1>6
  <2> QED
    BY <2>1, <2>2 DEF Service!Absent
<1>7. CASE status[p][i] = "unanswered"
  <2>1. declined' = [declined EXCEPT ![p] = @ \cup {t.key}]
    BY <1>3, <1>7
  <2>2. Service!Give(p, t, [kind |-> "unanswered"])
    BY <1>5, <1>7
  <2> QED
    BY <2>1, <2>2 DEF Service!Refuse
<1> QED
  BY <1>3, <1>6, <1>7
(* A step that leaves the manifest, the open tasks, the outcomes and the   *)
(* declined keys alone.                                                    *)
LEMMA InvisibleSteps ==
  ASSUME TypeOK, TaskInv, NEW p \in Proc,
         \/ BeginFetching(p) \/ BeginStoring(p) \/ EndPut(p) \/ Report(p) \/ Restart(p)
         \/ \E i \in DOMAIN Items(p) :
              \/ CacheMiss(p, i) \/ StartCall(p, i) \/ BackOff(p, i) \/ Retry(p, i)
              \/ \E result \in Arrived : Settle(p, i, result)
  PROVE  UNCHANGED Service!vars
<1>1. CASE BeginFetching(p) \/ BeginStoring(p) \/ EndPut(p) \/ Report(p) \/ Restart(p)
  <2>1. UNCHANGED <<at, status, out, declined>>
    BY <1>1 DEF BeginFetching, BeginStoring, EndPut, Report, Restart
  <2> QED
    BY <2>1, Invisible DEF With
<1>2. ASSUME NEW i \in DOMAIN Items(p),
             \/ CacheMiss(p, i) \/ StartCall(p, i) \/ BackOff(p, i) \/ Retry(p, i)
             \/ \E result \in Arrived : Settle(p, i, result)
      PROVE  UNCHANGED Service!vars
  <2>1. i \in ItemIndex
    BY TaskAtType
  <2>2. PICK s \in Open : /\ status' = [status EXCEPT ![p][i] = s]
                          /\ status[p][i] \in Open
    BY <1>2 DEF CacheMiss, NextToLookUp, StartCall, BackOff, Retry, Settle, Open,
                Status, Arrived
  <2>3. UNCHANGED <<at, out, declined>>
    BY <1>2 DEF CacheMiss, StartCall, BackOff, Retry, Settle
  <2>4. ASSUME NEW q \in Proc PROVE With(q, Open)' = With(q, Open)
    <3>1. \A j \in ItemIndex :
            status'[q][j] = IF q = p /\ j = i THEN s ELSE status[q][j]
      BY <2>1, <2>2 DEF TypeOK
    <3> QED
      BY <2>2, <3>1 DEF With
  <2> QED
    BY <2>3, <2>4, Invisible
<1> QED
  BY <1>1, <1>2

LEMMA ServiceStep ==
  ASSUME TypeOK, TypeOK', AgeInv, OwnInv, TaskInv, TaskInv', [Next]_vars
  PROVE  [Service!Next]_(Service!vars)
<1>1. ASSUME NEW p \in Proc, NEW t \in Task, Service!Answer(p, t)
      PROVE  Service!Next
  BY <1>1 DEF Service!Next
<1>2. ASSUME NEW p \in Proc, NEW i \in DOMAIN Items(p), TaskStep(p, i)
      PROVE  [Service!Next]_(Service!vars)
  <2>1. TaskAt(p, i) \in Task
    BY TaskAtType
  <2>2. CASE MemoryHit(p, i) \/ DiskHit(p, i)
    BY <1>1, <2>1, <2>2, HitAnswers
  <2>3. CASE StoreAnswer(p, i)
    BY <1>1, <2>1, <2>3, StoreAnswerAnswers
  <2>4. CASE StoreFailure(p, i)
    <3>1. Service!Absent(p, TaskAt(p, i)) \/ Service!Refuse(p, TaskAt(p, i))
      BY <2>4, StoreFailureTells
    <3>2. Service!Next
      BY <2>1, <3>1 DEF Service!Next
    <3> QED
      BY <3>2
  <2>5. CASE CacheMiss(p, i) \/ StartCall(p, i) \/ BackOff(p, i) \/ Retry(p, i)
             \/ \E result \in Arrived : Settle(p, i, result)
    BY <2>5, InvisibleSteps
  <2> QED
    BY <1>2, <2>2, <2>3, <2>4, <2>5 DEF TaskStep
<1>3. ASSUME NEW p \in Proc, StartManifest(p) \/ Crash(p)
      PROVE  Service!Next
  <2>1. Service!Ask(p) \/ Service!Vanish(p)
    BY <1>3, StartManifestAsks, CrashVanishes
  <2> QED
    BY <2>1 DEF Service!Next
<1>4. ASSUME NEW p \in Proc, BeginFetching(p) \/ BeginStoring(p) \/ EndPut(p)
                             \/ Report(p) \/ Restart(p)
      PROVE  UNCHANGED Service!vars
  BY <1>4, InvisibleSteps
<1>5. CASE Tick \/ UNCHANGED vars
  <2>1. UNCHANGED <<at, status, out, declined>>
    BY <1>5 DEF Tick, vars
  <2>2. UNCHANGED Service!vars
    BY <2>1, Invisible DEF With
  <2> QED
    BY <2>2
<1> QED
  BY <1>2, <1>3, <1>4, <1>5 DEF Next, Step, AllFinished

LEMMA ServiceInit == Init => Service!Init
<1> SUFFICES ASSUME Init PROVE Service!Init
  OBVIOUS
<1>1. \A p \in Proc : OpenQuestions(p) = {}
  BY DEF Init, OpenQuestions, With, NoStatus
<1>2. \A t \in Task : ReplyOf(NoOutcome[t]) = Service!Nothing
  BY DEF NoOutcome, NotFetched, ReplyOf, Service!Nothing
<1>3. Shown = [p \in Proc |-> [t \in Task |-> Service!Nothing]]
  BY <1>2 DEF Init, Shown
<1> QED
  BY <1>1, <1>3 DEF Service!Init, Init, Shown

(* As long as the runs agree on what their aliases mean, a run shows a     *)
(* manifest what a service that settles each question once, from its own   *)
(* registry and no older than the two lifetimes, would: no cache, retry,   *)
(* kill or file of another run can be seen from outside.                   *)
THEOREM ChecksAsPromised == AliasesAgree => (Spec => ImplementsService)
<1> SUFFICES ASSUME AliasesAgree PROVE Spec => ImplementsService
  OBVIOUS
<1>1. Init => AgeInv /\ OwnInv
  BY AgeInit, OwnInit
<1>2. TypeOK /\ AgeInv /\ OwnInv /\ [Next]_vars => AgeInv' /\ OwnInv'
  BY AgeStep, OwnStep
<1>3. /\ TypeOK /\ TypeOK' /\ AgeInv /\ OwnInv /\ TaskInv /\ TaskInv' /\ [Next]_vars
      => [Service!Next]_(Service!vars)
  BY ServiceStep
<1> QED
  BY <1>1, <1>2, <1>3, ServiceInit, TasksInOrder, PTL
     DEF Spec, ImplementsService, Service!Spec
=============================================================================
