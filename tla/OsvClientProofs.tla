--------------------------- MODULE OsvClientProofs ---------------------------
(***************************************************************************)
(* Theorems about OsvClient, for every set of callers and packages, every  *)
(* database and every value of the limits.                                 *)
(***************************************************************************)
EXTENDS OsvClient, TLAPS

(***************************************************************************)
(* The parts of the inductive invariant.                                   *)
(***************************************************************************)
(* What TypeOK says of each caller, it says of functions over the callers. *)
Domains ==
    /\ DOMAIN results = Callers
    /\ DOMAIN pending = Callers
    /\ DOMAIN attempts = Callers
    /\ DOMAIN scanFailed = Callers
    /\ DOMAIN found = Callers
    /\ DOMAIN jobs = Callers
    /\ DOMAIN records = Callers
    /\ DOMAIN enrichFailed = Callers

(* Once the cache was asked, a query has an answer or is to be posted.     *)
Answered ==
    \A c \in Callers : at[c] = "post" =>
        \A i \in Queries(c) : i \in pending[c] \/ results[c][i] # None

Types == Domains /\ TypeOK /\ Answered

(* No detail query starts before the rows are marked; until it has its     *)
(* last page, what it got is what counts of what it heard; it waits only   *)
(* for a row with IDs; and only a complete list is filled in.              *)
Waiting == {"queued", "looking", "asking"}

JobsFollow ==
    \A c \in Callers : \A i \in Queries(c) :
        /\ at[c] \in {"serve", "post"} => jobs[c][i].state = "none"
        /\ jobs[c][i].state \in {"none"} \cup Waiting =>
              jobs[c][i].got = Counted(jobs[c][i].heard)
        /\ jobs[c][i].state \in Waiting => found[c][Asks[c][i].row] # {}
        /\ jobs[c][i].state = "filling" => jobs[c][i].complete

(* Every entry of the ID cache, and every answer taken by a caller, is one *)
(* that OSV gave in full.                                                  *)
CacheTold == \A p \in Packages : cache[p] # None => WasTold(p, cache[p])

ResultsTold ==
    \A c \in Callers : \A i \in Queries(c) :
        results[c][i] # None => WasTold(Asks[c][i].package, results[c][i])

(* The rows of a scan that did not fail show all that one such answer had. *)
FoundTold ==
    \A c \in Callers : \A i \in Queries(c) :
        at[c] \in {"enrich", "done"} /\ ~scanFailed[c] =>
            \E said \in told[Asks[c][i].package] :
                Counted(said) \subseteq found[c][Asks[c][i].row]

(* A list that is to be stored as complete is one OSV gave, and a row has  *)
(* IDs only if OSV named some.                                             *)
ListsTold ==
    \A c \in Callers : \A i \in Queries(c) :
        jobs[c][i].state \in {"storing", "filling"} /\ jobs[c][i].complete =>
            WasTold(Asks[c][i].package, jobs[c][i].got)

Named(c, row) ==
    \E j \in Of(c, row) :
        \E said \in told[Asks[c][j].package] : Counted(said) # {}

FoundNamed ==
    \A c \in Callers : \A i \in Queries(c) :
        found[c][Asks[c][i].row] # {} => Named(c, Asks[c][i].row)

Truthful == CacheTold /\ ResultsTold /\ FoundTold /\ ListsTold /\ FoundNamed

(* What came to a cache after a query looked there is on record.           *)
Overtaking ==
    \A c \in Callers : \A i \in Queries(c) :
        /\ /\ jobs[c][i].state \in {"looking", "asking"}
           /\ detailCache[Asks[c][i].package] # None
           => <<c, i>> \in overtaken.records
        /\ /\ jobs[c][i].state = "asking"
           /\ cache[Asks[c][i].package] = {}
           => <<c, i>> \in overtaken.clean

-----------------------------------------------------------------------------
LEMMA AsksType ==
  ASSUME NEW c \in Callers, NEW i \in Queries(c)
  PROVE  /\ Asks[c][i].package \in Packages
         /\ Asks[c][i].row \in Rows(c)
         /\ i \in Of(c, Asks[c][i].row)
BY OsvAssumption DEF Rows, Of

LEMMA CountedType ==
  ASSUME NEW ids \in IDs
  PROVE  Counted(ids) \in IDs /\ Counted(ids) # None
<1>1. Counted(ids) \in IDs
  BY DEF Counted, IDs
<1>2. QED
  BY <1>1, OsvAssumption

LEMMA CountedUnion ==
  ASSUME NEW a, NEW b
  PROVE  Counted(a \cup b) = Counted(a) \cup Counted(b)
BY DEF Counted

(* OSV's answer to a query is a set of IDs, whether its slot is there.     *)
LEMMA SlotType ==
  ASSUME TypeOK, NEW c \in Callers, NEW i \in Queries(c), NEW answered
  PROVE  Counted(Slot(c, i, answered)) \in IDs /\ Counted(Slot(c, i, answered)) # None
<1>1. Slot(c, i, answered) \in IDs
  BY AsksType DEF Slot, TypeOK, IDs
<1>2. QED
  BY <1>1, CountedType

LEMMA IdleType ==
  /\ Idle \in Job
  /\ \A got \in IDs, last \in BOOLEAN :
        [Idle EXCEPT !.state = "storing", !.got = got, !.complete = last] \in Job
<1>1. Idle \in Job
  BY OsvAssumption DEF Idle, Job, IDs
<1>2. QED
  BY <1>1 DEF Job, Running

(* The history holds queries only.                                         *)
LEMMA OvertakenType ==
  ASSUME overtaken \in Late,
         \/ \E packages : CleanComesLate(packages)
         \/ \E p : RecordsComeLate(p)
         \/ overtaken' = overtaken
  PROVE  /\ overtaken' \in Late
         /\ overtaken.records \subseteq overtaken'.records
         /\ overtaken.clean \subseteq overtaken'.clean
<1>1. \A packages, states : About(packages, states) \subseteq Callers \X Numbers
  BY DEF About
<1>2. ASSUME NEW packages, CleanComesLate(packages)
      PROVE  /\ overtaken' \in Late
             /\ overtaken.records \subseteq overtaken'.records
             /\ overtaken.clean \subseteq overtaken'.clean
  BY <1>1, <1>2 DEF CleanComesLate, Late
<1>3. ASSUME NEW p, RecordsComeLate(p)
      PROVE  /\ overtaken' \in Late
             /\ overtaken.records \subseteq overtaken'.records
             /\ overtaken.clean \subseteq overtaken'.clean
  BY <1>1, <1>3 DEF RecordsComeLate, Late
<1> QED
  BY <1>2, <1>3

(* What an enrichment may do.                                              *)
LEMMA EnrichCases ==
  ASSUME NEW c \in Callers, Enrich(c)
  PROVE  /\ at[c] = "enrich"
         /\ \/ Collect(c)
            \/ \E i \in Queries(c) :
                  \/ StartDetail(c, i)
                  \/ LookForClean(c, i)
                  \/ \E ids \in IDs, last \in BOOLEAN : Page(c, i, ids, last)
                  \/ FailDetail(c, i)
                  \/ StoreRecords(c, i)
                  \/ BackfillIds(c, i)
BY DEF Enrich, JobsIn

(* Until its end it moves one query and leaves all else of the callers.    *)
LEMMA EnrichMoves ==
  ASSUME NEW c \in Callers, Enrich(c), ~Collect(c)
  PROVE  /\ at[c] = "enrich"
         /\ UNCHANGED <<truth, changes, scanVars, records, enrichFailed>>
         /\ \E i \in Queries(c) : \E job : jobs' = [jobs EXCEPT ![c][i] = job]
<1>1. PICK i \in Queries(c) :
         \/ StartDetail(c, i)
         \/ LookForClean(c, i)
         \/ \E ids \in IDs, last \in BOOLEAN : Page(c, i, ids, last)
         \/ FailDetail(c, i)
         \/ StoreRecords(c, i)
         \/ BackfillIds(c, i)
  BY EnrichCases
<1>2. \E from, job : JobMoves(c, i, from, job)
  BY <1>1 DEF StartDetail, LookForClean, Page, FailDetail, StoreRecords, BackfillIds
<1> QED
  BY <1>2 DEF JobMoves

LEMMA InitTypes == Init => Types
<1> SUFFICES ASSUME Init PROVE Types
  OBVIOUS
<1>1. Domains
  BY DEF Init, Domains
<1>3. \A c \in Callers : jobs[c] \in [Queries(c) -> Job]
  BY IdleType DEF Init
<1>4. \A c \in Callers : found[c] \in [Rows(c) -> IDs] /\ records[c] \in [Rows(c) -> IDs]
  BY DEF Init, IDs
<1>5. \A c \in Callers : /\ results[c] \in [Queries(c) -> {None} \cup IDs]
                         /\ pending[c] \in SUBSET Queries(c)
                         /\ attempts[c] \in 0 .. MaxAttempts - 1
                         /\ scanFailed[c] \in BOOLEAN
                         /\ enrichFailed[c] \in BOOLEAN
  BY OsvAssumption DEF Init, NoResults
<1>6. /\ truth \in [Packages -> IDs]
      /\ changes \in 0 .. MaxChanges
      /\ told \in [Packages -> SUBSET IDs]
      /\ cache \in [Packages -> {None} \cup IDs]
      /\ detailCache \in [Packages -> {None} \cup [ids : IDs, complete : BOOLEAN]]
      /\ at \in [Callers -> {"serve", "post", "enrich", "done"}]
      /\ expiries \in 0 .. MaxExpiries
      /\ overtaken \in Late
  BY OsvAssumption DEF Init, Late
<1>7. TypeOK
  BY <1>3, <1>4, <1>5, <1>6 DEF TypeOK
<1>8. Answered
  BY DEF Init, Answered
<1> QED
  BY <1>1, <1>7, <1>8 DEF Types

(***************************************************************************)
(* Types.                                                                  *)
(***************************************************************************)
LEMMA ScanKeepsTypes ==
  ASSUME Types, NEW c \in Callers, Scan(c)
  PROVE  Types'
<1> USE DEF Types, Domains, Answered
<1>1. ASSUME NEW i \in Queries(c), Serve(c, i)
      PROVE  Types'
  <2>1. cache[Asks[c][i].package] \in {None} \cup IDs
    BY AsksType DEF TypeOK
  <2>2. /\ results' = [results EXCEPT ![c][i] = cache[Asks[c][i].package]]
        /\ pending' \in {pending, [pending EXCEPT ![c] = @ \cup {i}]}
        /\ at[c] = "serve"
    BY <1>1 DEF Serve
  <2>3. UNCHANGED <<osvVars, cacheVars, at, attempts, scanFailed, found, enrichVars,
                    overtaken>>
    BY <1>1 DEF Serve
  <2>4. \A d \in Callers : /\ results'[d] \in [Queries(d) -> {None} \cup IDs]
                           /\ pending'[d] \in SUBSET Queries(d)
    BY <2>1, <2>2 DEF TypeOK
  <2>5. TypeOK'
    BY <2>3, <2>4 DEF TypeOK, osvVars, cacheVars, enrichVars
  <2>6. QED
    BY <2>2, <2>3, <2>5 DEF enrichVars
<1>2. CASE BeginPosting(c)
  BY <1>2 DEF BeginPosting, TypeOK, osvVars, cacheVars, enrichVars
<1>3. ASSUME NEW answered, Posted(c, answered)
      PROVE  Types'
  <2>1. \A i \in Queries(c) : /\ Counted(Slot(c, i, answered)) \in IDs
                              /\ Counted(Slot(c, i, answered)) # None
    BY SlotType
  <2>2. results' = [results EXCEPT ![c] = [i \in Queries(c) |->
                      IF i \in Chunk(c) THEN Counted(Slot(c, i, answered))
                      ELSE @[i]]]
    BY <1>3 DEF Posted
  <2>3. \A d \in Callers : results'[d] \in [Queries(d) -> {None} \cup IDs]
    BY <2>1, <2>2 DEF TypeOK
  <2>4. /\ pending' = [pending EXCEPT ![c] = @ \ Chunk(c)]
        /\ attempts' = [attempts EXCEPT ![c] = 0]
    BY <1>3 DEF Posted
  <2>5. UNCHANGED <<truth, changes, detailCache, expiries, at, scanFailed, found,
                    enrichVars>>
    BY <1>3 DEF Posted
  <2>c. overtaken' \in Late
    BY <1>3, OvertakenType DEF Posted, TypeOK
  <2>6. \A d \in Callers : /\ pending'[d] \in SUBSET Queries(d)
                           /\ attempts'[d] \in 0 .. MaxAttempts - 1
    BY <2>4, OsvAssumption DEF TypeOK
  <2>7. told' \in [Packages -> SUBSET IDs]
    <3>1. told' = [p \in Packages |->
                     IF \E i \in answered : Asks[c][i].package = p
                     THEN told[p] \cup {truth[p]} ELSE told[p]]
      BY <1>3 DEF Posted
    <3>2. \A p \in Packages : truth[p] \in IDs /\ told[p] \in SUBSET IDs
      BY DEF TypeOK
    <3>3. QED
      BY <3>1, <3>2
  <2>8. cache' \in [Packages -> {None} \cup IDs]
    <3>1. cache' = [p \in Packages |->
                   IF StoredFor(c, p) = {} THEN cache[p]
                   ELSE Counted(Slot(c, CHOOSE i \in StoredFor(c, p) : TRUE,
                                     answered))]
      BY <1>3 DEF Posted
    <3>2. \A p \in Packages : StoredFor(c, p) \subseteq Queries(c)
      BY DEF StoredFor, Chunk, TypeOK
    <3>3. \A p \in Packages : StoredFor(c, p) # {} =>
             (CHOOSE i \in StoredFor(c, p) : TRUE) \in Queries(c)
      BY <3>2
    <3>4. \A p \in Packages : cache[p] \in {None} \cup IDs
      BY DEF TypeOK
    <3>5. QED
      BY <3>1, <3>3, <3>4, <2>1
  <2>9. TypeOK'
    BY <2>3, <2>5, <2>c, <2>6, <2>7, <2>8 DEF TypeOK, enrichVars
  <2>10. Answered'
    BY <2>1, <2>2, <2>4, <2>5
  <2>11. QED
    BY <2>2, <2>4, <2>5, <2>9, <2>10 DEF enrichVars
<1>4. CASE PostAgain(c)
  <2>1. \A d \in Callers : attempts'[d] \in 0 .. MaxAttempts - 1
    BY <1>4, OsvAssumption DEF PostAgain, AttemptLeft, TypeOK
  <2>2. QED
    BY <1>4, <2>1 DEF PostAgain, TypeOK, osvVars, cacheVars, enrichVars
<1>5. CASE GiveUp(c)
  <2>1. \A d \in Callers : /\ results'[d] \in [Queries(d) -> {None} \cup IDs]
                           /\ pending'[d] \in SUBSET Queries(d)
                           /\ scanFailed'[d] \in BOOLEAN
    BY <1>5 DEF GiveUp, NoResults, TypeOK
  <2>2. 0 \in 0 .. MaxAttempts - 1
    BY OsvAssumption
  <2>3. \A d \in Callers : attempts'[d] \in 0 .. MaxAttempts - 1
    BY <1>5, <2>2 DEF GiveUp, TypeOK
  <2>4. QED
    BY <1>5, <2>1, <2>3 DEF GiveUp, TypeOK, osvVars, cacheVars, enrichVars
<1>6. CASE Flip(c)
  <2>1. at[c] = "post" /\ pending[c] = {}
    BY <1>6 DEF Flip
  <2>2. \A i \in Queries(c) : results[c][i] \in IDs
    BY <2>1 DEF TypeOK
  <2>3. \A r \in Rows(c) : Flagged(c, r) \in IDs
    BY <2>2 DEF Flagged, Of, IDs
  <2>4. \A d \in Callers : /\ found'[d] \in [Rows(d) -> IDs]
                           /\ results'[d] \in [Queries(d) -> {None} \cup IDs]
    BY <1>6, <2>3 DEF Flip, NoResults, TypeOK
  <2>5. \A d \in Callers : jobs'[d] \in [Queries(d) -> Job]
    <3>1. \A i \in Queries(c) : jobs[c][i] \in Job
      BY DEF TypeOK
    <3>2. \A i \in Queries(c) : [jobs[c][i] EXCEPT !.state = "queued"] \in Job
      BY <3>1 DEF Job
    <3>3. jobs'[c] \in [Queries(c) -> Job]
      BY <1>6, <3>1, <3>2 DEF Flip
    <3>4. QED
      BY <1>6, <3>3 DEF Flip, TypeOK
  <2>6. at' = [at EXCEPT ![c] = "enrich"] /\ DOMAIN found' = Callers
        /\ DOMAIN jobs' = Callers /\ DOMAIN results' = Callers
    BY <1>6 DEF Flip
  <2>7. TypeOK'
    BY <1>6, <2>4, <2>5 DEF Flip, TypeOK, osvVars, cacheVars
  <2>8. Answered'
    BY <1>6, <2>6 DEF Flip, TypeOK
  <2>9. QED
    BY <1>6, <2>6, <2>7, <2>8 DEF Flip
<1>7. QED
  BY <1>1, <1>2, <1>3, <1>4, <1>5, <1>6 DEF Scan

LEMMA MoveKeepsTypes ==
  ASSUME Types, NEW c \in Callers, NEW i \in Queries(c), NEW from, NEW job \in Job,
         JobMoves(c, i, from, job),
         told' \in [Packages -> SUBSET IDs],
         cache' \in [Packages -> {None} \cup IDs],
         detailCache' \in [Packages -> {None} \cup [ids : IDs, complete : BOOLEAN]],
         expiries' = expiries,
         overtaken' \in Late
  PROVE  Types'
<1>1. /\ DOMAIN jobs' = Callers
      /\ \A d \in Callers : jobs'[d] \in [Queries(d) -> Job]
  BY DEF JobMoves, Types, Domains, TypeOK
<1> QED
  BY <1>1 DEF JobMoves, Types, Domains, TypeOK, Answered, scanVars

LEMMA EnrichKeepsTypes ==
  ASSUME Types, NEW c \in Callers, Enrich(c)
  PROVE  Types'
<1>a. /\ told \in [Packages -> SUBSET IDs]
      /\ cache \in [Packages -> {None} \cup IDs]
      /\ detailCache \in [Packages -> {None} \cup [ids : IDs, complete : BOOLEAN]]
      /\ overtaken \in Late
      /\ \A i \in Queries(c) : jobs[c][i] \in Job
  BY DEF Types, TypeOK
<1>1. ASSUME NEW i \in Queries(c), StartDetail(c, i)
      PROVE  Types'
  <2> DEFINE p   == Asks[c][i].package
             job == IF Recorded(p)
                    THEN [jobs[c][i] EXCEPT !.state = "ok", !.got = detailCache[p].ids,
                                            !.complete = detailCache[p].complete]
                    ELSE [jobs[c][i] EXCEPT !.state = "looking"]
  <2>1. /\ JobMoves(c, i, "queued", job)
        /\ UNCHANGED <<told, cache, detailCache, expiries, overtaken>>
    BY <1>1 DEF StartDetail, cacheVars
  <2>2. Recorded(p) => detailCache[p].ids \in IDs /\ detailCache[p].complete \in BOOLEAN
    BY <1>a, AsksType DEF Recorded
  <2>3. job \in Job
    BY <1>a, <2>2 DEF Job, Running
  <2> QED
    BY <1>a, <2>1, <2>3, MoveKeepsTypes
<1>2. ASSUME NEW i \in Queries(c), LookForClean(c, i)
      PROVE  Types'
  <2> DEFINE job == IF KnownClean(Asks[c][i].package)
                    THEN [jobs[c][i] EXCEPT !.state = "ok", !.complete = TRUE]
                    ELSE [jobs[c][i] EXCEPT !.state = "asking"]
  <2>1. /\ JobMoves(c, i, "looking", job)
        /\ UNCHANGED <<told, cache, detailCache, expiries, overtaken>>
    BY <1>2 DEF LookForClean, cacheVars
  <2>2. job \in Job
    BY <1>a DEF Job, Running
  <2> QED
    BY <1>a, <2>1, <2>2, MoveKeepsTypes
<1>3. ASSUME NEW i \in Queries(c), NEW ids \in IDs, NEW last \in BOOLEAN,
             Page(c, i, ids, last)
      PROVE  Types'
  <2> DEFINE p     == Asks[c][i].package
             more  == [jobs[c][i] EXCEPT !.got = @ \cup Counted(ids),
                                         !.heard = @ \cup ids, !.pages = @ + 1]
             whole == [Idle EXCEPT !.state = "storing", !.got = more.got,
                                   !.complete = last]
             over  == last \/ more.pages >= MaxDetailPages
  <2>1. jobs[c][i] \in Job /\ p \in Packages
    BY <1>a, AsksType
  <2>2. /\ more.got \in IDs /\ more.heard \in IDs /\ more.pages \in Nat
        /\ ~over => more.pages \in 0 .. MaxDetailPages
    BY <2>1, CountedType, OsvAssumption DEF Job, IDs
  <2>3. ~over => more \in Job
    BY <2>1, <2>2 DEF Job
  <2>4. whole \in Job
    BY <2>2, IdleType
  <2>5. /\ JobMoves(c, i, "asking", IF over THEN whole ELSE more)
        /\ told' = IF last THEN [told EXCEPT ![p] = @ \cup {more.heard}] ELSE told
        /\ UNCHANGED <<cache, detailCache, expiries, overtaken>>
    BY <1>3 DEF Page, cacheVars
  <2> HIDE DEF more, whole, over, p
  <2>6. told' \in [Packages -> SUBSET IDs]
    BY <1>a, <2>1, <2>2, <2>5
  <2>7. (IF over THEN whole ELSE more) \in Job
    BY <2>3, <2>4
  <2> QED
    BY <1>a, <2>5, <2>6, <2>7, MoveKeepsTypes
<1>4. ASSUME NEW i \in Queries(c), FailDetail(c, i)
      PROVE  Types'
  <2> DEFINE job == [jobs[c][i] EXCEPT !.state = "failed"]
  <2>1. /\ JobMoves(c, i, "asking", job)
        /\ UNCHANGED <<told, cache, detailCache, expiries, overtaken>>
    BY <1>4 DEF FailDetail, cacheVars
  <2>2. job \in Job
    BY <1>a DEF Job
  <2> QED
    BY <1>a, <2>1, <2>2, MoveKeepsTypes
<1>5. ASSUME NEW i \in Queries(c), StoreRecords(c, i)
      PROVE  Types'
  <2> DEFINE p    == Asks[c][i].package
             job  == [jobs[c][i] EXCEPT !.state =
                         IF Backfill(jobs[c][i].complete) THEN "filling" ELSE "ok"]
             kept == [ids |-> jobs[c][i].got, complete |-> jobs[c][i].complete]
  <2>1. /\ JobMoves(c, i, "storing", job)
        /\ detailCache' = [detailCache EXCEPT ![p] = kept]
        /\ RecordsComeLate(p)
        /\ UNCHANGED <<told, cache, expiries>>
    BY <1>5 DEF StoreRecords
  <2>2. job \in Job /\ kept \in [ids : IDs, complete : BOOLEAN]
    BY <1>a DEF Job, Running
  <2>3. overtaken' \in Late
    BY <1>a, <2>1, OvertakenType
  <2> HIDE DEF job, kept
  <2>4. detailCache' \in [Packages -> {None} \cup [ids : IDs, complete : BOOLEAN]]
    BY <1>a, <2>1, <2>2
  <2> QED
    BY <1>a, <2>1, <2>2, <2>3, <2>4, MoveKeepsTypes
<1>6. ASSUME NEW i \in Queries(c), BackfillIds(c, i)
      PROVE  Types'
  <2> DEFINE p   == Asks[c][i].package
             job == [jobs[c][i] EXCEPT !.state = "ok"]
  <2>1. /\ JobMoves(c, i, "filling", job)
        /\ cache' = [cache EXCEPT ![p] = jobs[c][i].got]
        /\ \E packages : CleanComesLate(packages)
        /\ UNCHANGED <<told, detailCache, expiries>>
    BY <1>6 DEF BackfillIds
  <2>2. job \in Job /\ jobs[c][i].got \in IDs
    BY <1>a DEF Job
  <2>3. overtaken' \in Late
    BY <1>a, <2>1, OvertakenType
  <2> HIDE DEF job
  <2>4. cache' \in [Packages -> {None} \cup IDs]
    BY <1>a, <2>1, <2>2
  <2> QED
    BY <1>a, <2>1, <2>2, <2>3, <2>4, MoveKeepsTypes
<1>7. CASE Collect(c)
  <2>1. \A r \in Rows(c) : Attached(c, r) \in IDs
    <3>1. \A i \in Queries(c) : jobs[c][i].got \in IDs
      BY <1>a DEF Job
    <3>2. QED
      BY <3>1 DEF Attached, Of, IDs
  <2>2. \A d \in Callers : /\ records'[d] \in [Rows(d) -> IDs]
                           /\ enrichFailed'[d] \in BOOLEAN
    BY <1>7, <2>1 DEF Collect, Types, Domains, TypeOK
  <2>3. QED
    BY <1>7, <2>2 DEF Collect, Types, Domains, Answered, TypeOK, osvVars, cacheVars
<1> QED
  BY <1>1, <1>2, <1>3, <1>4, <1>5, <1>6, <1>7, EnrichCases

LEMMA WorldKeepsTypes ==
  ASSUME Types, Revise \/ Expire \/ UNCHANGED vars
  PROVE  Types'
<1> USE DEF Types, Domains, Answered
<1>1. CASE Revise
  <2>1. PICK p \in Packages, a \in Advisories :
           truth' = [truth EXCEPT ![p] = IF a \in @ THEN @ \ {a} ELSE @ \cup {a}]
    BY <1>1 DEF Revise
  <2>2. truth' \in [Packages -> IDs] /\ changes' \in 0 .. MaxChanges
    BY <1>1, <2>1, OsvAssumption DEF Revise, TypeOK, IDs
  <2>3. QED
    BY <1>1, <2>2 DEF Revise, TypeOK, cacheVars, scanVars, enrichVars
<1>2. CASE Expire
  <2>1. expiries' \in 0 .. MaxExpiries
    BY <1>2, OsvAssumption DEF Expire, TypeOK
  <2>2. /\ cache' \in [Packages -> {None} \cup IDs]
        /\ detailCache' \in [Packages -> {None} \cup [ids : IDs, complete : BOOLEAN]]
    BY <1>2 DEF Expire, TypeOK
  <2>3. QED
    BY <1>2, <2>1, <2>2 DEF Expire, TypeOK, osvVars, scanVars, enrichVars
<1>3. CASE UNCHANGED vars
  BY <1>3 DEF vars, TypeOK
<1>4. QED
  BY <1>1, <1>2, <1>3

LEMMA TypesStep ==
  ASSUME Types, [Next]_vars
  PROVE  Types'
BY ScanKeepsTypes, EnrichKeepsTypes, WorldKeepsTypes DEF Next, Done

(* TypesHold -- in every state the caches and the callers hold what they   *)
(* are declared to hold, and no attempt or page passes its limit.          *)
THEOREM TypesHold == Spec => []TypeOK
<1>1. Types => TypeOK
  BY DEF Types
<1>2. QED
  BY <1>1, InitTypes, TypesStep, PTL DEF Spec

(***************************************************************************)
(* What is asked.                                                          *)
(***************************************************************************)
LEMMA JobChanged ==
  ASSUME Types, NEW c \in Callers, NEW i \in Queries(c), NEW job,
         jobs' = [jobs EXCEPT ![c][i] = job]
  PROVE  /\ jobs'[c][i] = job
         /\ \A d \in Callers : \A j \in Queries(d) :
               d # c \/ j # i => jobs'[d][j] = jobs[d][j]
<1>1. DOMAIN jobs = Callers /\ \A d \in Callers : jobs[d] \in [Queries(d) -> Job]
  BY DEF Types, Domains, TypeOK
<1>2. jobs' = [jobs EXCEPT ![c] = [jobs[c] EXCEPT ![i] = job]]
  OBVIOUS
<1>3. jobs'[c] = [jobs[c] EXCEPT ![i] = job]
  BY <1>1, <1>2
<1>4. \A d \in Callers : d # c => jobs'[d] = jobs[d]
  BY <1>1, <1>2
<1>5. QED
  BY <1>1, <1>3, <1>4

(* The query that changed is the one that moved.                           *)
LEMMA OnlyMover ==
  ASSUME Types, NEW c \in Callers, NEW i \in Queries(c), NEW from, NEW job,
         JobMoves(c, i, from, job), NEW d \in Callers, NEW j \in Queries(d),
         jobs'[d][j] # jobs[d][j]
  PROVE  c = d /\ i = j /\ jobs'[d][j] = job /\ jobs[d][j].state = from
<1>1. jobs' = [jobs EXCEPT ![c][i] = job] /\ jobs[c][i].state = from
  BY DEF JobMoves
<1>2. /\ DOMAIN jobs = Callers /\ jobs[c] \in [Queries(c) -> Job]
      /\ jobs[d] \in [Queries(d) -> Job]
  BY DEF Types, Domains, TypeOK
<1>3. jobs' = [jobs EXCEPT ![c] = [jobs[c] EXCEPT ![i] = job]]
  BY <1>1
<1>4. c = d
  BY <1>2, <1>3
<1>5. jobs'[d] = [jobs[d] EXCEPT ![i] = job]
  BY <1>2, <1>3, <1>4
<1> QED
  BY <1>1, <1>2, <1>4, <1>5

(* Where each step of a query but a page takes it.                         *)
LEMMA MovesTo ==
  ASSUME Types, NEW c \in Callers, NEW i \in Queries(c)
  PROVE  /\ StartDetail(c, i) =>
               /\ jobs[c][i].state = "queued"
               /\ jobs'[c][i].state = IF Recorded(Asks[c][i].package)
                                      THEN "ok" ELSE "looking"
         /\ LookForClean(c, i) =>
               /\ jobs[c][i].state = "looking"
               /\ jobs'[c][i].state = IF KnownClean(Asks[c][i].package)
                                      THEN "ok" ELSE "asking"
         /\ FailDetail(c, i) => jobs'[c][i].state = "failed"
         /\ StoreRecords(c, i) =>
               /\ jobs[c][i].state = "storing"
               /\ jobs'[c][i].state \in {"filling", "ok"}
               /\ jobs'[c][i].got = jobs[c][i].got
               /\ jobs'[c][i].complete = jobs[c][i].complete
         /\ BackfillIds(c, i) => jobs'[c][i].state = "ok"
<1>1. jobs[c][i] \in Job
  BY DEF Types, TypeOK
<1>2. ASSUME NEW from, NEW job, JobMoves(c, i, from, job)
      PROVE  jobs[c][i].state = from /\ jobs'[c][i] = job
  <2>1. jobs[c][i].state = from /\ jobs' = [jobs EXCEPT ![c][i] = job]
    BY <1>2 DEF JobMoves
  <2>2. DOMAIN jobs = Callers /\ jobs[c] \in [Queries(c) -> Job]
    BY DEF Types, Domains, TypeOK
  <2> QED
    BY <2>1, <2>2
<1>3. ASSUME StartDetail(c, i)
      PROVE  /\ jobs[c][i].state = "queued"
             /\ jobs'[c][i].state = IF Recorded(Asks[c][i].package)
                                    THEN "ok" ELSE "looking"
  <2> DEFINE p    == Asks[c][i].package
             hit  == [jobs[c][i] EXCEPT !.state = "ok", !.got = detailCache[p].ids,
                                        !.complete = detailCache[p].complete]
             miss == [jobs[c][i] EXCEPT !.state = "looking"]
  <2>1. JobMoves(c, i, "queued", IF Recorded(p) THEN hit ELSE miss)
    BY <1>3 DEF StartDetail
  <2>2. hit.state = "ok" /\ miss.state = "looking"
    BY <1>1 DEF Job
  <2> HIDE DEF hit, miss
  <2> QED
    BY <1>2, <2>1, <2>2
<1>4. ASSUME LookForClean(c, i)
      PROVE  /\ jobs[c][i].state = "looking"
             /\ jobs'[c][i].state = IF KnownClean(Asks[c][i].package)
                                    THEN "ok" ELSE "asking"
  <2> DEFINE clean == [jobs[c][i] EXCEPT !.state = "ok", !.complete = TRUE]
             miss  == [jobs[c][i] EXCEPT !.state = "asking"]
  <2>1. JobMoves(c, i, "looking", IF KnownClean(Asks[c][i].package) THEN clean ELSE miss)
    BY <1>4 DEF LookForClean
  <2>2. clean.state = "ok" /\ miss.state = "asking"
    BY <1>1 DEF Job
  <2> HIDE DEF clean, miss
  <2> QED
    BY <1>2, <2>1, <2>2
<1>5. ASSUME FailDetail(c, i)
      PROVE  jobs'[c][i].state = "failed"
  <2>1. jobs'[c][i] = [jobs[c][i] EXCEPT !.state = "failed"]
    BY <1>2, <1>5 DEF FailDetail
  <2> QED
    BY <1>1, <2>1 DEF Job
<1>6. ASSUME StoreRecords(c, i)
      PROVE  /\ jobs[c][i].state = "storing"
             /\ jobs'[c][i].state \in {"filling", "ok"}
             /\ jobs'[c][i].got = jobs[c][i].got
             /\ jobs'[c][i].complete = jobs[c][i].complete
  <2> DEFINE job == [jobs[c][i] EXCEPT !.state =
                       IF Backfill(jobs[c][i].complete) THEN "filling" ELSE "ok"]
  <2>1. JobMoves(c, i, "storing", job)
    BY <1>6 DEF StoreRecords
  <2>2. /\ job.state \in {"filling", "ok"} /\ job.got = jobs[c][i].got
        /\ job.complete = jobs[c][i].complete
    BY <1>1 DEF Job
  <2> HIDE DEF job
  <2> QED
    BY <1>2, <2>1, <2>2
<1>7. ASSUME BackfillIds(c, i)
      PROVE  jobs'[c][i].state = "ok"
  <2>1. jobs'[c][i] = [jobs[c][i] EXCEPT !.state = "ok"]
    BY <1>2, <1>7 DEF BackfillIds
  <2> QED
    BY <1>1, <2>1 DEF Job
<1> QED
  BY <1>3, <1>4, <1>5, <1>6, <1>7

LEMMA InitJobs == Init => JobsFollow
<1> SUFFICES ASSUME Init, NEW c \in Callers, NEW i \in Queries(c)
             PROVE  /\ jobs[c][i].state = "none"
                    /\ jobs[c][i].got = Counted(jobs[c][i].heard)
  BY DEF JobsFollow, Waiting
<1>1. jobs[c][i] = Idle
  BY DEF Init
<1>2. QED
  BY <1>1 DEF Idle, Counted

LEMMA ScanKeepsJobs ==
  ASSUME Types, JobsFollow, NEW c \in Callers, Scan(c)
  PROVE  JobsFollow'
<1> USE DEF JobsFollow
<1>1. DOMAIN jobs = Callers /\ DOMAIN found = Callers
      /\ at \in [Callers -> {"serve", "post", "enrich", "done"}]
  BY DEF Types, Domains, TypeOK
<1>2. CASE Flip(c)
  <2>1. at[c] = "post" /\ at' = [at EXCEPT ![c] = "enrich"]
    BY <1>2 DEF Flip
  <2>2. \A i \in Queries(c) :
           /\ jobs[c][i].state = "none"
           /\ jobs[c][i].got = Counted(jobs[c][i].heard)
    BY <2>1
  <2>3. \A i \in Queries(c) : jobs[c][i] \in Job
    BY DEF Types, TypeOK
  <2>4. found'[c] = [r \in Rows(c) |-> Flagged(c, r)]
    BY <1>1, <1>2 DEF Flip
  <2>5. \A i \in Queries(c) :
           jobs'[c][i] = IF c \in Details /\ Vulnerable(c, Asks[c][i].row)
                         THEN [jobs[c][i] EXCEPT !.state = "queued"]
                         ELSE jobs[c][i]
    BY <1>1, <1>2 DEF Flip
  <2>6. ASSUME NEW i \in Queries(c)
        PROVE  /\ jobs'[c][i].got = Counted(jobs'[c][i].heard)
               /\ jobs'[c][i].state \in {"none", "queued"}
               /\ jobs'[c][i].state = "queued" => found'[c][Asks[c][i].row] # {}
    <3> DEFINE queued == [jobs[c][i] EXCEPT !.state = "queued"]
    <3>a. queued.got = jobs[c][i].got /\ queued.heard = jobs[c][i].heard
      BY <2>3 DEF Job
    <3>b. jobs[c][i].state = "none" /\ queued.state = "queued"
      BY <2>2, <2>3 DEF Job
    <3>c. \/ jobs'[c][i] = queued /\ Flagged(c, Asks[c][i].row) # {}
          \/ jobs'[c][i] = jobs[c][i]
      BY <2>5 DEF Vulnerable
    <3> HIDE DEF queued
    <3>1. /\ jobs'[c][i].got = jobs[c][i].got
          /\ jobs'[c][i].heard = jobs[c][i].heard
          /\ jobs'[c][i].state \in {"none", "queued"}
          /\ jobs'[c][i].state = "queued" => Flagged(c, Asks[c][i].row) # {}
      BY <3>a, <3>b, <3>c
    <3>2. QED
      BY <3>1, <2>2, <2>4, AsksType
  <2>7. at'[c] = "enrich"
    BY <2>1, <1>1
  <2>8. \A d \in Callers : d # c => /\ at'[d] = at[d] /\ jobs'[d] = jobs[d]
                                    /\ found'[d] = found[d]
    BY <1>1, <1>2 DEF Flip
  <2>9. QED
    BY <2>6, <2>7, <2>8 DEF Waiting
<1>3. CASE ~Flip(c)
  <2>1. UNCHANGED <<jobs, found>>
    BY <1>3 DEF Scan, Serve, BeginPosting, Posted, PostAgain, GiveUp, enrichVars
  <2>2. \/ at' = at
        \/ at' = [at EXCEPT ![c] = "done"]
        \/ at[c] = "serve" /\ at' = [at EXCEPT ![c] = "post"]
    BY <1>3 DEF Scan, Serve, BeginPosting, Posted, PostAgain, GiveUp
  <2>3. QED
    BY <2>1, <2>2, <1>1
<1>4. QED
  BY <1>2, <1>3

(* A query that moves on: it waits only if it did, and its list is what it *)
(* heard.                                                                  *)
LEMMA MoveKeepsJobs ==
  ASSUME Types, JobsFollow, NEW c \in Callers, NEW i \in Queries(c), NEW from,
         NEW job, JobMoves(c, i, from, job),
         job.state \notin {"none", "queued"},
         job.state \in Waiting => from \in Waiting /\ job.got = Counted(job.heard),
         job.state = "filling" => job.complete
  PROVE  JobsFollow'
<1>1. /\ jobs'[c][i] = job
      /\ \A d \in Callers : \A j \in Queries(d) :
            d # c \/ j # i => jobs'[d][j] = jobs[d][j]
  BY JobChanged DEF JobMoves
<1>2. UNCHANGED <<at, found>> /\ at[c] = "enrich" /\ jobs[c][i].state = from
  BY DEF JobMoves, scanVars
<1>3. QED
  BY <1>1, <1>2 DEF JobsFollow

LEMMA EnrichKeepsJobs ==
  ASSUME Types, JobsFollow, NEW c \in Callers, Enrich(c)
  PROVE  JobsFollow'
<1>1. /\ DOMAIN jobs = Callers
      /\ \A i \in Queries(c) : jobs[c][i] \in Job
      /\ at \in [Callers -> {"serve", "post", "enrich", "done"}]
  BY DEF Types, Domains, TypeOK
<1>a. \A i \in Queries(c) : jobs[c][i].state \in Waiting =>
         jobs[c][i].got = Counted(jobs[c][i].heard)
  BY DEF JobsFollow
<1>2. ASSUME NEW i \in Queries(c), StartDetail(c, i)
      PROVE  JobsFollow'
  <2> DEFINE p   == Asks[c][i].package
             job == IF Recorded(p)
                    THEN [jobs[c][i] EXCEPT !.state = "ok", !.got = detailCache[p].ids,
                                            !.complete = detailCache[p].complete]
                    ELSE [jobs[c][i] EXCEPT !.state = "looking"]
  <2>1. JobMoves(c, i, "queued", job)
    BY <1>2 DEF StartDetail
  <2>2. jobs[c][i].got = Counted(jobs[c][i].heard)
    BY <1>a, <2>1 DEF JobMoves, Waiting
  <2>3. /\ job.state \in {"ok", "looking"}
        /\ job.state = "looking" =>
              job.got = jobs[c][i].got /\ job.heard = jobs[c][i].heard
    BY <1>1 DEF Job
  <2> HIDE DEF job
  <2> QED
    BY <2>1, <2>2, <2>3, MoveKeepsJobs DEF Waiting
<1>3. ASSUME NEW i \in Queries(c), LookForClean(c, i)
      PROVE  JobsFollow'
  <2> DEFINE job == IF KnownClean(Asks[c][i].package)
                    THEN [jobs[c][i] EXCEPT !.state = "ok", !.complete = TRUE]
                    ELSE [jobs[c][i] EXCEPT !.state = "asking"]
  <2>1. JobMoves(c, i, "looking", job)
    BY <1>3 DEF LookForClean
  <2>2. jobs[c][i].got = Counted(jobs[c][i].heard)
    BY <1>a, <2>1 DEF JobMoves, Waiting
  <2>3. /\ job.state \in {"ok", "asking"}
        /\ job.got = jobs[c][i].got /\ job.heard = jobs[c][i].heard
    BY <1>1 DEF Job
  <2> HIDE DEF job
  <2> QED
    BY <2>1, <2>2, <2>3, MoveKeepsJobs DEF Waiting
<1>4. ASSUME NEW i \in Queries(c), NEW ids \in IDs, NEW last \in BOOLEAN,
             Page(c, i, ids, last)
      PROVE  JobsFollow'
  <2> DEFINE more == [jobs[c][i] EXCEPT !.got = @ \cup Counted(ids),
                                        !.heard = @ \cup ids, !.pages = @ + 1]
             job  == IF last \/ more.pages >= MaxDetailPages
                     THEN [Idle EXCEPT !.state = "storing", !.got = more.got,
                                       !.complete = last]
                     ELSE more
  <2>1. JobMoves(c, i, "asking", job)
    BY <1>4 DEF Page
  <2>2. jobs[c][i].got = Counted(jobs[c][i].heard) /\ jobs[c][i].state = "asking"
    BY <1>a, <2>1 DEF JobMoves, Waiting
  <2>3. /\ more.state = "asking"
        /\ more.got = jobs[c][i].got \cup Counted(ids)
        /\ more.heard = jobs[c][i].heard \cup ids
    BY <1>1, <2>2 DEF Job
  <2>4. /\ job.state \in {"storing", "asking"}
        /\ job.state = "asking" => job = more
    <3> HIDE DEF more
    <3> QED  BY <2>3 DEF Idle
  <2>5. Counted(jobs[c][i].heard \cup ids) = Counted(jobs[c][i].heard) \cup Counted(ids)
    BY CountedUnion
  <2> HIDE DEF job, more
  <2>6. job.state = "asking" => job.got = Counted(job.heard)
    BY <2>2, <2>3, <2>4, <2>5
  <2> QED
    BY <2>1, <2>4, <2>6, MoveKeepsJobs DEF Waiting
<1>5. ASSUME NEW i \in Queries(c), FailDetail(c, i)
      PROVE  JobsFollow'
  <2>1. JobMoves(c, i, "asking", [jobs[c][i] EXCEPT !.state = "failed"])
    BY <1>5 DEF FailDetail
  <2>2. [jobs[c][i] EXCEPT !.state = "failed"].state = "failed"
    BY <1>1 DEF Job
  <2> QED
    BY <2>1, <2>2, MoveKeepsJobs DEF Waiting
<1>6. ASSUME NEW i \in Queries(c), StoreRecords(c, i)
      PROVE  JobsFollow'
  <2> DEFINE job == [jobs[c][i] EXCEPT !.state =
                        IF Backfill(jobs[c][i].complete) THEN "filling" ELSE "ok"]
  <2>1. JobMoves(c, i, "storing", job)
    BY <1>6 DEF StoreRecords
  <2>2. /\ job.state \in {"filling", "ok"}
        /\ job.state = "filling" => job.complete
    BY <1>1 DEF Job, Backfill
  <2> HIDE DEF job
  <2> QED
    BY <2>1, <2>2, MoveKeepsJobs DEF Waiting
<1>7. ASSUME NEW i \in Queries(c), BackfillIds(c, i)
      PROVE  JobsFollow'
  <2>1. JobMoves(c, i, "filling", [jobs[c][i] EXCEPT !.state = "ok"])
    BY <1>7 DEF BackfillIds
  <2>2. [jobs[c][i] EXCEPT !.state = "ok"].state = "ok"
    BY <1>1 DEF Job
  <2> QED
    BY <2>1, <2>2, MoveKeepsJobs DEF Waiting
<1>8. CASE Collect(c)
  BY <1>1, <1>8 DEF Collect, JobsFollow
<1> QED
  BY <1>2, <1>3, <1>4, <1>5, <1>6, <1>7, <1>8, EnrichCases

LEMMA JobsStep ==
  ASSUME Types, JobsFollow, [Next]_vars
  PROVE  JobsFollow'
<1>1. CASE Revise \/ Expire \/ UNCHANGED vars
  BY <1>1 DEF JobsFollow, Revise, Expire, vars, scanVars, enrichVars
<1>2. QED
  BY <1>1, ScanKeepsJobs, EnrichKeepsJobs DEF Next, Done

(***************************************************************************)
(* What is told.                                                           *)
(***************************************************************************)
LEMMA InitTruthful == Init => Truthful
<1>1. Init => CacheTold /\ ResultsTold /\ FoundTold
  BY OsvAssumption DEF Init, CacheTold, ResultsTold, FoundTold, NoResults
<1>2. Init => ListsTold
  BY DEF Init, ListsTold, Idle
<1>3. Init => FoundNamed
  BY AsksType DEF Init, FoundNamed
<1> QED
  BY <1>1, <1>2, <1>3 DEF Truthful

(* What a step that is not an answer of OSV does: nothing is told, and the *)
(* ID cache is left alone.                                                 *)
LEMMA QuietStep ==
  ASSUME NEW c \in Callers,
         \/ \E i \in Queries(c) : Serve(c, i)
         \/ BeginPosting(c) \/ PostAgain(c) \/ GiveUp(c) \/ Flip(c)
         \/ \E i \in Queries(c) : \/ StartDetail(c, i) \/ LookForClean(c, i)
                                  \/ FailDetail(c, i) \/ StoreRecords(c, i)
         \/ Collect(c)
  PROVE  UNCHANGED <<told, cache>>
BY DEF Serve, BeginPosting, PostAgain, GiveUp, Flip, StartDetail, LookForClean,
       FailDetail, StoreRecords, Collect, osvVars, cacheVars

(* A chunk that was answered in full: each of its queries, and each        *)
(* package it stores, has the answer OSV just gave.                        *)
LEMMA PostedStep ==
  ASSUME Types, NEW c \in Callers, NEW answered, Posted(c, answered)
  PROVE  /\ \A p \in Packages : told[p] \subseteq told'[p]
         /\ \A p \in Packages :
               \/ cache'[p] = cache[p]
               \/ truth[p] \in told'[p] /\ cache'[p] = Counted(truth[p])
         /\ \A d \in Callers : \A i \in Queries(d) :
               LET p == Asks[d][i].package
               IN  \/ results'[d][i] = results[d][i]
                   \/ truth[p] \in told'[p] /\ results'[d][i] = Counted(truth[p])
         /\ UNCHANGED <<at, scanFailed, found>>
<1>1. /\ answered = Chunk(c)
      /\ told' = [p \in Packages |->
                   IF \E i \in answered : Asks[c][i].package = p
                   THEN told[p] \cup {truth[p]} ELSE told[p]]
      /\ cache' = [p \in Packages |->
                   IF StoredFor(c, p) = {} THEN cache[p]
                   ELSE Counted(Slot(c, CHOOSE i \in StoredFor(c, p) : TRUE,
                                     answered))]
      /\ results' = [results EXCEPT ![c] = [i \in Queries(c) |->
                      IF i \in Chunk(c) THEN Counted(Slot(c, i, answered))
                      ELSE results[c][i]]]
      /\ UNCHANGED <<at, scanFailed, found>>
  BY DEF Posted, Answers
<1>2. DOMAIN results = Callers /\ Chunk(c) \subseteq Queries(c)
  BY DEF Types, Domains, TypeOK, Chunk
<1>3. \A i \in Chunk(c) : /\ Slot(c, i, answered) = truth[Asks[c][i].package]
                          /\ truth[Asks[c][i].package]
                                \in told'[Asks[c][i].package]
  <2> TAKE i \in Chunk(c)
  <2>1. Asks[c][i].package \in Packages
    BY <1>2, AsksType
  <2>2. QED
    BY <1>1, <2>1 DEF Slot
<1>4. \A p \in Packages : told[p] \subseteq told'[p]
  BY <1>1
<1>5. ASSUME NEW p \in Packages, StoredFor(c, p) # {}
      PROVE  truth[p] \in told'[p] /\ cache'[p] = Counted(truth[p])
  <2>1. PICK i : i = CHOOSE j \in StoredFor(c, p) : TRUE
    OBVIOUS
  <2>2. i \in Chunk(c) /\ Asks[c][i].package = p
    BY <1>5, <2>1 DEF StoredFor
  <2>3. cache'[p] = Counted(Slot(c, i, answered))
    BY <1>1, <1>5, <2>1
  <2>4. QED
    BY <1>3, <2>2, <2>3
<1>6. \A p \in Packages : StoredFor(c, p) = {} => cache'[p] = cache[p]
  BY <1>1
<1>7. \A d \in Callers : d # c => results'[d] = results[d]
  BY <1>1
<1>8. \A i \in Queries(c) :
         results'[c][i] = IF i \in Chunk(c) THEN Counted(Slot(c, i, answered))
                          ELSE results[c][i]
  BY <1>1, <1>2
<1>9. ASSUME NEW d \in Callers, NEW i \in Queries(d),
             results'[d][i] # results[d][i]
      PROVE  /\ truth[Asks[d][i].package] \in told'[Asks[d][i].package]
             /\ results'[d][i] = Counted(truth[Asks[d][i].package])
  <2>1. d = c
    BY <1>7, <1>9
  <2>2. i \in Chunk(c) /\ results'[c][i] = Counted(Slot(c, i, answered))
    BY <1>8, <1>9, <2>1
  <2>3. QED
    BY <1>3, <2>1, <2>2
<1>10. \A p \in Packages :
          \/ cache'[p] = cache[p]
          \/ truth[p] \in told'[p] /\ cache'[p] = Counted(truth[p])
  BY <1>5, <1>6
<1>11. \A d \in Callers : \A i \in Queries(d) :
          \/ results'[d][i] = results[d][i]
          \/ /\ truth[Asks[d][i].package] \in told'[Asks[d][i].package]
             /\ results'[d][i] = Counted(truth[Asks[d][i].package])
  BY <1>9
<1>12. UNCHANGED <<at, scanFailed, found>>
  BY <1>1
<1>13. QED
  BY <1>4, <1>10, <1>11, <1>12

(* A page: what was heard by the last one is an answer of OSV.             *)
LEMMA PageStep ==
  ASSUME Types, JobsFollow, NEW c \in Callers, NEW i \in Queries(c),
         NEW ids \in IDs, NEW last \in BOOLEAN, Page(c, i, ids, last)
  PROVE  /\ \A p \in Packages : told[p] \subseteq told'[p]
         /\ cache' = cache
         /\ jobs'[c][i].state = "storing" /\ jobs'[c][i].complete =>
               \E said \in told'[Asks[c][i].package] : jobs'[c][i].got = Counted(said)
         /\ jobs'[c][i].state # "filling"
<1> DEFINE q     == Asks[c][i].package
           got   == jobs[c][i].got \cup Counted(ids)
           heard == jobs[c][i].heard \cup ids
           more  == [jobs[c][i] EXCEPT !.got = got, !.heard = heard, !.pages = @ + 1]
           whole == [Idle EXCEPT !.state = "storing", !.got = got, !.complete = last]
           over  == last \/ more.pages >= MaxDetailPages
<1>1. jobs[c][i] \in Job /\ q \in Packages
  BY AsksType DEF Types, TypeOK
<1>2. /\ told' = IF last THEN [told EXCEPT ![q] = @ \cup {heard}] ELSE told
      /\ cache' = cache
      /\ jobs[c][i].state = "asking"
      /\ jobs' = [jobs EXCEPT ![c][i] = IF over THEN whole ELSE more]
  BY <1>1 DEF Page, JobMoves, Job, cacheVars
<1>3. got = Counted(heard)
  BY <1>2, CountedUnion DEF JobsFollow, Waiting
<1>4. DOMAIN told = Packages
  BY DEF Types, TypeOK
<1>5. jobs'[c][i] = IF over THEN whole ELSE more
  <2> DEFINE job == IF over THEN whole ELSE more
  <2>1. jobs' = [jobs EXCEPT ![c][i] = job]
    BY <1>2
  <2>2. DOMAIN jobs = Callers /\ jobs[c] \in [Queries(c) -> Job]
    BY DEF Types, Domains, TypeOK
  <2> HIDE DEF job
  <2>3. jobs'[c][i] = job
    BY <2>1, <2>2
  <2> QED
    BY <2>3 DEF job
<1>6. /\ more.state = "asking"
      /\ whole.state = "storing" /\ whole.got = got /\ whole.complete = last
  BY <1>1, <1>2 DEF Job, Idle
<1> HIDE DEF q, got, heard, more, whole, over
<1>7. \A p \in Packages : told[p] \subseteq told'[p]
  BY <1>2, <1>4
<1>8. last => heard \in told'[q]
  BY <1>1, <1>2, <1>4
<1>9. /\ jobs'[c][i].state = "storing" /\ jobs'[c][i].complete =>
            last /\ jobs'[c][i].got = got
      /\ jobs'[c][i].state # "filling"
  BY <1>5, <1>6
<1>10. jobs'[c][i].state = "storing" /\ jobs'[c][i].complete =>
          \E said \in told'[q] : jobs'[c][i].got = Counted(said)
  BY <1>3, <1>8, <1>9
<1> QED
  BY <1>2, <1>7, <1>9, <1>10 DEF q

(* A back-fill replaces one entry, by a list that OSV gave.                *)
LEMMA FillStep ==
  ASSUME Types, JobsFollow, ListsTold, NEW c \in Callers, NEW i \in Queries(c),
         BackfillIds(c, i)
  PROVE  /\ told' = told
         /\ \A p \in Packages :
               \/ cache'[p] = cache[p]
               \/ \E said \in told'[p] : cache'[p] = Counted(said)
<1>1. /\ told' = told
      /\ jobs[c][i].state = "filling"
      /\ cache' = [cache EXCEPT ![Asks[c][i].package] = jobs[c][i].got]
  BY DEF BackfillIds, JobMoves
<1>2. WasTold(Asks[c][i].package, jobs[c][i].got)
  BY <1>1 DEF JobsFollow, ListsTold
<1>3. DOMAIN cache = Packages
  BY DEF Types, TypeOK
<1> QED
  BY <1>1, <1>2, <1>3 DEF WasTold

(* The caches' part of what a step does, for every step.                   *)
LEMMA ToldStep ==
  ASSUME Types, JobsFollow, ListsTold, [Next]_vars
  PROVE  /\ \A p \in Packages : told[p] \subseteq told'[p]
         /\ \A p \in Packages :
               \/ cache'[p] = cache[p]
               \/ cache'[p] = None
               \/ \E said \in told'[p] : cache'[p] = Counted(said)
<1>1. CASE Revise \/ Expire \/ UNCHANGED vars
  <2>1. told' = told
    BY <1>1 DEF Revise, Expire, vars, osvVars
  <2>2. cache' = cache \/ \E p \in Packages : cache' = [cache EXCEPT ![p] = None]
    BY <1>1 DEF Revise, Expire, vars, cacheVars
  <2>3. DOMAIN cache = Packages
    BY DEF Types, TypeOK
  <2>4. QED
    BY <2>1, <2>2, <2>3
<1>2. ASSUME NEW c \in Callers, Scan(c) \/ Enrich(c)
      PROVE  /\ \A p \in Packages : told[p] \subseteq told'[p]
             /\ \A p \in Packages :
                   \/ cache'[p] = cache[p]
                   \/ \E said \in told'[p] : cache'[p] = Counted(said)
  <2>1. ASSUME NEW answered, Posted(c, answered)
        PROVE  /\ \A p \in Packages : told[p] \subseteq told'[p]
               /\ \A p \in Packages :
                     \/ cache'[p] = cache[p]
                     \/ \E said \in told'[p] : cache'[p] = Counted(said)
    BY <2>1, PostedStep
  <2>2. ASSUME NEW i \in Queries(c), NEW ids \in IDs, NEW last \in BOOLEAN,
               Page(c, i, ids, last)
        PROVE  /\ \A p \in Packages : told[p] \subseteq told'[p]
               /\ \A p \in Packages :
                     \/ cache'[p] = cache[p]
                     \/ \E said \in told'[p] : cache'[p] = Counted(said)
    BY <2>2, PageStep
  <2>3. ASSUME NEW i \in Queries(c), BackfillIds(c, i)
        PROVE  /\ \A p \in Packages : told[p] \subseteq told'[p]
               /\ \A p \in Packages :
                     \/ cache'[p] = cache[p]
                     \/ \E said \in told'[p] : cache'[p] = Counted(said)
    BY <2>3, FillStep
  <2>4. CASE UNCHANGED <<told, cache>>
    BY <2>4
  <2>5. CASE Scan(c)
    BY <2>1, <2>4, <2>5, QuietStep DEF Scan
  <2>6. CASE Enrich(c)
    BY <2>2, <2>3, <2>4, <2>6, EnrichCases, QuietStep
  <2>7. QED
    BY <1>2, <2>5, <2>6
<1>3. QED
  BY <1>1, <1>2 DEF Next, Done

LEMMA CacheStep ==
  ASSUME Types, JobsFollow, ListsTold, CacheTold, [Next]_vars
  PROVE  CacheTold'
<1> SUFFICES ASSUME NEW p \in Packages, cache'[p] # None
             PROVE  \E said \in told'[p] : cache'[p] = Counted(said)
  BY DEF CacheTold, WasTold
<1>1. CASE cache'[p] = cache[p]
  BY <1>1, ToldStep DEF CacheTold, WasTold
<1>2. CASE cache'[p] # cache[p]
  BY <1>2, ToldStep
<1>3. QED
  BY <1>1, <1>2

(* The enrichment leaves what the scan found alone.                        *)
LEMMA EnrichFrame ==
  ASSUME NEW c \in Callers, Enrich(c)
  PROVE  /\ UNCHANGED <<results, scanFailed, found>>
         /\ \/ at' = at
            \/ at[c] = "enrich" /\ at' = [at EXCEPT ![c] = "done"]
<1>1. CASE Collect(c)
  BY <1>1 DEF Collect
<1>2. CASE ~Collect(c)
  BY <1>2, EnrichMoves DEF scanVars
<1> QED
  BY <1>1, <1>2

(* An answer a query takes is one from the cache, or one just given.       *)
LEMMA ResultsStep ==
  ASSUME Types, JobsFollow, ListsTold, CacheTold, ResultsTold, [Next]_vars
  PROVE  ResultsTold'
<1> SUFFICES ASSUME NEW d \in Callers, NEW j \in Queries(d), results'[d][j] # None
             PROVE  \E said \in told'[Asks[d][j].package] :
                       results'[d][j] = Counted(said)
  BY DEF ResultsTold, WasTold
<1> DEFINE p == Asks[d][j].package
<1>1. p \in Packages
  BY AsksType
<1>2. CASE results'[d][j] = results[d][j]
  BY <1>1, <1>2, ToldStep DEF ResultsTold, WasTold
<1>3. CASE results'[d][j] # results[d][j]
  <2>1. PICK c \in Callers : Scan(c)
    <3>1. results' # results
      BY <1>3
    <3>2. ~(Revise \/ Expire \/ UNCHANGED vars)
      BY <3>1 DEF Revise, Expire, vars, scanVars
    <3>3. \A c \in Callers : ~Enrich(c)
      BY <3>1, EnrichFrame
    <3>4. QED
      BY <3>2, <3>3 DEF Next, Done
  <2>2. /\ DOMAIN results = Callers
        /\ \A e \in Callers : results[e] \in [Queries(e) -> {None} \cup IDs]
    BY DEF Types, Domains, TypeOK
  <2>3. ASSUME NEW i \in Queries(c), Serve(c, i)
        PROVE  \E said \in told'[p] : results'[d][j] = Counted(said)
    <3>1. results' = [results EXCEPT ![c] =
                        [results[c] EXCEPT ![i] = cache[Asks[c][i].package]]]
      BY <2>3 DEF Serve
    <3>2. d = c /\ j = i /\ results'[d][j] = cache[p]
      BY <1>3, <2>2, <3>1
    <3>3. told' = told
      BY <2>3 DEF Serve, osvVars
    <3>4. QED
      BY <1>1, <3>2, <3>3 DEF CacheTold, WasTold
  <2>4. ASSUME NEW answered, Posted(c, answered)
        PROVE  \E said \in told'[p] : results'[d][j] = Counted(said)
    BY <1>3, <2>4, PostedStep
  <2>5. ASSUME GiveUp(c) \/ Flip(c)
        PROVE  FALSE
    <3>1. results' = [results EXCEPT ![c] = NoResults(c)]
      BY <2>5 DEF GiveUp, Flip
    <3>2. QED
      BY <1>3, <2>2, <3>1 DEF NoResults
  <2>6. QED
    BY <1>3, <2>1, <2>3, <2>4, <2>5 DEF Scan, BeginPosting, PostAgain
<1>4. QED
  BY <1>2, <1>3

(* A row is marked with all that its queries were answered.                *)
LEMMA FlipTold ==
  ASSUME Types, ResultsTold, NEW c \in Callers, Flip(c), NEW i \in Queries(c)
  PROVE  \E said \in told[Asks[c][i].package] :
            Counted(said) \subseteq found'[c][Asks[c][i].row]
<1>1. results[c][i] # None
  BY DEF Flip, Types, Answered
<1>2. PICK said \in told[Asks[c][i].package] : results[c][i] = Counted(said)
  BY <1>1 DEF ResultsTold, WasTold
<1>3. found'[c] = [r \in Rows(c) |-> Flagged(c, r)]
  BY DEF Flip, Types, Domains
<1>4. results[c][i] \subseteq Flagged(c, Asks[c][i].row)
  BY AsksType DEF Flagged
<1>5. QED
  BY <1>2, <1>3, <1>4, AsksType

LEMMA FoundStep ==
  ASSUME Types, JobsFollow, ListsTold, ResultsTold, FoundTold, [Next]_vars
  PROVE  FoundTold'
<1> SUFFICES ASSUME NEW d \in Callers, NEW j \in Queries(d),
                    at'[d] \in {"enrich", "done"}, ~scanFailed'[d]
             PROVE  \E said \in told'[Asks[d][j].package] :
                       Counted(said) \subseteq found'[d][Asks[d][j].row]
  BY DEF FoundTold
<1>1. \A p \in Packages : told[p] \subseteq told'[p]
  BY ToldStep
<1>2. Asks[d][j].package \in Packages
  BY AsksType
<1>3. /\ DOMAIN at = Callers /\ DOMAIN scanFailed = Callers
      /\ DOMAIN found = Callers
  BY DEF Types, Domains, TypeOK
<1>4. CASE Flip(d)
  BY <1>1, <1>2, <1>4, FlipTold
<1>5. CASE ~Flip(d)
  <2>1. /\ at[d] \in {"enrich", "done"}
        /\ ~scanFailed[d]
        /\ found'[d] = found[d]
    <3>1. CASE Revise \/ Expire \/ UNCHANGED vars
      BY <3>1 DEF Revise, Expire, vars, scanVars
    <3>2. ASSUME NEW c \in Callers, Scan(c)
          PROVE  at[d] \in {"enrich", "done"} /\ ~scanFailed[d] /\ found'[d] = found[d]
      <4>1. CASE c = d
        BY <1>3, <1>5, <3>2, <4>1 DEF Scan, Serve, BeginPosting, Posted,
                                      PostAgain, GiveUp
      <4>2. CASE c # d
        BY <1>3, <3>2, <4>2 DEF Scan, Serve, BeginPosting, Posted, PostAgain,
                                GiveUp, Flip
      <4>3. QED
        BY <4>1, <4>2
    <3>3. ASSUME NEW c \in Callers, Enrich(c)
          PROVE  at[d] \in {"enrich", "done"} /\ ~scanFailed[d] /\ found'[d] = found[d]
      BY <1>3, <3>3, EnrichFrame
    <3>4. QED
      BY <3>1, <3>2, <3>3 DEF Next, Done
  <2>2. QED
    BY <1>1, <1>2, <2>1 DEF FoundTold
<1>6. QED
  BY <1>4, <1>5

(* A list to be stored as complete is the one just heard, or it was.       *)
LEMMA ListsStep ==
  ASSUME Types, JobsFollow, ListsTold, [Next]_vars
  PROVE  ListsTold'
<1> SUFFICES ASSUME NEW d \in Callers, NEW j \in Queries(d),
                    jobs'[d][j].state \in {"storing", "filling"}, jobs'[d][j].complete
             PROVE  \E said \in told'[Asks[d][j].package] :
                       jobs'[d][j].got = Counted(said)
  BY DEF ListsTold, WasTold
<1>1. /\ \A p \in Packages : told[p] \subseteq told'[p]
      /\ Asks[d][j].package \in Packages
      /\ jobs[d][j] \in Job
  BY ToldStep, AsksType DEF Types, TypeOK
<1>2. CASE /\ jobs[d][j].state \in {"storing", "filling"} /\ jobs[d][j].complete
           /\ jobs'[d][j].got = jobs[d][j].got
  BY <1>1, <1>2 DEF ListsTold, WasTold
<1>3. CASE jobs'[d][j] = jobs[d][j]
  BY <1>2, <1>3
<1>4. CASE Revise \/ Expire \/ UNCHANGED vars \/ Done
  BY <1>3, <1>4 DEF Revise, Expire, Done, vars, enrichVars
<1>5. ASSUME NEW c \in Callers, Scan(c)
      PROVE  \E said \in told'[Asks[d][j].package] : jobs'[d][j].got = Counted(said)
  <2>1. CASE jobs' = jobs
    BY <1>3, <2>1
  <2>2. CASE Flip(c)
    <3>1. DOMAIN jobs = Callers
      BY DEF Types, Domains
    <3>2. d # c => jobs'[d] = jobs[d]
      BY <2>2, <3>1 DEF Flip
    <3>3. d = c => \/ jobs'[d][j] = jobs[d][j]
                   \/ jobs'[d][j] = [jobs[d][j] EXCEPT !.state = "queued"]
      BY <2>2, <3>1 DEF Flip
    <3>4. [jobs[d][j] EXCEPT !.state = "queued"].state = "queued"
      BY <1>1 DEF Job
    <3> QED
      BY <1>3, <3>2, <3>3, <3>4
  <2> QED
    BY <1>5, <2>1, <2>2 DEF Scan, Serve, BeginPosting, Posted, PostAgain, GiveUp, enrichVars
<1>6. ASSUME NEW c \in Callers, Enrich(c), jobs'[d][j] # jobs[d][j]
      PROVE  \E said \in told'[Asks[d][j].package] : jobs'[d][j].got = Counted(said)
  <2>1. /\ ~Collect(c)
        /\ \A i \in Queries(c) : \A from, job : JobMoves(c, i, from, job) =>
              c = d /\ i = j /\ jobs'[d][j] = job
    <3>1. ~Collect(c)
      BY <1>6 DEF Collect
    <3> QED
      BY <1>6, <3>1, OnlyMover
  <2>2. ASSUME NEW ids \in IDs, NEW last \in BOOLEAN, Page(d, j, ids, last)
        PROVE  \E said \in told'[Asks[d][j].package] : jobs'[d][j].got = Counted(said)
    BY <2>2, PageStep
  <2>3. CASE StoreRecords(d, j)
    BY <1>2, <2>3, MovesTo
  <2>4. CASE StartDetail(d, j) \/ LookForClean(d, j)
    BY <2>4, MovesTo
  <2>5. CASE FailDetail(d, j) \/ BackfillIds(d, j)
    BY <2>5, MovesTo
  <2>7. PICK i \in Queries(c) :
           \/ StartDetail(c, i)
           \/ LookForClean(c, i)
           \/ \E ids \in IDs, last \in BOOLEAN : Page(c, i, ids, last)
           \/ FailDetail(c, i)
           \/ StoreRecords(c, i)
           \/ BackfillIds(c, i)
    BY <1>6, <2>1, EnrichCases
  <2>8. \E from, job : JobMoves(c, i, from, job)
    BY <2>7 DEF StartDetail, LookForClean, Page, FailDetail, StoreRecords, BackfillIds
  <2>9. c = d /\ i = j
    BY <2>1, <2>8
  <2> QED
    BY <2>2, <2>3, <2>4, <2>5, <2>7, <2>9
<1> QED
  BY <1>3, <1>4, <1>5, <1>6 DEF Next

(* What OSV named is not unsaid, and rows get IDs only from answers.       *)
LEMMA NamedStep ==
  ASSUME Types, JobsFollow, ListsTold, ResultsTold, FoundNamed, [Next]_vars
  PROVE  FoundNamed'
<1> SUFFICES ASSUME NEW d \in Callers, NEW i \in Queries(d),
                    found'[d][Asks[d][i].row] # {}
             PROVE  \E j \in Of(d, Asks[d][i].row) :
                       \E said \in told'[Asks[d][j].package] : Counted(said) # {}
  BY DEF FoundNamed, Named
<1>1. /\ \A p \in Packages : told[p] \subseteq told'[p]
      /\ \A j \in Of(d, Asks[d][i].row) :
            j \in Queries(d) /\ Asks[d][j].package \in Packages
      /\ Asks[d][i].row \in Rows(d)
  BY ToldStep, AsksType DEF Of
<1>2. CASE found'[d] = found[d]
  <2>1. Named(d, Asks[d][i].row)
    BY <1>2 DEF FoundNamed
  <2> QED
    BY <1>1, <2>1 DEF Named
<1>3. CASE found'[d] # found[d]
  <2>1. PICK c \in Callers : Scan(c)
    <3>1. found' # found
      BY <1>3
    <3>2. ~(Revise \/ Expire \/ UNCHANGED vars)
      BY <3>1 DEF Revise, Expire, vars, scanVars
    <3>3. \A c \in Callers : ~Enrich(c)
      BY <3>1, EnrichFrame
    <3> QED
      BY <3>2, <3>3 DEF Next, Done
  <2>2. Flip(c)
    BY <1>3, <2>1 DEF Scan, Serve, BeginPosting, Posted, PostAgain, GiveUp
  <2>3. c = d /\ found'[d] = [r \in Rows(d) |-> Flagged(d, r)]
    BY <1>3, <2>2 DEF Flip, Types, Domains
  <2>4. Flagged(d, Asks[d][i].row) # {}
    BY <1>1, <2>3
  <2>5. PICK j \in Of(d, Asks[d][i].row) : results[d][j] # {}
    BY <2>4 DEF Flagged
  <2>6. results[d][j] # None
    BY <1>1, <2>2, <2>3 DEF Flip, Types, Answered
  <2>7. \E said \in told[Asks[d][j].package] : results[d][j] = Counted(said)
    BY <1>1, <2>6 DEF ResultsTold, WasTold
  <2> QED
    BY <1>1, <2>5, <2>7
<1> QED
  BY <1>2, <1>3

LEMMA TruthfulStep ==
  ASSUME Types, JobsFollow, Truthful, [Next]_vars
  PROVE  Truthful'
BY CacheStep, ResultsStep, FoundStep, ListsStep, NamedStep DEF Truthful

(* CleanIsTold -- "a truncated answer is an error, not a clean bill"       *)
(* (client.rs:186): an entry of the ID cache, and a row of a scan that did *)
(* not fail, shows at least what OSV said of that package in one complete  *)
(* answer, for any callers, chunks, pages, failures and changes of OSV.    *)
THEOREM CleanIsTold == Spec => []CleanMeansTold
<1>1. Truthful => CleanMeansTold
  BY DEF Truthful, CacheTold, FoundTold, CleanMeansTold
<1>2. QED
  BY <1>1, InitTypes, InitJobs, InitTruthful, TypesStep, JobsStep, TruthfulStep,
     PTL DEF Spec

(***************************************************************************)
(* What is asked.                                                          *)
(***************************************************************************)
(* What may come to a cache about a package in a step, and its record.     *)
Recording(p) ==
    /\ overtaken.records \subseteq overtaken'.records
    /\ overtaken.clean \subseteq overtaken'.clean
    /\ \/ detailCache'[p] \in {None, detailCache[p]}
       \/ RecordsComeLate(p)
    /\ \/ cache'[p] = cache[p]
       \/ cache'[p] # {}
       \/ \E packages : p \in packages /\ CleanComesLate(packages)

LEMMA RecordingStep ==
  ASSUME Types, [Next]_vars, NEW p \in Packages
  PROVE  Recording(p)
<1>1. /\ overtaken \in Late /\ DOMAIN cache = Packages
      /\ DOMAIN detailCache = Packages /\ None # {}
  BY OsvAssumption DEF Types, TypeOK, IDs
<1>2. CASE UNCHANGED <<cache, detailCache, overtaken>>
  BY <1>2 DEF Recording
<1>3. CASE Expire
  <2>1. /\ overtaken' = overtaken
        /\ \E q \in Packages :
              \/ cache' = [cache EXCEPT ![q] = None] /\ detailCache' = detailCache
              \/ detailCache' = [detailCache EXCEPT ![q] = None] /\ cache' = cache
    BY <1>3 DEF Expire
  <2> QED
    BY <1>1, <2>1 DEF Recording
<1>4. ASSUME NEW c \in Callers, NEW answered, Posted(c, answered)
      PROVE  Recording(p)
  <2> DEFINE late == {q \in Packages : StoredFor(c, q) # {} /\ cache'[q] = {}}
  <2>1. /\ CleanComesLate(late)
        /\ detailCache' = detailCache
        /\ StoredFor(c, p) = {} => cache'[p] = cache[p]
    BY <1>4 DEF Posted
  <2>2. /\ overtaken.records \subseteq overtaken'.records
        /\ overtaken.clean \subseteq overtaken'.clean
    BY <1>1, <2>1, OvertakenType
  <2>3. cache'[p] = cache[p] \/ cache'[p] # {} \/ p \in late
    BY <2>1
  <2> HIDE DEF late
  <2> QED
    BY <2>1, <2>2, <2>3 DEF Recording
<1>5. ASSUME NEW c \in Callers, NEW i \in Queries(c), StoreRecords(c, i)
      PROVE  Recording(p)
  <2>1. /\ RecordsComeLate(Asks[c][i].package)
        /\ cache' = cache
        /\ \E kept : detailCache' = [detailCache EXCEPT ![Asks[c][i].package] = kept]
    BY <1>5 DEF StoreRecords
  <2>2. /\ overtaken.records \subseteq overtaken'.records
        /\ overtaken.clean \subseteq overtaken'.clean
    BY <1>1, <2>1, OvertakenType
  <2>3. Asks[c][i].package = p \/ detailCache'[p] = detailCache[p]
    BY <2>1
  <2> QED
    BY <2>1, <2>2, <2>3 DEF Recording
<1>6. ASSUME NEW c \in Callers, NEW i \in Queries(c), BackfillIds(c, i)
      PROVE  Recording(p)
  <2> DEFINE q    == Asks[c][i].package
             late == {o \in {q} : jobs[c][i].got = {}}
  <2>1. /\ CleanComesLate(late)
        /\ detailCache' = detailCache
        /\ cache' = [cache EXCEPT ![q] = jobs[c][i].got]
    BY <1>6 DEF BackfillIds
  <2>2. /\ overtaken.records \subseteq overtaken'.records
        /\ overtaken.clean \subseteq overtaken'.clean
    BY <1>1, <2>1, OvertakenType
  <2>3. cache'[p] = cache[p] \/ cache'[p] # {} \/ p \in late
    BY <1>1, <2>1
  <2> HIDE DEF late, q
  <2> QED
    BY <2>1, <2>2, <2>3 DEF Recording
<1>7. ASSUME NEW c \in Callers, Scan(c)
      PROVE  Recording(p)
  BY <1>2, <1>4, <1>7 DEF Scan, Serve, BeginPosting, PostAgain, GiveUp, Flip, cacheVars
<1>8. ASSUME NEW c \in Callers, Enrich(c)
      PROVE  Recording(p)
  <2>1. ASSUME NEW i \in Queries(c), NEW ids \in IDs, NEW last \in BOOLEAN,
               Page(c, i, ids, last)
        PROVE  Recording(p)
    BY <1>2, <2>1 DEF Page, cacheVars
  <2>2. ASSUME NEW i \in Queries(c),
               StartDetail(c, i) \/ LookForClean(c, i) \/ FailDetail(c, i)
        PROVE  Recording(p)
    BY <1>2, <2>2 DEF StartDetail, LookForClean, FailDetail, cacheVars
  <2>3. CASE Collect(c)
    BY <1>2, <2>3 DEF Collect, cacheVars
  <2> QED
    BY <1>5, <1>6, <1>8, <2>1, <2>2, <2>3, EnrichCases
<1>9. CASE Revise \/ UNCHANGED vars
  BY <1>2, <1>9 DEF Revise, vars, cacheVars
<1> QED
  BY <1>3, <1>7, <1>8, <1>9 DEF Next, Done

(* A query that looks or asks did so before, or just went on to.           *)
LEMMA AskStep ==
  ASSUME Types, JobsFollow, [Next]_vars, NEW d \in Callers, NEW j \in Queries(d),
         jobs'[d][j].state \in {"looking", "asking"}
  PROVE  \/ jobs[d][j].state = jobs'[d][j].state
         \/ StartDetail(d, j) /\ jobs'[d][j].state = "looking"
         \/ LookForClean(d, j) /\ jobs'[d][j].state = "asking"
<1> SUFFICES ASSUME jobs'[d][j].state # jobs[d][j].state
             PROVE  \/ StartDetail(d, j) /\ jobs'[d][j].state = "looking"
                    \/ LookForClean(d, j) /\ jobs'[d][j].state = "asking"
  OBVIOUS
<1>1. DOMAIN jobs = Callers /\ jobs[d][j] \in Job
  BY DEF Types, Domains, TypeOK
<1>2. PICK c \in Callers : Scan(c) \/ Enrich(c)
  BY DEF Next, Done, vars, Revise, Expire, enrichVars
<1>3. ~Scan(c)
  <2>1. SUFFICES ASSUME Scan(c) PROVE FALSE
    OBVIOUS
  <2>2. Flip(c)
    BY <2>1 DEF Scan, Serve, BeginPosting, Posted, PostAgain, GiveUp, enrichVars
  <2>3. d # c => jobs'[d] = jobs[d]
    BY <1>1, <2>2 DEF Flip
  <2>4. d = c => \/ jobs'[d][j] = jobs[d][j]
                 \/ jobs'[d][j] = [jobs[d][j] EXCEPT !.state = "queued"]
    BY <1>1, <2>2 DEF Flip
  <2>5. [jobs[d][j] EXCEPT !.state = "queued"].state = "queued"
    BY <1>1 DEF Job
  <2> QED
    BY <2>3, <2>4, <2>5
<1>4. /\ Enrich(c) /\ ~Collect(c)
      /\ \A i \in Queries(c) : \A from, job : JobMoves(c, i, from, job) =>
            c = d /\ i = j /\ jobs'[d][j] = job /\ jobs[d][j].state = from
  <2>1. Enrich(c) /\ ~Collect(c)
    BY <1>2, <1>3 DEF Collect
  <2>2. jobs'[d][j] # jobs[d][j]
    OBVIOUS
  <2> QED
    BY <2>1, <2>2, OnlyMover
<1>5. PICK i \in Queries(c) :
         \/ StartDetail(c, i)
         \/ LookForClean(c, i)
         \/ \E ids \in IDs, last \in BOOLEAN : Page(c, i, ids, last)
         \/ FailDetail(c, i)
         \/ StoreRecords(c, i)
         \/ BackfillIds(c, i)
  BY <1>4, EnrichCases
<1>6. \E from, job : JobMoves(c, i, from, job)
  BY <1>5 DEF StartDetail, LookForClean, Page, FailDetail, StoreRecords, BackfillIds
<1>7. c = d /\ i = j
  BY <1>4, <1>6
<1>8. CASE StartDetail(d, j)
  BY <1>8, MovesTo
<1>9. CASE LookForClean(d, j)
  BY <1>9, MovesTo
<1>10. ASSUME NEW ids \in IDs, NEW last \in BOOLEAN, Page(d, j, ids, last)
       PROVE  FALSE
  <2>1. PICK job : JobMoves(d, j, "asking", job) /\ job.state \in {"storing", "asking"}
    <3> DEFINE more  == [jobs[d][j] EXCEPT !.got = @ \cup Counted(ids),
                                           !.heard = @ \cup ids, !.pages = @ + 1]
               whole == [Idle EXCEPT !.state = "storing", !.got = more.got,
                                     !.complete = last]
    <3>1. JobMoves(d, j, "asking", IF last \/ more.pages >= MaxDetailPages
                                  THEN whole ELSE more)
      BY <1>10 DEF Page
    <3>2. jobs[d][j].state = "asking"
      BY <3>1 DEF JobMoves
    <3>3. more.state = "asking" /\ whole.state = "storing"
      BY <1>1, <3>2 DEF Job, Idle
    <3> HIDE DEF more, whole
    <3> QED
      BY <3>1, <3>3
  <2>2. jobs'[d][j] = job /\ jobs[d][j].state = "asking"
    BY <1>4, <1>7, <2>1
  <2> QED
    BY <2>1, <2>2
<1>11. CASE FailDetail(d, j) \/ StoreRecords(d, j) \/ BackfillIds(d, j)
  BY <1>11, MovesTo
<1> QED
  BY <1>5, <1>7, <1>8, <1>9, <1>10, <1>11

LEMMA InitOvertaking == Init => Overtaking
BY DEF Init, Overtaking, Idle

LEMMA OvertakingStep ==
  ASSUME Types, JobsFollow, Overtaking, [Next]_vars
  PROVE  Overtaking'
<1> SUFFICES ASSUME NEW d \in Callers, NEW j \in Queries(d)
             PROVE  /\ /\ jobs'[d][j].state \in {"looking", "asking"}
                       /\ detailCache'[Asks[d][j].package] # None
                       => <<d, j>> \in overtaken'.records
                    /\ /\ jobs'[d][j].state = "asking"
                       /\ cache'[Asks[d][j].package] = {}
                       => <<d, j>> \in overtaken'.clean
  BY DEF Overtaking
<1> DEFINE p == Asks[d][j].package
<1>1. p \in Packages /\ overtaken \in Late
  BY AsksType DEF Types, TypeOK
<1>2. Recording(p)
  BY <1>1, RecordingStep
<1>3. /\ /\ jobs[d][j].state \in {"looking", "asking"} /\ detailCache[p] # None
         => <<d, j>> \in overtaken.records
      /\ jobs[d][j].state = "asking" /\ cache[p] = {} => <<d, j>> \in overtaken.clean
  BY DEF Overtaking
<1>4. ASSUME NEW packages, p \in packages, NEW states, jobs[d][j].state \in states
      PROVE  <<d, j>> \in About(packages, states)
  <2>1. j \in JobsIn(d, states) /\ j \in Numbers
    BY <1>4 DEF JobsIn, Numbers
  <2> QED
    BY <1>4, <2>1 DEF About
<1>5. RecordsComeLate(p) /\ jobs[d][j].state \in {"looking", "asking"} =>
         <<d, j>> \in overtaken'.records
  <2>1. RecordsComeLate(p) =>
           overtaken'.records = overtaken.records \cup About({p}, {"looking", "asking"})
    BY <1>1 DEF RecordsComeLate, Late
  <2> QED
    BY <1>4, <2>1
<1>6. \A packages : p \in packages /\ CleanComesLate(packages)
                      /\ jobs[d][j].state = "asking" => <<d, j>> \in overtaken'.clean
  <2>1. \A packages : CleanComesLate(packages) =>
           overtaken'.clean = overtaken.clean \cup About(packages, {"asking"})
    BY <1>1 DEF CleanComesLate, Late
  <2> QED
    BY <1>4, <2>1
<1>7. ASSUME jobs'[d][j].state \in {"looking", "asking"}, detailCache'[p] # None
      PROVE  <<d, j>> \in overtaken'.records
  <2>1. CASE jobs[d][j].state \in {"looking", "asking"}
    BY <1>2, <1>3, <1>5, <1>7, <2>1 DEF Recording
  <2>2. CASE StartDetail(d, j) /\ jobs'[d][j].state = "looking"
    <3>1. detailCache' = detailCache
      BY <2>2 DEF StartDetail, cacheVars
    <3>3. ~Recorded(p)
      BY <2>2, MovesTo
    <3> QED
      BY <1>7, <3>1, <3>3 DEF Recorded
  <2>3. CASE LookForClean(d, j)
    BY <2>1, <2>3 DEF LookForClean, JobMoves
  <2> QED
    BY <1>7, <2>1, <2>2, <2>3, AskStep
<1>8. ASSUME jobs'[d][j].state = "asking", cache'[p] = {}
      PROVE  <<d, j>> \in overtaken'.clean
  <2>1. CASE jobs[d][j].state = "asking"
    BY <1>2, <1>3, <1>6, <1>8, <2>1 DEF Recording
  <2>2. CASE LookForClean(d, j)
    <3>1. cache' = cache
      BY <2>2 DEF LookForClean, cacheVars
    <3>3. ~KnownClean(p)
      BY <1>8, <2>2, MovesTo
    <3> QED
      BY <1>8, <3>1, <3>3 DEF KnownClean
  <2> QED
    BY <1>8, <2>1, <2>2, AskStep
<1> QED
  BY <1>7, <1>8

(* AskedOnlyWhileOpen -- for any callers, limits and interleaving of their *)
(* lookups and stores, a detail request is under way only for a row of     *)
(* which OSV named an advisory, and about a package that each cache was    *)
(* silent about when the query looked there (client.rs:237, :240).         *)
THEOREM AskedOnlyWhileOpen == Spec => []AskedWhileOpen
<1>1. Types /\ JobsFollow /\ Truthful /\ Overtaking => AskedWhileOpen
  BY DEF JobsFollow, Truthful, FoundNamed, Named, Overtaking, AskedWhileOpen,
         JobsIn, Waiting
<1> QED
  BY <1>1, InitTypes, InitJobs, InitTruthful, InitOvertaking, TypesStep, JobsStep,
     TruthfulStep, OvertakingStep, PTL DEF Spec

(***************************************************************************)
(* What the records say, while OSV says the same.                          *)
(***************************************************************************)
(* What counts of what OSV holds about a query's package.                  *)
Held(c, i) == Counted(truth[Asks[c][i].package])

(* What is kept of a package is what OSV holds of it, or the part of it    *)
(* that a list cut at the bound has; and so is what a query gathered.      *)
Listed(p, kept) ==
    kept # None => /\ kept.ids \subseteq Counted(truth[p])
                   /\ kept.complete => kept.ids = Counted(truth[p])

Gathered(c, i, job) ==
    /\ job.heard \subseteq truth[Asks[c][i].package]
    /\ job.got \subseteq Held(c, i)
    /\ job.state \in {"storing", "filling", "ok"} /\ job.complete =>
          job.got = Held(c, i)

ToldSteady == \A p \in Packages : told[p] \subseteq {truth[p]}
ListsSteady == \A p \in Packages : Listed(p, detailCache[p])
JobsSteady == \A c \in Callers : \A i \in Queries(c) : Gathered(c, i, jobs[c][i])

Steady == changes = 0 => ToldSteady /\ ListsSteady /\ JobsSteady

(* Only a scan that did not fail is enriched, and only its end attaches    *)
(* records.                                                                *)
Explained(c) ==
    /\ \A r \in Rows(c) : records[c][r] \subseteq found[c][r]
    /\ \A i \in Queries(c) :
          jobs[c][i].state # "none" =>
             \/ jobs[c][i].state = "failed" /\ enrichFailed[c]
             \/ jobs[c][i].state = "ok" /\ ~jobs[c][i].complete
             \/ Held(c, i) \subseteq records[c][Asks[c][i].row]

Attaching ==
    \A c \in Callers :
        /\ at[c] # "done" => ~scanFailed[c] /\ \A r \in Rows(c) : records[c][r] = {}
        /\ at[c] = "done" /\ changes = 0 => Explained(c)

LEMMA InitSteady == Init => Steady /\ Attaching
BY DEF Init, Steady, ToldSteady, ListsSteady, JobsSteady, Listed, Gathered, Idle,
       Attaching

(* OSV has not changed only if it had not, and this step is no change.     *)
LEMMA Unrevised ==
  ASSUME Types, [Next]_vars, changes' = 0
  PROVE  changes = 0 /\ truth' = truth
<1>1. changes \in Nat
  BY DEF Types, TypeOK
<1>2. ~Revise
  BY <1>1 DEF Revise
<1>3. ASSUME NEW c \in Callers, Scan(c) PROVE UNCHANGED <<changes, truth>>
  BY <1>3 DEF Scan, Serve, BeginPosting, Posted, PostAgain, GiveUp, Flip, osvVars
<1>4. ASSUME NEW c \in Callers, Enrich(c) PROVE UNCHANGED <<changes, truth>>
  BY <1>4, EnrichMoves DEF Collect, osvVars
<1>5. CASE Expire \/ UNCHANGED vars
  BY <1>5 DEF Expire, vars, osvVars
<1> QED
  BY <1>2, <1>3, <1>4, <1>5 DEF Next, Done

LEMMA GatheredKept ==
  ASSUME Types, truth' = truth, JobsSteady, NEW c \in Callers, NEW i \in Queries(c),
         NEW job, jobs' = [jobs EXCEPT ![c][i] = job], Gathered(c, i, job)
  PROVE  JobsSteady'
<1>1. /\ jobs'[c][i] = job
      /\ \A d \in Callers : \A j \in Queries(d) :
            d # c \/ j # i => jobs'[d][j] = jobs[d][j]
  BY JobChanged, ZenonT(30)
<1>2. ASSUME NEW d \in Callers, NEW j \in Queries(d)
      PROVE  Gathered(d, j, jobs'[d][j])
  BY <1>1 DEF JobsSteady
<1> QED
  BY <1>2 DEF JobsSteady, Gathered, Held

LEMMA ScanSteady ==
  ASSUME Types, truth' = truth, ToldSteady, ListsSteady, JobsSteady,
         NEW c \in Callers, Scan(c)
  PROVE  (ToldSteady /\ ListsSteady /\ JobsSteady)'
<1>1. detailCache' = detailCache
  BY DEF Scan, Serve, BeginPosting, Posted, PostAgain, GiveUp, Flip, cacheVars
<1>2. ListsSteady'
  BY <1>1 DEF ListsSteady, Listed
<1>3. \A p \in Packages : told'[p] \subseteq told[p] \cup {truth[p]}
  <2>1. ASSUME NEW answered, Posted(c, answered)
        PROVE  \A p \in Packages : told'[p] \subseteq told[p] \cup {truth[p]}
    BY <2>1 DEF Posted
  <2>2. CASE told' = told
    BY <2>2
  <2> QED
    BY <2>1, <2>2 DEF Scan, Serve, BeginPosting, PostAgain, GiveUp, Flip, osvVars
<1>4. ToldSteady'
  BY <1>3 DEF ToldSteady
<1>5. JobsSteady'
  <2>1. CASE jobs' = jobs
    BY <2>1 DEF JobsSteady, Gathered, Held
  <2>2. CASE Flip(c)
    <3>1. /\ DOMAIN jobs = Callers
          /\ \A d \in Callers : jobs[d] \in [Queries(d) -> Job]
      BY DEF Types, Domains, TypeOK
    <3>2. \A d \in Callers : d # c => jobs'[d] = jobs[d]
      BY <2>2, <3>1 DEF Flip
    <3>3. \A i \in Queries(c) :
            \/ jobs'[c][i] = jobs[c][i]
            \/ jobs'[c][i] = [jobs[c][i] EXCEPT !.state = "queued"]
      BY <2>2, <3>1 DEF Flip
    <3>4. ASSUME NEW d \in Callers, NEW i \in Queries(d)
          PROVE  Gathered(d, i, jobs'[d][i])
      <4>1. jobs[d][i] \in Job /\ Gathered(d, i, jobs[d][i])
        BY <3>1 DEF JobsSteady
      <4>2. CASE jobs'[d][i] = jobs[d][i]
        BY <4>1, <4>2
      <4>3. CASE jobs'[d][i] = [jobs[d][i] EXCEPT !.state = "queued"]
        <5>1. /\ jobs'[d][i].heard = jobs[d][i].heard
              /\ jobs'[d][i].got = jobs[d][i].got
              /\ jobs'[d][i].state = "queued"
          BY <4>1, <4>3 DEF Job
        <5> QED
          BY <4>1, <5>1 DEF Gathered
      <4> QED
        BY <3>2, <3>3, <4>2, <4>3
    <3> QED
      BY <3>4 DEF JobsSteady, Gathered, Held
  <2> QED
    BY <2>1, <2>2 DEF Scan, Serve, BeginPosting, Posted, PostAgain, GiveUp, enrichVars
<1> QED
  BY <1>2, <1>4, <1>5

(* A query that moves on with what OSV holds.                              *)
LEMMA MoveSteady ==
  ASSUME Types, truth' = truth, ToldSteady, ListsSteady, JobsSteady,
         NEW c \in Callers, NEW i \in Queries(c), NEW from, NEW job,
         JobMoves(c, i, from, job), Gathered(c, i, job),
         told' = told, detailCache' = detailCache
  PROVE  (ToldSteady /\ ListsSteady /\ JobsSteady)'
<1>1. JobsSteady'
  BY GatheredKept DEF JobMoves
<1> QED
  BY <1>1 DEF ToldSteady, ListsSteady, Listed

LEMMA StartSteady ==
  ASSUME Types, truth' = truth, ToldSteady, ListsSteady, JobsSteady,
         NEW c \in Callers, NEW i \in Queries(c), StartDetail(c, i)
  PROVE  (ToldSteady /\ ListsSteady /\ JobsSteady)'
<1> DEFINE p    == Asks[c][i].package
           hit  == [jobs[c][i] EXCEPT !.state = "ok", !.got = detailCache[p].ids,
                                      !.complete = detailCache[p].complete]
           miss == [jobs[c][i] EXCEPT !.state = "looking"]
<1>1. /\ JobMoves(c, i, "queued", IF Recorded(p) THEN hit ELSE miss)
      /\ told' = told /\ detailCache' = detailCache
  BY DEF StartDetail, cacheVars
<1>2. /\ jobs[c][i] \in Job /\ p \in Packages /\ Gathered(c, i, jobs[c][i])
      /\ Listed(p, detailCache[p])
  BY AsksType DEF Types, TypeOK, JobsSteady, ListsSteady
<1>3. /\ hit.heard = jobs[c][i].heard /\ hit.got = detailCache[p].ids
      /\ hit.complete = detailCache[p].complete
      /\ miss.heard = jobs[c][i].heard /\ miss.got = jobs[c][i].got
      /\ miss.state = "looking"
  BY <1>2 DEF Job
<1>4. Recorded(p) => /\ hit.got \subseteq Held(c, i)
                     /\ hit.complete => hit.got = Held(c, i)
  BY <1>2, <1>3 DEF Listed, Held, Recorded
<1> HIDE DEF hit, miss
<1>5. Recorded(p) => Gathered(c, i, hit)
  BY <1>2, <1>3, <1>4 DEF Gathered
<1>6. Gathered(c, i, miss)
  BY <1>2, <1>3 DEF Gathered
<1>7. Gathered(c, i, IF Recorded(p) THEN hit ELSE miss)
  BY <1>5, <1>6
<1> QED
  BY <1>1, <1>7, MoveSteady

LEMMA LookSteady ==
  ASSUME Types, JobsFollow, CacheTold, truth' = truth, ToldSteady, ListsSteady,
         JobsSteady, NEW c \in Callers, NEW i \in Queries(c), LookForClean(c, i)
  PROVE  (ToldSteady /\ ListsSteady /\ JobsSteady)'
<1> DEFINE p     == Asks[c][i].package
           clean == [jobs[c][i] EXCEPT !.state = "ok", !.complete = TRUE]
           miss  == [jobs[c][i] EXCEPT !.state = "asking"]
<1>1. /\ JobMoves(c, i, "looking", IF KnownClean(p) THEN clean ELSE miss)
      /\ told' = told /\ detailCache' = detailCache
  BY DEF LookForClean, cacheVars
<1>2. /\ jobs[c][i] \in Job /\ p \in Packages /\ Gathered(c, i, jobs[c][i])
      /\ jobs[c][i].state = "looking"
  BY <1>1, AsksType DEF Types, TypeOK, JobsSteady, JobMoves
<1>3. /\ clean.heard = jobs[c][i].heard /\ clean.got = jobs[c][i].got
      /\ miss.heard = jobs[c][i].heard /\ miss.got = jobs[c][i].got
      /\ miss.state = "asking"
  BY <1>2 DEF Job
<1>4. Gathered(c, i, miss)
  <2> HIDE DEF miss
  <2> QED
    BY <1>2, <1>3 DEF Gathered
<1>5. ASSUME KnownClean(p) PROVE Gathered(c, i, clean)
  <2>1. PICK said \in told[p] : {} = Counted(said)
    <3>1. cache[p] = {} /\ {} # None
      BY <1>5, OsvAssumption DEF KnownClean, IDs
    <3> QED
      BY <1>2, <3>1 DEF CacheTold, WasTold
  <2>2. Held(c, i) = {}
    BY <1>2, <2>1 DEF ToldSteady, Held
  <2> HIDE DEF clean
  <2> QED
    BY <1>2, <1>3, <2>2 DEF Gathered
<1>6. Gathered(c, i, IF KnownClean(p) THEN clean ELSE miss)
  BY <1>4, <1>5
<1> HIDE DEF clean, miss
<1> QED
  BY <1>1, <1>6, MoveSteady

(* A page adds to what was heard; the last one completes it.               *)
LEMMA PageSteady ==
  ASSUME Types, JobsFollow, truth' = truth, ToldSteady, ListsSteady, JobsSteady,
         NEW c \in Callers, NEW i \in Queries(c), NEW ids \in IDs,
         NEW last \in BOOLEAN, Page(c, i, ids, last)
  PROVE  (ToldSteady /\ ListsSteady /\ JobsSteady)'
<1> DEFINE p     == Asks[c][i].package
           got   == jobs[c][i].got \cup Counted(ids)
           heard == jobs[c][i].heard \cup ids
           more  == [jobs[c][i] EXCEPT !.got = got, !.heard = heard, !.pages = @ + 1]
           over  == last \/ more.pages >= MaxDetailPages
           whole == [Idle EXCEPT !.state = "storing", !.got = got, !.complete = last]
<1>1. jobs[c][i] \in Job /\ p \in Packages /\ Gathered(c, i, jobs[c][i])
      /\ jobs[c][i].state = "asking"
  BY AsksType DEF Types, TypeOK, JobsSteady, Page, JobMoves
<1>2. /\ more.got = got /\ more.heard = heard /\ more.state = "asking"
      /\ whole.got = got /\ whole.heard = {} /\ whole.complete = last
  BY <1>1 DEF Job, Idle
<1>3. /\ jobs' = [jobs EXCEPT ![c][i] = IF over THEN whole ELSE more]
      /\ told' = IF last THEN [told EXCEPT ![p] = @ \cup {heard}] ELSE told
      /\ detailCache' = detailCache
      /\ ids \subseteq truth[p] \ jobs[c][i].heard
      /\ last => truth[p] \ jobs[c][i].heard \subseteq ids
  BY <1>1, <1>2 DEF Page, JobMoves, cacheVars
<1>4. heard \subseteq truth[p] /\ (last => heard = truth[p])
  BY <1>1, <1>3 DEF Gathered
<1>5. got = Counted(heard)
  BY <1>1, CountedUnion DEF JobsFollow, Waiting
<1>6. got \subseteq Counted(truth[p]) /\ (last => got = Counted(truth[p]))
  <2> HIDE DEF got, heard
  <2> QED
    BY <1>4, <1>5 DEF Counted
<1>7. DOMAIN told = Packages
  BY DEF Types, TypeOK
<1> HIDE DEF got, heard, more, whole, over, p
<1>9. ToldSteady'
  BY <1>3, <1>4, <1>7 DEF ToldSteady
<1>11. ListsSteady'
  BY <1>3 DEF ListsSteady, Listed
<1>12. Gathered(c, i, IF over THEN whole ELSE more)
  <2>1. Held(c, i) = Counted(truth[p]) /\ p = Asks[c][i].package
    BY DEF Held, p
  <2>2. Gathered(c, i, whole)
    BY <1>2, <1>6, <2>1 DEF Gathered
  <2>3. Gathered(c, i, more)
    BY <1>2, <1>4, <1>6, <2>1 DEF Gathered
  <2> QED
    BY <2>2, <2>3
<1>13. JobsSteady'
  BY <1>3, <1>12, GatheredKept
<1> QED
  BY <1>9, <1>11, <1>13

(* What is stored of a package is what was gathered.                       *)
LEMMA StoreSteady ==
  ASSUME Types, truth' = truth, ToldSteady, ListsSteady, JobsSteady,
         NEW c \in Callers, NEW i \in Queries(c), StoreRecords(c, i)
  PROVE  (ToldSteady /\ ListsSteady /\ JobsSteady)'
<1> DEFINE p    == Asks[c][i].package
           job  == [jobs[c][i] EXCEPT !.state =
                      IF Backfill(jobs[c][i].complete) THEN "filling" ELSE "ok"]
           kept == [ids |-> jobs[c][i].got, complete |-> jobs[c][i].complete]
<1>1. /\ JobMoves(c, i, "storing", job)
      /\ detailCache' = [detailCache EXCEPT ![p] = kept]
      /\ told' = told
  BY DEF StoreRecords
<1>2. /\ jobs[c][i] \in Job /\ p \in Packages /\ Gathered(c, i, jobs[c][i])
      /\ jobs[c][i].state = "storing" /\ DOMAIN detailCache = Packages
  BY <1>1, AsksType DEF Types, TypeOK, JobsSteady, JobMoves
<1>3. /\ job.heard = jobs[c][i].heard /\ job.got = jobs[c][i].got
      /\ job.complete = jobs[c][i].complete
      /\ kept.ids = jobs[c][i].got /\ kept.complete = jobs[c][i].complete
  BY <1>2 DEF Job
<1> HIDE DEF job, kept
<1>4. Gathered(c, i, job)
  BY <1>2, <1>3 DEF Gathered
<1>5. Listed(p, kept)
  BY <1>2, <1>3 DEF Gathered, Listed, Held
<1>6. ListsSteady'
  <2>1. \A q \in Packages : Listed(q, detailCache'[q])
    BY <1>1, <1>2, <1>5 DEF ListsSteady
  <2> QED
    BY <2>1 DEF ListsSteady, Listed
<1>7. JobsSteady'
  BY <1>1, <1>4, GatheredKept DEF JobMoves
<1> QED
  BY <1>1, <1>6, <1>7 DEF ToldSteady

LEMMA RestSteady ==
  ASSUME Types, truth' = truth, ToldSteady, ListsSteady, JobsSteady,
         NEW c \in Callers, NEW i \in Queries(c), FailDetail(c, i) \/ BackfillIds(c, i)
  PROVE  (ToldSteady /\ ListsSteady /\ JobsSteady)'
<1>1. jobs[c][i] \in Job /\ Gathered(c, i, jobs[c][i])
  BY DEF Types, TypeOK, JobsSteady
<1>2. CASE FailDetail(c, i)
  <2> DEFINE job == [jobs[c][i] EXCEPT !.state = "failed"]
  <2>1. /\ JobMoves(c, i, "asking", job)
        /\ told' = told /\ detailCache' = detailCache
    BY <1>2 DEF FailDetail, cacheVars
  <2>2. /\ job.heard = jobs[c][i].heard /\ job.got = jobs[c][i].got
        /\ job.state = "failed"
    BY <1>1 DEF Job
  <2> HIDE DEF job
  <2>3. Gathered(c, i, job)
    BY <1>1, <2>2 DEF Gathered
  <2> QED
    BY <2>1, <2>3, MoveSteady
<1>3. CASE BackfillIds(c, i)
  <2> DEFINE job == [jobs[c][i] EXCEPT !.state = "ok"]
  <2>1. /\ JobMoves(c, i, "filling", job)
        /\ told' = told /\ detailCache' = detailCache
    BY <1>3 DEF BackfillIds
  <2>2. /\ job.heard = jobs[c][i].heard /\ job.got = jobs[c][i].got
        /\ job.complete = jobs[c][i].complete /\ jobs[c][i].state = "filling"
    BY <1>1, <2>1 DEF Job, JobMoves
  <2> HIDE DEF job
  <2>3. Gathered(c, i, job)
    BY <1>1, <2>2 DEF Gathered
  <2> QED
    BY <2>1, <2>3, MoveSteady
<1> QED
  BY <1>2, <1>3

LEMMA SteadyStep ==
  ASSUME Types, JobsFollow, Truthful, Steady, [Next]_vars
  PROVE  Steady'
<1> SUFFICES ASSUME changes' = 0 PROVE (ToldSteady /\ ListsSteady /\ JobsSteady)'
  BY DEF Steady
<1>1. truth' = truth /\ ToldSteady /\ ListsSteady /\ JobsSteady /\ CacheTold
  BY Unrevised DEF Steady, Truthful
<1>2. ASSUME NEW c \in Callers, Scan(c)
      PROVE  (ToldSteady /\ ListsSteady /\ JobsSteady)'
  BY <1>1, <1>2, ScanSteady
<1>3. ASSUME NEW c \in Callers, Enrich(c)
      PROVE  (ToldSteady /\ ListsSteady /\ JobsSteady)'
  <2>1. CASE Collect(c)
    BY <1>1, <2>1 DEF Collect, osvVars, cacheVars, ToldSteady, ListsSteady, Listed,
                      JobsSteady, Gathered, Held
  <2>2. ASSUME NEW i \in Queries(c), NEW ids \in IDs, NEW last \in BOOLEAN,
               Page(c, i, ids, last)
        PROVE  (ToldSteady /\ ListsSteady /\ JobsSteady)'
    BY <1>1, <2>2, PageSteady
  <2> QED
    BY <1>1, <1>3, <2>1, <2>2, EnrichCases, StartSteady, LookSteady, StoreSteady,
       RestSteady
<1>4. CASE Expire \/ UNCHANGED vars
  <2>1. /\ told' = told /\ jobs' = jobs
        /\ \/ detailCache' = detailCache
           \/ \E p \in Packages : detailCache' = [detailCache EXCEPT ![p] = None]
    BY <1>4 DEF Expire, vars, osvVars, enrichVars
  <2>2. DOMAIN detailCache = Packages
    BY DEF Types, TypeOK
  <2>3. \A p \in Packages : Listed(p, detailCache'[p])
    BY <1>1, <2>1, <2>2 DEF ListsSteady, Listed
  <2> QED
    BY <1>1, <2>1, <2>3 DEF ToldSteady, ListsSteady, Listed, JobsSteady, Gathered, Held
<1>5. ~Revise
  BY Unrevised DEF Revise
<1> QED
  BY <1>2, <1>3, <1>4, <1>5 DEF Next, Done

(* A caller's rows and queries are its own.                                *)
LEMMA OwnRows ==
  ASSUME Types, NEW c \in Callers, NEW d \in Callers, d # c, Scan(c) \/ Enrich(c)
  PROVE  UNCHANGED <<at[d], scanFailed[d], records[d], found[d], jobs[d],
                     enrichFailed[d]>>
<1>1. /\ DOMAIN at = Callers /\ DOMAIN scanFailed = Callers /\ DOMAIN records = Callers
      /\ DOMAIN found = Callers /\ DOMAIN jobs = Callers
      /\ DOMAIN enrichFailed = Callers
  BY DEF Types, Domains, TypeOK
<1>2. CASE Scan(c)
  BY <1>1, <1>2 DEF Scan, Serve, BeginPosting, Posted, PostAgain, GiveUp, Flip,
                    enrichVars
<1>3. CASE Enrich(c) /\ ~Collect(c)
  BY <1>1, <1>3, EnrichMoves DEF scanVars
<1>4. CASE Collect(c)
  BY <1>1, <1>4 DEF Collect
<1> QED
  BY <1>2, <1>3, <1>4

(* The end of an enrichment: each query that brought all it should has it  *)
(* on its row, and nothing else came there.                                *)
LEMMA CollectExplains ==
  ASSUME Types, Truthful, Steady, Attaching, NEW c \in Callers, Collect(c),
         changes = 0
  PROVE  /\ \A r \in Rows(c) : records'[c][r] \subseteq found[c][r]
         /\ \A i \in Queries(c) :
               jobs[c][i].state # "none" =>
                  \/ jobs[c][i].state = "failed" /\ enrichFailed'[c]
                  \/ jobs[c][i].state = "ok" /\ ~jobs[c][i].complete
                  \/ Held(c, i) \subseteq records'[c][Asks[c][i].row]
<1>1. /\ at[c] = "enrich" /\ ~scanFailed[c]
      /\ JobsIn(c, {"queued"} \cup Running) = {}
      /\ records'[c] = [r \in Rows(c) |-> Attached(c, r)]
      /\ enrichFailed'[c] = (JobsIn(c, {"failed"}) # {})
  BY DEF Collect, Attaching, Types, Domains
<1>2. ToldSteady /\ JobsSteady /\ FoundTold
  BY DEF Steady, Truthful
<1>3. ASSUME NEW r \in Rows(c) PROVE Attached(c, r) \subseteq found[c][r]
  <2>1. ASSUME NEW i \in Of(c, r) PROVE jobs[c][i].got \subseteq found[c][r]
    <3>1. i \in Queries(c) /\ Asks[c][i].row = r
      BY DEF Of
    <3>2. PICK said \in told[Asks[c][i].package] : Counted(said) \subseteq found[c][r]
      BY <1>1, <1>2, <3>1 DEF FoundTold
    <3>3. Counted(said) = Held(c, i)
      BY <1>2, <3>1, AsksType DEF ToldSteady, Held
    <3>4. jobs[c][i].got \subseteq Held(c, i)
      BY <1>2, <3>1 DEF JobsSteady, Gathered
    <3> QED
      BY <3>2, <3>3, <3>4
  <2> QED
    BY <2>1 DEF Attached
<1>4. ASSUME NEW i \in Queries(c), jobs[c][i].state # "none"
      PROVE  \/ jobs[c][i].state = "failed" /\ enrichFailed'[c]
             \/ jobs[c][i].state = "ok" /\ ~jobs[c][i].complete
             \/ Held(c, i) \subseteq records'[c][Asks[c][i].row]
  <2>1. jobs[c][i] \in Job
    BY DEF Types, TypeOK
  <2>2. jobs[c][i].state \in {"failed", "ok"}
    BY <1>1, <1>4, <2>1 DEF Job, JobsIn, Running
  <2>3. CASE jobs[c][i].state = "failed"
    <3>1. i \in JobsIn(c, {"failed"})
      BY <2>3 DEF JobsIn
    <3> QED
      BY <1>1, <2>3, <3>1
  <2>4. CASE jobs[c][i].state = "ok" /\ jobs[c][i].complete
    <3>1. jobs[c][i].got = Held(c, i)
      BY <1>2, <2>4 DEF JobsSteady, Gathered
    <3>2. i \in Of(c, Asks[c][i].row) \cap JobsIn(c, {"ok"})
      BY <2>4, AsksType DEF JobsIn
    <3>3. jobs[c][i].got \subseteq Attached(c, Asks[c][i].row)
      BY <3>2 DEF Attached
    <3> QED
      BY <1>1, <3>1, <3>3, AsksType
  <2> QED
    BY <2>2, <2>3, <2>4
<1> QED
  BY <1>1, <1>3, <1>4

LEMMA AttachingStep ==
  ASSUME Types, JobsFollow, Truthful, Steady, Attaching, [Next]_vars
  PROVE  Attaching'
<1> SUFFICES ASSUME NEW d \in Callers
             PROVE  /\ at'[d] # "done" =>
                         ~scanFailed'[d] /\ \A r \in Rows(d) : records'[d][r] = {}
                    /\ at'[d] = "done" /\ changes' = 0 => Explained(d)'
  BY DEF Attaching
<1>1. changes' = 0 => changes = 0 /\ truth' = truth
  BY Unrevised
<1>2. ASSUME UNCHANGED <<at[d], scanFailed[d], records[d], found[d], jobs[d],
                         enrichFailed[d]>>
      PROVE  /\ at'[d] # "done" =>
                  ~scanFailed'[d] /\ \A r \in Rows(d) : records'[d][r] = {}
             /\ at'[d] = "done" /\ changes' = 0 => Explained(d)'
  <2>1. /\ at[d] # "done" => ~scanFailed[d] /\ \A r \in Rows(d) : records[d][r] = {}
        /\ at[d] = "done" /\ changes = 0 => Explained(d)
    BY DEF Attaching
  <2>2. at'[d] # "done" => ~scanFailed'[d] /\ \A r \in Rows(d) : records'[d][r] = {}
    BY <1>2, <2>1, Zenon
  <2>3. changes = 0 /\ truth' = truth /\ Explained(d) => Explained(d)'
    BY <1>2, Zenon DEF Explained, Held
  <2> QED
    BY <1>1, <1>2, <2>1, <2>2, <2>3, Zenon
<1>3. CASE Revise \/ Expire \/ UNCHANGED vars
  <2>1. UNCHANGED <<at, scanFailed, records, found, jobs, enrichFailed>>
    BY <1>3 DEF Revise, Expire, vars, scanVars, enrichVars
  <2> QED
    BY <1>2, <2>1
<1>4. ASSUME NEW c \in Callers, c # d, Scan(c) \/ Enrich(c)
      PROVE  UNCHANGED <<at[d], scanFailed[d], records[d], found[d], jobs[d],
                         enrichFailed[d]>>
  BY <1>4, OwnRows
<1>d. /\ DOMAIN at = Callers /\ DOMAIN scanFailed = Callers /\ DOMAIN records = Callers
      /\ DOMAIN found = Callers
  BY DEF Types, Domains, TypeOK
<1>5. ASSUME Scan(d) \/ Enrich(d), at'[d] # "done"
      PROVE  ~scanFailed'[d] /\ \A r \in Rows(d) : records'[d][r] = {}
  <2>1. at[d] # "done"
    BY <1>5, EnrichFrame DEF Scan, Serve, BeginPosting, Posted, PostAgain, GiveUp, Flip
  <2>2. ~GiveUp(d) /\ ~Collect(d)
    BY <1>d, <1>5 DEF GiveUp, Collect
  <2>3. scanFailed'[d] = scanFailed[d] /\ records'[d] = records[d]
    <3>1. CASE Scan(d)
      BY <2>2, <3>1 DEF Scan, Serve, BeginPosting, Posted, PostAgain, Flip, enrichVars
    <3>2. CASE Enrich(d)
      BY <2>2, <3>2, EnrichMoves DEF scanVars
    <3> QED
      BY <1>5, <3>1, <3>2
  <2> QED
    BY <2>1, <2>3 DEF Attaching
<1>6. ASSUME Scan(d) \/ Enrich(d), at'[d] = "done", changes' = 0
      PROVE  Explained(d)'
  <2>1. at[d] # "done"
    <3>1. CASE Scan(d)
      BY <3>1 DEF Scan, Serve, BeginPosting, Posted, PostAgain, GiveUp, Flip
    <3>2. CASE Enrich(d)
      BY <3>2, EnrichCases
    <3> QED
      BY <1>6, <3>1, <3>2
  <2>2. GiveUp(d) \/ Collect(d)
    <3>1. CASE Scan(d)
      BY <1>d, <1>6, <2>1, <3>1 DEF Scan, Serve, BeginPosting, Posted, PostAgain, Flip
    <3>2. CASE Enrich(d)
      BY <1>6, <2>1, <3>2, EnrichMoves DEF scanVars
    <3> QED
      BY <1>6, <3>1, <3>2
  <2>3. CASE GiveUp(d)
    <3>1. /\ at[d] = "post" /\ UNCHANGED <<records, found, jobs>>
      BY <2>3 DEF GiveUp, enrichVars
    <3>2. \A i \in Queries(d) : jobs[d][i].state = "none"
      BY <3>1 DEF JobsFollow
    <3>3. \A r \in Rows(d) : records[d][r] = {}
      BY <3>1 DEF Attaching
    <3> QED
      BY <3>1, <3>2, <3>3 DEF Explained
  <2>4. CASE Collect(d)
    <3>1. UNCHANGED <<found, jobs>>
      BY <2>4 DEF Collect
    <3> QED
      BY <1>1, <1>6, <2>4, <3>1, CollectExplains DEF Explained, Held
  <2> QED
    BY <2>2, <2>3, <2>4
<1> QED
  BY <1>2, <1>3, <1>4, <1>5, <1>6 DEF Next, Done

(* RecordsAreExplained -- while OSV says the same, an enriched row has     *)
(* records of its own IDs only, and all of them but for what a failure     *)
(* that is reported, or a list cut at the bound, leaves out.               *)
THEOREM RecordsAreExplained == Spec => []RecordsExplainIds
<1>1. Attaching => RecordsExplainIds
  BY OsvAssumption DEF Attaching, Explained, Held, RecordsExplainIds
<1> QED
  BY <1>1, InitTypes, InitJobs, InitTruthful, InitSteady, TypesStep, JobsStep,
     TruthfulStep, SteadyStep, AttachingStep, PTL DEF Spec
=============================================================================
