------------------------------ MODULE OsvClient ------------------------------
(***************************************************************************)
(* Advisories: `OsvClient` (crates/dependable-fetch/src/osv/client.rs) and *)
(* the passes of `Checker` that drive it (check.rs), the scan of a check's *)
(* results and their enrichment.                                           *)
(*                                                                         *)
(* Callers share one client: manifests under check, and the browser's      *)
(* lookups, which scan one package and enrich nothing.  A caller serves    *)
(* its queries from the ID cache, posts the others in chunks, marks its    *)
(* rows, and then asks for the records of those marked.  OSV may change    *)
(* what it says, fail, answer a part of a batch or page without end.       *)
(*                                                                         *)
(* A detail query awaits each of its four dealings with the caches, and    *)
(* others run in between: two lookups before its requests, two stores      *)
(* after them.  A chunk's entries are stored one by one as well; no        *)
(* property relates two of them, and Posted stores them together.          *)
(***************************************************************************)
EXTENDS Naturals, FiniteSets

CONSTANTS
    Callers,
    Packages,        \* (ecosystem, name, version) triples
    Advisories,
    Ghsa,            \* those whose ID starts with GHSA-
    IncludeGhsa,     \* OsvClient::include_ghsa
    Asks,            \* caller -> its queries, numbered: row and package
    Details,         \* the callers with advisory_details
    MaxBatch,        \* MAX_BATCH
    MaxAttempts,     \* MAX_ATTEMPTS
    MaxDetailPages,  \* MAX_DETAIL_PAGES
    Concurrency,     \* CheckerBuilder::concurrency
    Worlds,          \* bound: what OSV may hold at first
    MaxChanges,      \* bound: how often OSV's database changes
    MaxExpiries,     \* bound: how many entries leave the caches
    None

VARIABLES
    truth,        \* OSV's database: package -> its advisories
    changes,      \* how often it changed
    told,         \* package -> the complete answers OSV gave about it
    cache,        \* the ID cache: package -> IDs, or None
    detailCache,  \* package -> records and whether they are all, or None
    expiries,     \* how many entries left the caches
    at,           \* caller -> "serve", "post", "enrich" or "done"
    results,      \* caller, query -> IDs, or None
    pending,      \* caller -> the queries to post
    attempts,     \* caller -> failed attempts at its chunk
    scanFailed,   \* caller -> ManifestCheck::vulnerability_scan_failed
    found,        \* caller, row -> CheckResult::current_vulnerabilities
    jobs,         \* caller, query -> its detail query
    records,      \* caller, row -> CheckResult::advisories
    enrichFailed, \* caller -> whether the enrichment reported a failure
    overtaken     \* history: the queries a cache came to answer too late

osvVars == <<truth, changes, told>>
cacheVars == <<cache, detailCache, expiries>>
scanVars == <<at, results, pending, attempts, scanFailed, found>>
enrichVars == <<jobs, records, enrichFailed>>
vars == <<truth, changes, told, cache, detailCache, expiries, at, results,
          pending, attempts, scanFailed, found, jobs, records, enrichFailed,
          overtaken>>

Queries(c) == DOMAIN Asks[c]
Numbers    == UNION {Queries(c) : c \in Callers}
Rows(c)    == {Asks[c][i].row : i \in Queries(c)}
Of(c, row) == {i \in Queries(c) : Asks[c][i].row = row}

IDs == SUBSET Advisories

ASSUME OsvAssumption ==
    /\ \A c \in Callers : /\ Queries(c) \subseteq Nat
                          /\ IsFiniteSet(Queries(c))
                          /\ \A i \in Queries(c) : Asks[c][i].package \in Packages
    /\ Ghsa \subseteq Advisories
    /\ IncludeGhsa \in BOOLEAN
    /\ Details \subseteq Callers
    /\ {MaxBatch, MaxAttempts, MaxDetailPages, Concurrency} \subseteq Nat \ {0}
    /\ Worlds \subseteq [Packages -> IDs]
    /\ {MaxChanges, MaxExpiries} \subseteq Nat
    /\ \A ids \in IDs : /\ None # ids
                       /\ \A b \in BOOLEAN : None # [ids |-> ids, complete |-> b]

(* What of an answer counts, on either endpoint.                           *)
Counted(ids) == IF IncludeGhsa THEN ids ELSE ids \ Ghsa

NoResults(c) == [i \in Queries(c) |-> None]

Idle == [state |-> "none", got |-> {}, heard |-> {}, pages |-> 0,
         complete |-> FALSE]

Init ==
    /\ truth \in Worlds
    /\ changes = 0
    /\ told = [p \in Packages |-> {}]
    /\ cache = [p \in Packages |-> None]
    /\ detailCache = [p \in Packages |-> None]
    /\ expiries = 0
    /\ at = [c \in Callers |-> "serve"]
    /\ results = [c \in Callers |-> NoResults(c)]
    /\ pending = [c \in Callers |-> {}]
    /\ attempts = [c \in Callers |-> 0]
    /\ scanFailed = [c \in Callers |-> FALSE]
    /\ found = [c \in Callers |-> [r \in Rows(c) |-> {}]]
    /\ jobs = [c \in Callers |-> [i \in Queries(c) |-> Idle]]
    /\ records = [c \in Callers |-> [r \in Rows(c) |-> {}]]
    /\ enrichFailed = [c \in Callers |-> FALSE]
    /\ overtaken = [records |-> {}, clean |-> {}]

-----------------------------------------------------------------------------
(* External: OSV publishes or withdraws an advisory.                       *)
Revise ==
    /\ changes < MaxChanges
    /\ \E p \in Packages, a \in Advisories :
          truth' = [truth EXCEPT ![p] = IF a \in @ THEN @ \ {a} ELSE @ \cup {a}]
    /\ changes' = changes + 1
    /\ UNCHANGED <<told, cacheVars, scanVars, enrichVars, overtaken>>

(* An entry's ten minutes pass, or the cache is full.                      *)
Expire ==
    /\ expiries < MaxExpiries
    /\ expiries' = expiries + 1
    /\ \E p \in Packages :
          \/ cache' = [cache EXCEPT ![p] = None] /\ UNCHANGED detailCache
          \/ detailCache' = [detailCache EXCEPT ![p] = None] /\ UNCHANGED cache
    /\ UNCHANGED <<osvVars, scanVars, enrichVars, overtaken>>

-----------------------------------------------------------------------------
(***************************************************************************)
(* query_batch, under scan_vulnerabilities or scan_package.                *)
(***************************************************************************)
(* A query is answered from the cache, or left for the requests.           *)
Serve(c, i) ==
    LET hit == cache[Asks[c][i].package]
    IN  /\ at[c] = "serve"
        /\ results[c][i] = None /\ i \notin pending[c]
        /\ \A j \in Queries(c) : j < i => results[c][j] # None \/ j \in pending[c]
        /\ results' = [results EXCEPT ![c][i] = hit]
        /\ pending' = IF hit = None THEN [pending EXCEPT ![c] = @ \cup {i}]
                                    ELSE pending
        /\ UNCHANGED <<osvVars, cacheVars, at, attempts, scanFailed, found,
                       enrichVars, overtaken>>

BeginPosting(c) ==
    /\ at[c] = "serve"
    /\ \A i \in Queries(c) : results[c][i] # None \/ i \in pending[c]
    /\ at' = [at EXCEPT ![c] = "post"]
    /\ UNCHANGED <<osvVars, cacheVars, results, pending, attempts, scanFailed,
                   found, enrichVars, overtaken>>

(* The next MAX_BATCH of the pending queries.                              *)
Chunk(c) ==
    {i \in pending[c] : Cardinality({j \in pending[c] : j < i}) < MaxBatch}

(* Mutant: slots without an answer stay empty.                             *)
TakenAsClean(c, answered) == TRUE

(* Whether a body with answers for these queries is one for the chunk.     *)
Answers(c, answered) == answered = Chunk(c)

(* The answer to a query: what OSV holds of its package, or nothing where  *)
(* the body has no slot for it.                                            *)
Slot(c, i, answered) ==
    IF i \in answered THEN truth[Asks[c][i].package] ELSE {}

(* External: OSV answers the first queries of a chunk, all of them as its  *)
(* API promises, or fewer.                                                 *)
Bodies(c) ==
    {answered \in SUBSET Chunk(c) :
        \A i \in answered, j \in Chunk(c) : j < i => j \in answered}

(* The detail queries in these states.                                     *)
JobsIn(c, states) == {i \in Queries(c) : jobs[c][i].state \in states}

(* History: the detail queries in these states about these packages, whose *)
(* own look at the cache was before an answer came to it.                  *)
About(packages, states) ==
    {q \in Callers \X Numbers : /\ q[2] \in JobsIn(q[1], states)
                               /\ Asks[q[1]][q[2]].package \in packages}

CleanComesLate(packages) ==
    overtaken' = [overtaken EXCEPT !.clean = @ \cup About(packages, {"asking"})]

RecordsComeLate(p) ==
    overtaken' = [overtaken EXCEPT !.records =
                     @ \cup About({p}, {"looking", "asking"})]

(* The queries of a chunk that store an answer for a package.              *)
StoredFor(c, p) == {i \in Chunk(c) : Asks[c][i].package = p}

(* A chunk is answered, cached and taken.                                  *)
Posted(c, answered) ==
    /\ at[c] = "post" /\ pending[c] # {}
    /\ Answers(c, answered)
    /\ told' = [p \in Packages |->
                   IF \E i \in answered : Asks[c][i].package = p
                   THEN told[p] \cup {truth[p]} ELSE told[p]]
    /\ cache' = [p \in Packages |->
                   IF StoredFor(c, p) = {} THEN cache[p]
                   ELSE Counted(Slot(c, CHOOSE i \in StoredFor(c, p) : TRUE,
                                     answered))]
    /\ results' = [results EXCEPT ![c] = [i \in Queries(c) |->
                      IF i \in Chunk(c) THEN Counted(Slot(c, i, answered))
                      ELSE @[i]]]
    /\ pending' = [pending EXCEPT ![c] = @ \ Chunk(c)]
    /\ attempts' = [attempts EXCEPT ![c] = 0]
    /\ CleanComesLate({p \in Packages : StoredFor(c, p) # {} /\ cache'[p] = {}})
    /\ UNCHANGED <<truth, changes, detailCache, expiries, at, scanFailed,
                   found, enrichVars>>

(* Whether a failure of this attempt is not the last one's.                *)
AttemptLeft(c) == attempts[c] + 1 < MaxAttempts

(* A transient failure is tried again, so many times.                      *)
PostAgain(c) ==
    /\ at[c] = "post" /\ pending[c] # {}
    /\ AttemptLeft(c)
    /\ attempts' = [attempts EXCEPT ![c] = @ + 1]
    /\ UNCHANGED <<osvVars, cacheVars, at, results, pending, scanFailed, found,
                   enrichVars, overtaken>>

(* The last attempt failed, or the answer is short or an error that time   *)
(* does not mend: the whole scan is given up, whatever earlier chunks said.*)
GiveUp(c) ==
    /\ at[c] = "post" /\ pending[c] # {}
    /\ scanFailed' = [scanFailed EXCEPT ![c] = TRUE]
    /\ results' = [results EXCEPT ![c] = NoResults(c)]
    /\ pending' = [pending EXCEPT ![c] = {}]
    /\ attempts' = [attempts EXCEPT ![c] = 0]
    /\ at' = [at EXCEPT ![c] = "done"]
    /\ UNCHANGED <<osvVars, cacheVars, found, enrichVars, overtaken>>

(* Mutant: the last query about a row decides.                             *)
LastOf(c, row) ==
    results[c][CHOOSE i \in Of(c, row) : \A j \in Of(c, row) : j <= i]

(* Everything found under any spelling of a row's name.                    *)
Flagged(c, row) == UNION {results[c][i] : i \in Of(c, row)}

(* Mutant: every row is enriched.                                          *)
EveryRow(c, row) == TRUE

(* A row that has IDs.                                                     *)
Vulnerable(c, row) == Flagged(c, row) # {}

(* The rows with IDs become Vulnerable, and are to be enriched.            *)
Flip(c) ==
    /\ at[c] = "post" /\ pending[c] = {}
    /\ found' = [found EXCEPT ![c] = [r \in Rows(c) |-> Flagged(c, r)]]
    /\ jobs' = [jobs EXCEPT ![c] = [i \in Queries(c) |->
                   IF c \in Details /\ Vulnerable(c, Asks[c][i].row)
                   THEN [@[i] EXCEPT !.state = "queued"] ELSE @[i]]]
    /\ results' = [results EXCEPT ![c] = NoResults(c)]
    /\ at' = [at EXCEPT ![c] = "enrich"]
    /\ UNCHANGED <<osvVars, cacheVars, pending, attempts, scanFailed, records,
                   enrichFailed, overtaken>>

-----------------------------------------------------------------------------
(***************************************************************************)
(* query_detail, under enrich_advisories.                                  *)
(***************************************************************************)
(* The states of a query that holds a place of the stream.                 *)
Running == {"looking", "asking", "storing", "filling"}

(* Mutant: an empty entry of the ID cache is not used.                     *)
NeverKnown(p) == FALSE

(* The batch query already proved the version clean.                       *)
KnownClean(p) == cache[p] = {}

(* Mutant: the record cache is not asked.                                  *)
NeverRecorded(p) == FALSE

(* The records of the version were fetched before.                         *)
Recorded(p) == detailCache[p] # None

(* A detail query moves on, and no other does.                             *)
JobMoves(c, i, from, job) ==
    /\ at[c] = "enrich"
    /\ jobs[c][i].state = from
    /\ jobs' = [jobs EXCEPT ![c][i] = job]
    /\ UNCHANGED <<truth, changes, scanVars, records, enrichFailed>>

(* A query starts while the stream has room: the record cache answers it,  *)
(* or it goes on to look.                                                  *)
StartDetail(c, i) ==
    LET p == Asks[c][i].package
    IN  /\ Cardinality(JobsIn(c, Running)) < Concurrency
        /\ JobMoves(c, i, "queued",
              IF Recorded(p)
              THEN [jobs[c][i] EXCEPT !.state = "ok", !.got = detailCache[p].ids,
                                      !.complete = detailCache[p].complete]
              ELSE [jobs[c][i] EXCEPT !.state = "looking"])
        /\ UNCHANGED <<told, cacheVars, overtaken>>

(* An empty entry of the ID cache answers it, or it goes to OSV.           *)
LookForClean(c, i) ==
    /\ JobMoves(c, i, "looking",
          IF KnownClean(Asks[c][i].package)
          THEN [jobs[c][i] EXCEPT !.state = "ok", !.complete = TRUE]
          ELSE [jobs[c][i] EXCEPT !.state = "asking"])
    /\ UNCHANGED <<told, cacheVars, overtaken>>

(* Mutant: a list cut at the bound counts as all.                          *)
BackfillAlways(last) == TRUE

(* Whether the pages heard are all there is: only then may they stand in   *)
(* for an answer to the batch query.                                       *)
Backfill(last) == last

(* OSV answers a page: some of its records, and a token unless it is the   *)
(* last.  After the last, or at the bound, the list is to be stored.       *)
Page(c, i, ids, last) ==
    LET p   == Asks[c][i].package
        job == [jobs[c][i] EXCEPT !.got = @ \cup Counted(ids),
                                  !.heard = @ \cup ids,
                                  !.pages = @ + 1]
    IN  /\ JobMoves(c, i, "asking",
              IF last \/ job.pages >= MaxDetailPages
              THEN [Idle EXCEPT !.state = "storing", !.got = job.got,
                                !.complete = last]
              ELSE job)
        /\ ids \subseteq truth[p] \ jobs[c][i].heard
        /\ last => truth[p] \ jobs[c][i].heard \subseteq ids
        /\ told' = IF last THEN [told EXCEPT ![p] = @ \cup {job.heard}]
                           ELSE told
        /\ UNCHANGED <<cacheVars, overtaken>>

(* The list is stored, and is the answer unless IDs are to be filled in.   *)
StoreRecords(c, i) ==
    LET p   == Asks[c][i].package
        job == jobs[c][i]
    IN  /\ JobMoves(c, i, "storing",
              [job EXCEPT !.state = IF Backfill(job.complete) THEN "filling"
                                                              ELSE "ok"])
        /\ detailCache' = [detailCache EXCEPT ![p] =
                              [ids |-> job.got, complete |-> job.complete]]
        /\ RecordsComeLate(p)
        /\ UNCHANGED <<told, cache, expiries>>

(* The IDs of the list are stored, for the next batch query.               *)
BackfillIds(c, i) ==
    LET p == Asks[c][i].package
    IN  /\ JobMoves(c, i, "filling", [jobs[c][i] EXCEPT !.state = "ok"])
        /\ cache' = [cache EXCEPT ![p] = jobs[c][i].got]
        /\ CleanComesLate({q \in {p} : jobs[c][i].got = {}})
        /\ UNCHANGED <<told, detailCache, expiries>>

(* Mutant: a failed query is asked again, for as long as it fails.         *)
FailDetailRequeued(c, i) ==
    /\ JobMoves(c, i, "asking", [jobs[c][i] EXCEPT !.state = "queued"])
    /\ UNCHANGED <<told, cacheVars, overtaken>>

(* A failure ends this query, which is not retried, and no other.          *)
FailDetail(c, i) ==
    /\ JobMoves(c, i, "asking", [jobs[c][i] EXCEPT !.state = "failed"])
    /\ UNCHANGED <<told, cacheVars, overtaken>>

(* Mutant: one failure discards what the others fetched.                   *)
AllOrNothing(c, row) ==
    IF JobsIn(c, {"failed"}) # {} THEN {}
    ELSE UNION {jobs[c][i].got : i \in Of(c, row)}

(* What the queries about a row brought.                                   *)
Attached(c, row) ==
    UNION {jobs[c][i].got : i \in Of(c, row) \cap JobsIn(c, {"ok"})}

(* The records are attached, and the first failure reported.               *)
Collect(c) ==
    /\ at[c] = "enrich"
    /\ JobsIn(c, {"queued"} \cup Running) = {}
    /\ records' = [records EXCEPT ![c] = [r \in Rows(c) |-> Attached(c, r)]]
    /\ enrichFailed' = [enrichFailed EXCEPT ![c] = JobsIn(c, {"failed"}) # {}]
    /\ at' = [at EXCEPT ![c] = "done"]
    /\ UNCHANGED <<osvVars, cacheVars, results, pending, attempts, scanFailed,
                   found, jobs, overtaken>>

-----------------------------------------------------------------------------
Scan(c) ==
    \/ \E i \in Queries(c) : Serve(c, i)
    \/ BeginPosting(c)
    \/ at[c] = "post" /\ \E answered \in Bodies(c) : Posted(c, answered)
    \/ PostAgain(c)
    \/ GiveUp(c)
    \/ Flip(c)

Enrich(c) ==
    /\ at[c] = "enrich"
    /\ \/ \E i \in JobsIn(c, {"queued"}) : StartDetail(c, i)
       \/ \E i \in JobsIn(c, {"looking"}) : LookForClean(c, i)
       \/ \E i \in JobsIn(c, {"asking"}) :
             \/ \E ids \in IDs, last \in BOOLEAN : Page(c, i, ids, last)
             \/ FailDetail(c, i)
       \/ \E i \in JobsIn(c, {"storing"}) : StoreRecords(c, i)
       \/ \E i \in JobsIn(c, {"filling"}) : BackfillIds(c, i)
       \/ Collect(c)

Done == (\A c \in Callers : at[c] = "done") /\ UNCHANGED vars

Next == (\E c \in Callers : Scan(c) \/ Enrich(c)) \/ Revise \/ Expire \/ Done

(* Every request ends, with an answer or a failure (reqwest's timeouts),   *)
(* and the runtime goes on polling each task.                              *)
Spec == Init /\ [][Next]_vars /\ \A c \in Callers : WF_vars(Scan(c) \/ Enrich(c))

-----------------------------------------------------------------------------
(***************************************************************************)
(* Properties.                                                             *)
(***************************************************************************)
Job == [state : {"none", "queued", "ok", "failed"} \cup Running, got : IDs,
        heard : IDs, pages : 0 .. MaxDetailPages, complete : BOOLEAN]

Late == [records : SUBSET (Callers \X Numbers),
         clean : SUBSET (Callers \X Numbers)]

(* TypeOK -- the caches hold IDs and records; a query is pending or has an *)
(* answer; pages and attempts stay below their limits.                     *)
TypeOK ==
    /\ truth \in [Packages -> IDs]
    /\ changes \in 0 .. MaxChanges
    /\ expiries \in 0 .. MaxExpiries
    /\ told \in [Packages -> SUBSET IDs]
    /\ cache \in [Packages -> {None} \cup IDs]
    /\ detailCache \in [Packages -> {None} \cup [ids : IDs, complete : BOOLEAN]]
    /\ at \in [Callers -> {"serve", "post", "enrich", "done"}]
    /\ \A c \in Callers :
          /\ results[c] \in [Queries(c) -> {None} \cup IDs]
          /\ pending[c] \in SUBSET Queries(c)
          /\ attempts[c] \in 0 .. MaxAttempts - 1
          /\ scanFailed[c] \in BOOLEAN
          /\ found[c] \in [Rows(c) -> IDs]
          /\ jobs[c] \in [Queries(c) -> Job]
          /\ records[c] \in [Rows(c) -> IDs]
          /\ enrichFailed[c] \in BOOLEAN
    /\ overtaken \in Late

(* An answer that OSV gave in full about a package.                        *)
WasTold(p, ids) == \E said \in told[p] : ids = Counted(said)

(* CleanMeansTold -- "a truncated answer is an error, not a clean bill"    *)
(* (client.rs:186): a package is without advisories in a cache, or a row   *)
(* of a scan that did not fail, only because OSV said so of that very      *)
(* package in a complete answer, whichever endpoint it came from and       *)
(* whoever asked.                                                          *)
CleanMeansTold ==
    /\ \A p \in Packages : cache[p] # None => WasTold(p, cache[p])
    /\ \A c \in Callers : \A i \in Queries(c) :
          at[c] \in {"enrich", "done"} /\ ~scanFailed[c] =>
            \E said \in told[Asks[c][i].package] :
               Counted(said) \subseteq found[c][Asks[c][i].row]

(* RecordsExplainIds -- "an enriched result never disagrees with the check *)
(* that produced it" (client.rs:226), and a version that fails "is left    *)
(* unenriched rather than discarding the ones that succeeded"              *)
(* (check.rs:603): while OSV says the same, every ID of a row has its      *)
(* record and no record is without its ID, but for what a failed query or  *)
(* a list cut at the bound leaves out, and a failure is reported.          *)
RecordsExplainIds ==
    \A c \in Details : at[c] = "done" /\ changes = 0 =>
      /\ \A r \in Rows(c) : records[c][r] \subseteq found[c][r]
      /\ \A i \in Queries(c) :
            jobs[c][i].state # "none" =>
               \/ jobs[c][i].state = "failed" /\ enrichFailed[c]
               \/ jobs[c][i].state = "ok" /\ ~jobs[c][i].complete
               \/ Counted(truth[Asks[c][i].package])
                     \subseteq records[c][Asks[c][i].row]

(* AskedWhileOpen -- "clean packages are never queried" (check.rs:597),    *)
(* and one the caches answer "needs no request at all" (client.rs:224),    *)
(* whoever fills them: a request is under way only for a row of which OSV  *)
(* named an advisory under some spelling, and where a cache answers it,    *)
(* that answer came after the query's own look at this cache.  Two queries *)
(* about one package may both have looked before: "one OSV request per     *)
(* distinct vulnerable package version" (check.rs:596) is not promised.    *)
AskedWhileOpen ==
    \A c \in Callers : \A i \in JobsIn(c, {"asking"}) :
        LET p == Asks[c][i].package
        IN  /\ \E j \in Of(c, Asks[c][i].row) :
                  \E said \in told[Asks[c][j].package] : Counted(said) # {}
            /\ detailCache[p] # None => <<c, i>> \in overtaken.records
            /\ cache[p] = {} => <<c, i>> \in overtaken.clean

(* CallsEnd -- every check ends, however OSV fails and pages.              *)
CallsEnd == \A c \in Callers : <>(at[c] = "done")
=============================================================================
