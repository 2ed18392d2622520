-------------------------------- MODULE Fix --------------------------------
(***************************************************************************)
(* One `dependable fix` over several manifests, beside an editor that may  *)
(* save any of them at any moment: `run_fix` of dependable/src/runner.rs,  *)
(* and `plan`, `apply_edits` and `commit` of dependable/src/fix.rs.        *)
(*                                                                         *)
(* Every manifest is checked and planned before the first is written.  The *)
(* check parses one reading of a file, the plan splices into a second, and *)
(* the commit compares a third before it renames the rewrite into place.   *)
(*                                                                         *)
(* A line declares one dependency and says one constraint; a constraint is *)
(* abstracted to a text, and a check to a verdict for each dependency.     *)
(***************************************************************************)
EXTENDS Integers, Sequences, FiniteSets

CONSTANTS
  Dep,         \* dependencies
  Text,        \* what a constraint may say
  TextsOf,     \* [Dep -> SUBSET Text], what an author may write for each
  FixedText,      \* [Dep -> Text], what fix would write for each
  Layout,      \* the manifests of the tree, in discovery order, at the start
  SaveKinds,   \* what the editor does: "reword", "insert", "cut"
  MaxSaves,    \* bound: editor saves
  Nothing         \* a line that declares nothing, no plan, no summary

Line == [dep : Dep, says : Text] \cup {Nothing}
Manifest == 1 .. Len(Layout)

Verdict == {"update", "declined", "current", "undetermined", "error"}
CheckRow == [dep : Dep, line : Nat, expected : Text, verdict : Verdict]
FixPlan == [original : Seq(Line), updated : Seq(Line), records : SUBSET CheckRow]
Ended == {"done", "failed", "killed"}

Declaring(content) == {i \in DOMAIN content : content[i] # Nothing}

OwnTexts(content) ==
  \A i \in Declaring(content) : content[i].says \in TextsOf[content[i].dep]

ASSUME FixAssumption ==
  /\ TextsOf \in [Dep -> SUBSET Text]
  /\ FixedText \in [Dep -> Text]
  /\ \A d \in Dep : FixedText[d] \in TextsOf[d]
  /\ \A d, e \in Dep : d # e => FixedText[d] \notin TextsOf[e]
  /\ Layout \in Seq(Seq(Line))
  /\ \A m \in Manifest : OwnTexts(Layout[m])
  /\ SaveKinds \subseteq {"reword", "insert", "cut"}
  /\ MaxSaves \in Nat
  /\ Nothing \notin [dep : Dep, says : Text] \cup FixPlan
  /\ Nothing \notin {"up to date", "nothing to rewrite", "updated"}

VARIABLES
  file,      \* [Manifest -> Seq(Line)], what is on the disk
  saves,     \* editor saves so far
  dryRun,    \* was --dry-run given
  pc,        \* where run_fix stands
  at,        \* the manifest it is at
  rows,      \* the rows of the check of that manifest
  plans,     \* [Manifest -> FixPlan], what was computed, Nothing where nothing was
  tally,     \* the counters the summary line is chosen by
  printed,   \* the manifests reported as rewritten
  renamed,   \* history: the manifests this run wrote
  behind,    \* history: rows a check did not find current
  late,      \* history: did a save fall between the last re-read of a
             \* manifest about to be written and its rename
  said       \* the closing line

fixVars == <<file, saves, dryRun, pc, at, rows, plans, tally, printed, renamed,
          behind, late, said>>

FixTypeOK ==
  /\ file \in [Manifest -> Seq(Line)]
  /\ saves \in 0 .. MaxSaves
  /\ dryRun \in BOOLEAN
  /\ pc \in {"check", "plan", "commit", "write", "print"} \cup Ended
  /\ at \in 1 .. Len(Layout) + 1
  /\ rows \subseteq CheckRow
  /\ plans \in [Manifest -> FixPlan \cup {Nothing}]
  /\ tally \in [left : Nat, unchecked : Nat, unread : Nat, total : Nat]
  /\ printed \subseteq Manifest /\ renamed \subseteq Manifest
  /\ behind \in Nat /\ late \in BOOLEAN
  /\ said \in {"up to date", "nothing to rewrite", "updated", Nothing}

FixInit ==
  /\ file = Layout
  /\ saves = 0
  /\ dryRun \in BOOLEAN
  /\ pc = "check"
  /\ at = 1
  /\ rows = {}
  /\ plans = [m \in Manifest |-> Nothing]
  /\ tally = [left |-> 0, unchecked |-> 0, unread |-> 0, total |-> 0]
  /\ printed = {} /\ renamed = {}
  /\ behind = 0 /\ late = FALSE
  /\ said = Nothing

(***************************************************************************)
(* Checking and planning.                                                  *)
(***************************************************************************)
(* The rows of one reading of a manifest: a dependency behind its newest   *)
(* release has an update to write or to decline, unless nobody answered.   *)
Possible(line) ==
  {"undetermined", "error"} \cup
    IF line.says = FixedText[line.dep] THEN {"current"} ELSE {"update", "declined"}

RowsOf(content, verdict) ==
  {[dep |-> content[i].dep, line |-> i, expected |-> content[i].says,
    verdict |-> verdict[i]] : i \in DOMAIN verdict}

CheckManifest ==
  /\ pc = "check" /\ at <= Len(Layout)
  /\ \E verdict \in [Declaring(file[at]) -> Verdict] :
       /\ \A i \in DOMAIN verdict : verdict[i] \in Possible(file[at][i])
       /\ rows' = RowsOf(file[at], verdict)
  /\ LET Count(v) == Cardinality({r \in rows' : r.verdict = v}) IN
     /\ tally' = [tally EXCEPT !.unchecked = @ + Count("undetermined")]
     /\ behind' = behind + Cardinality({r \in rows' :
          r.verdict \in {"update", "declined", "undetermined"}})
  /\ pc' = "plan"
  /\ UNCHANGED <<file, saves, dryRun, at, plans, printed, renamed, late, said>>

(* A dependency list that could not be read yields no row, and is planned. *)
CheckUnread ==
  /\ pc = "check" /\ at <= Len(Layout)
  /\ rows' = {}
  /\ tally' = [tally EXCEPT !.unread = @ + 1]
  /\ behind' = behind + 1
  /\ pc' = "plan"
  /\ UNCHANGED <<file, saves, dryRun, at, plans, printed, renamed, late,
                 said>>

(* No fetcher, no parser, or a file nobody recognises: passed over.        *)
SkipManifest ==
  /\ pc = "check" /\ at <= Len(Layout)
  /\ at' = at + 1
  /\ UNCHANGED <<file, saves, dryRun, pc, rows, plans, tally, printed, renamed,
                 behind, late, said>>

Fail ==
  /\ pc' = "failed"
  /\ UNCHANGED <<file, saves, dryRun, at, rows, plans, tally, printed, renamed,
                 behind, late, said>>

(* Any other error of the check, or of a read, ends the run.               *)
FailCheck == pc = "check" /\ at <= Len(Layout) /\ Fail

Edits == {r \in rows : r.verdict = "update"}

(* apply_edits walks the lines of the content: an edit of a line that is   *)
(* not there is met by no check.                                           *)
SpansHoldUnchecked(content, edits) == TRUE
SpansHold(content, edits) ==
  \A r \in edits : r.line <= Len(content) =>
    content[r.line] # Nothing /\ content[r.line].says = r.expected

Spliced(content, edits) ==
  [i \in DOMAIN content |->
     IF content[i] # Nothing /\ \E r \in edits : r.line = i
       THEN [content[i] EXCEPT !.says =
               FixedText[(CHOOSE r \in edits : r.line = i).dep]]
       ELSE content[i]]

PlanManifest ==
  /\ pc = "plan"
  /\ SpansHold(file[at], Edits)
  /\ plans' = [plans EXCEPT ![at] =
       [original |-> file[at], updated |-> Spliced(file[at], Edits),
        records |-> Edits]]
  /\ tally' = [tally EXCEPT !.left =
       @ + Cardinality({r \in rows : r.verdict = "declined"})]
  /\ rows' = {}
  /\ at' = at + 1
  /\ pc' = "check"
  /\ UNCHANGED <<file, saves, dryRun, printed, renamed, behind, late,
                 said>>

(* A span that no longer holds, or a manifest that cannot be read again.   *)
FailPlan == pc = "plan" /\ Fail

AllPlanned ==
  /\ pc = "check" /\ at > Len(Layout)
  /\ pc' = "commit" /\ at' = 1
  /\ UNCHANGED <<file, saves, dryRun, rows, plans, tally, printed, renamed,
                 behind, late, said>>

(***************************************************************************)
(* Writing.                                                                *)
(***************************************************************************)
HasRecords(m) == plans[m] # Nothing /\ plans[m].records # {}

PassOver ==
  /\ pc = "commit" /\ at <= Len(Layout) /\ ~HasRecords(at)
  /\ at' = at + 1
  /\ UNCHANGED <<file, saves, dryRun, pc, rows, plans, tally, printed, renamed,
                 behind, late, said>>

(* The records of a manifest are printed and counted after its commit, or  *)
(* instead of one under --dry-run.                                         *)
Report ==
  /\ \/ pc = "print"
     \/ pc = "commit" /\ at <= Len(Layout) /\ HasRecords(at) /\ dryRun
  /\ printed' = printed \cup {at}
  /\ tally' = [tally EXCEPT !.total = @ + Cardinality(plans[at].records)]
  /\ at' = at + 1
  /\ pc' = "commit"
  /\ UNCHANGED <<file, saves, dryRun, rows, plans, renamed, behind, late,
                 said>>

StillPlannedAlways(m) == TRUE
StillPlanned(m) == file[m] = plans[m].original

Reread ==
  /\ pc = "commit" /\ at <= Len(Layout) /\ HasRecords(at) /\ ~dryRun
  /\ StillPlanned(at)
  /\ pc' = "write"
  /\ late' = FALSE
  /\ UNCHANGED <<file, saves, dryRun, at, rows, plans, tally, printed, renamed,
                 behind, said>>

(* A manifest that changed, or one that cannot be resolved or read again.  *)
RefuseCommit ==
  /\ pc = "commit" /\ at <= Len(Layout) /\ HasRecords(at) /\ ~dryRun
  /\ Fail

(* The temporary file is written and flushed out of everybody's sight; the *)
(* rename is what the disk shows.                                          *)
RenameUnreported ==
  /\ pc = "write"
  /\ file' = [file EXCEPT ![at] = plans[at].updated]
  /\ renamed' = renamed \cup {at}
  /\ pc' = "commit" /\ at' = at + 1
  /\ UNCHANGED <<saves, dryRun, rows, plans, tally, printed, behind, late,
                 said>>

Rename ==
  /\ pc = "write"
  /\ file' = [file EXCEPT ![at] = plans[at].updated]
  /\ renamed' = renamed \cup {at}
  /\ pc' = "print"
  /\ UNCHANGED <<saves, dryRun, at, rows, plans, tally, printed, behind,
                 late, said>>

FailWrite == pc = "write" /\ Fail

UpToDateUnlessFound == tally.total = 0 /\ tally.left = 0
UpToDate == /\ tally.total = 0 /\ tally.left = 0
            /\ tally.unchecked = 0 /\ tally.unread = 0

Finish ==
  /\ pc = "commit" /\ at > Len(Layout)
  /\ pc' = "done"
  /\ said' = CASE UpToDate -> "up to date"
               [] ~UpToDate /\ tally.total = 0 -> "nothing to rewrite"
               [] tally.total > 0 -> IF dryRun THEN Nothing ELSE "updated"
  /\ UNCHANGED <<file, saves, dryRun, at, rows, plans, tally, printed, renamed,
                 behind, late>>

(***************************************************************************)
(* The editor, and a kill.                                                 *)
(***************************************************************************)
Saved(content) ==
  (IF "reword" \in SaveKinds
     THEN UNION {{[content EXCEPT ![i] = [dep |-> content[i].dep, says |-> t]] :
                    t \in TextsOf[content[i].dep]} : i \in Declaring(content)}
     ELSE {})
  \cup (IF "insert" \in SaveKinds /\ Len(content) < 3
          THEN {<<Nothing>> \o content} ELSE {})
  \cup (IF "cut" \in SaveKinds /\ content # <<>>
          THEN {SubSeq(content, 1, Len(content) - 1)} ELSE {})

Save(m) ==
  /\ pc \notin Ended
  /\ saves < MaxSaves
  /\ \E content \in Saved(file[m]) \ {file[m]} : file' = [file EXCEPT ![m] = content]
  /\ saves' = saves + 1
  /\ late' = (late \/ (pc = "write" /\ m = at))
  /\ UNCHANGED <<dryRun, pc, at, rows, plans, tally, printed, renamed,
                 behind, said>>

Kill ==
  /\ pc \notin Ended
  /\ pc' = "killed"
  /\ UNCHANGED <<file, saves, dryRun, at, rows, plans, tally, printed, renamed,
                 behind, late, said>>

Over == pc \in Ended /\ UNCHANGED fixVars

FixNext ==
  \/ CheckManifest \/ CheckUnread \/ SkipManifest \/ FailCheck
  \/ PlanManifest \/ FailPlan \/ AllPlanned
  \/ PassOver \/ Report \/ Reread \/ RefuseCommit \/ Rename \/ FailWrite
  \/ Finish
  \/ \E m \in Manifest : Save(m)
  \/ Kill
  \/ Over

FixSpec == FixInit /\ [][FixNext]_fixVars

(***************************************************************************)
(* Properties.                                                             *)
(***************************************************************************)
(* However an editor inserts and rewords lines between the check and the   *)
(* plan, no dependency comes to say another's version: the text at a       *)
(* recorded span is compared before it is replaced (Edit.expected,         *)
(* apply_edits).  That holds where no two dependencies are written alike   *)
(* (TextsOf), for the comparison is of the text alone (fix.rs:949): lines  *)
(* with one text may trade places.  And every change reported was in what  *)
(* was written: that holds where no save shortens the file (SaveKinds has  *)
(* no "cut"), for an edit past the end is dropped (fix.rs:937) and its     *)
(* record reported all the same (fix.rs:285).                              *)
OwnVersionOnly ==
  /\ \A m \in Manifest : OwnTexts(file[m])
  /\ \A m \in printed : \A r \in plans[m].records :
       /\ r.line \in Declaring(plans[m].updated)
       /\ plans[m].updated[r.line].says = FixedText[r.dep]

(* "The write is refused unless it still holds exactly what the plan was   *)
(* computed from ... an editor save ... would otherwise be overwritten in  *)
(* silence" (commit): the rename replaces the reading the plan was made    *)
(* of, not a save that came after it, in whichever of the manifests.  The  *)
(* one save it can still overwrite falls between the comparison and the    *)
(* rename, which are two steps.                                            *)
OverwritesOnlyPlanned ==
  [][\A m \in Manifest :
       m \in renamed' \ renamed => file[m] = plans[m].original \/ late]_fixVars

(* Whatever stopped the run half-way, what it reported is what it wrote,   *)
(* and a dry run writes nothing; "everything is already up to date" is not *)
(* said over a row the run left alone, could not compare, or never read.   *)
(* (A row that ended in an error is counted nowhere.)                      *)
ReportMatchesWrites ==
  /\ pc \in {"done", "failed"} => renamed = IF dryRun THEN {} ELSE printed
  /\ said = "updated" => \E m \in renamed : HasRecords(m)
  /\ said = "up to date" => behind = 0
=============================================================================
